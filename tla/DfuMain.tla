------------------------------ MODULE DfuMain -------------------------------
(***************************************************************************)
(* The update application (easyBtHostDFU/main.c): its arguments choose the *)
(* interactive program, DfuSingle, or the unattended one, DfuBatch.  Both  *)
(* run on DfuHost; of the program that was not chosen nothing changes.     *)
(***************************************************************************)
EXTENDS DfuBatch, DfuSingle

Init ==
    /\ HostInit
    /\ \/ /\ main_function = "single"
          /\ SingleInit(Zips) /\ BatchInit({<<>>})
       \/ /\ main_function = "batch"
          /\ SingleInit({{}}) /\ BatchInit(Lists)

Single == main_function = "single" /\ SingleNext /\ UNCHANGED batchVars

Batch == main_function = "batch" /\ BatchNext /\ UNCHANGED singleVars

Next == (Single \/ Batch) /\ UNCHANGED main_function

Spec == Init /\ [][Next]_<<main_function, dfuHostVars, singleVars, batchVars>>

(* Each program calls eb_schedule for ever.  The keys the user presses are *)
(* not fair: he may leave.                                                 *)
FairSpec ==
    /\ Spec
    /\ EnvironmentFairness
    /\ WF_dfuSingleVars(main_function = "single" /\ SingleHandler)
    /\ WF_dfuSingleVars(main_function = "single" /\ SingleTimeout)
    /\ WF_dfuBatchVars(main_function = "batch" /\ BatchHandler)
    /\ WF_dfuBatchVars(main_function = "batch" /\ BatchTimeout)

=============================================================================
