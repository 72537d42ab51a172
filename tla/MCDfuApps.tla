----------------------------- MODULE MCDfuApps ------------------------------
(* Instance of DfuMain: two devices; lists on which two items match the    *)
(* same report, lack their file or are to be repeated; zip files with one  *)
(* part and with both.                                                     *)
EXTENDS DfuMain

CONSTANTS d1, d2

MCDev == {d1, d2}

Item(match, file, repeat) == [match |-> match, file |-> file, repeat |-> repeat]

MCLists ==
    { <<Item({d1}, TRUE, FALSE), Item({d2}, TRUE, FALSE)>>,
      <<Item({d1}, FALSE, FALSE), Item({d2}, TRUE, TRUE)>>,
      <<Item({d1, d2}, TRUE, FALSE), Item({d1}, FALSE, FALSE)>> }

MCZips == {{"boot", "firmware"}, {"firmware"}, {"boot"}}

=============================================================================
