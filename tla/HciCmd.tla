------------------------------- MODULE HciCmd -------------------------------
(***************************************************************************)
(* The HCI command path of the host (easyBtHost/eb_hci.c): one command is  *)
(* handed to the controller at a time, the others wait in hci_buffer until *)
(* an event answers it, and one LE Encrypt request at a time may have a    *)
(* callback registered (m_hci_encrypt_cb).                                 *)
(*                                                                         *)
(* The host is single threaded: every host action below is one call made   *)
(* from eb_schedule, from the application's callback, or eb_init.  The     *)
(* controller answers the commands it holds in order.  Commands carry a    *)
(* number that the code does not have, to tell them apart.                 *)
(***************************************************************************)
EXTENDS Integers, Sequences, SequencesExt, FiniteSets

CONSTANTS
    BufNum,         \* BUF_NUM: slots of hci_buffer, one of them always free
    MaxCmds,        \* bound: commands issued in a behaviour
    MaxNops,        \* bound: Command Completes that answer no command
    MaxInits,       \* bound: calls of eb_init after the first
    MaxLost         \* bound: commands usb_hci_send fails to hand over

ASSUME HciCmdAssumption ==
    /\ BufNum \in Nat \ {0, 1}
    /\ MaxCmds \in Nat
    /\ MaxNops \in Nat
    /\ MaxInits \in Nat
    /\ MaxLost \in Nat

VARIABLES
    fifo,           \* hci_buffer between fr and ra
    pending,        \* hci_cmd_pending: 0 or 1
    encrypt_cb,     \* number of the request m_hci_encrypt_cb stands for, or 0
    ctrl,           \* commands the controller has not answered
    evts,           \* events the host has not handled
    issued,         \* history: commands given to eb_hci_send, in order
    handed,         \* history: commands given to usb_hci_send, in order
    served,         \* history: <<callback, answer>> of each served request
    nops,           \* history: Command Completes that answered no command
    inits,          \* history: calls of eb_init after the first
    lost            \* history: commands lost at the USB

hostVars == <<fifo, pending, encrypt_cb>>
ctrlVars == <<ctrl, evts>>
histVars == <<issued, handed, served, nops, inits, lost>>
vars == <<hostVars, ctrlVars, histVars>>

-----------------------------------------------------------------------------
Op == {"encrypt", "reset", "other"}

(* What the callback of an answer may send.                                *)
Follow == {"none", "encrypt", "other"}

Command == [id : Nat, op : Op]

(* "complete" is Command Complete, "status" Command Status, "nop" a        *)
(* Command Complete for no command (opcode 0), which only says that the    *)
(* controller can take one more.                                           *)
Event == [kind : {"complete", "status", "nop"}, id : Nat, op : Op \cup {"none"}]

Cmd(op) == [id |-> Len(issued) + 1, op |-> op]

Nop == [kind |-> "nop", id |-> 0, op |-> "none"]

(* Faults: the test of hci_cmd_pending forgotten; the command sent is the  *)
(* newest one.                                                             *)
PendingSendAlways(new, p) ==
    LET f == fifo \o new
    IN  /\ Len(f) < BufNum
        /\ issued' = issued \o new
        /\ IF f # <<>>
           THEN /\ fifo' = Tail(f)
                /\ pending' = 1
                /\ ctrl' = Append(ctrl, Head(f))
                /\ handed' = Append(handed, Head(f))
           ELSE /\ fifo' = f
                /\ pending' = p
                /\ UNCHANGED <<ctrl, handed>>
PendingSendNewest(new, p) ==
    LET f == fifo \o new
    IN  /\ Len(f) < BufNum
        /\ issued' = issued \o new
        /\ IF p = 0 /\ f # <<>>
           THEN /\ fifo' = Front(f)
                /\ pending' = 1
                /\ ctrl' = Append(ctrl, Last(f))
                /\ handed' = Append(handed, Last(f))
           ELSE /\ fifo' = f
                /\ pending' = p
                /\ UNCHANGED <<ctrl, handed>>

(* eb_hci_send of the commands new, one after the other, started with      *)
(* hci_cmd_pending = p.  Of a run of pushes and eb_hci_pending_send calls  *)
(* at most one hands a command over, and it takes the oldest.  The assert  *)
(* of HCI_FIFO_PUSH ends the program when the buffer is full: no step.     *)
PendingSend(new, p) ==
    LET f == fifo \o new
    IN  /\ Len(f) < BufNum
        /\ issued' = issued \o new
        /\ IF p = 0 /\ f # <<>>
           THEN /\ fifo' = Tail(f)
                /\ pending' = 1
                /\ ctrl' = Append(ctrl, Head(f))
                /\ handed' = Append(handed, Head(f))
           ELSE /\ fifo' = f
                /\ pending' = p
                /\ UNCHANGED <<ctrl, handed>>

-----------------------------------------------------------------------------
(* After the first eb_init: the Reset command is on its way.               *)
Init ==
    /\ fifo = <<>>
    /\ pending = 1
    /\ encrypt_cb = 0
    /\ ctrl = << [id |-> 1, op |-> "reset"] >>
    /\ evts = <<>>
    /\ issued = << [id |-> 1, op |-> "reset"] >>
    /\ handed = << [id |-> 1, op |-> "reset"] >>
    /\ served = {}
    /\ nops = 0
    /\ inits = 0
    /\ lost = 0

(* eb_h4_send of a command other than LE Encrypt.                          *)
SendCmd ==
    /\ Len(issued) < MaxCmds
    /\ PendingSend(<<Cmd("other")>>, pending)
    /\ UNCHANGED <<encrypt_cb, evts, served, nops, inits, lost>>

(* Fault: em_hci_encrypt forgets to refuse a second request.               *)
EncryptTwice ==
    /\ Len(issued) < MaxCmds
    /\ encrypt_cb' = Len(issued) + 1
    /\ PendingSend(<<Cmd("encrypt")>>, pending)
    /\ UNCHANGED <<evts, served, nops, inits, lost>>

(* em_hci_encrypt: refused while a callback is registered.                 *)
Encrypt ==
    /\ Len(issued) < MaxCmds
    /\ encrypt_cb = 0
    /\ encrypt_cb' = Len(issued) + 1
    /\ PendingSend(<<Cmd("encrypt")>>, pending)
    /\ UNCHANGED <<evts, served, nops, inits, lost>>

(* em_hci_encrypted_handler for the answer e, with a callback that, as     *)
(* smp_enc_cal_cb, may start the next encryption at once.                  *)
EncryptedHandler(e, next) ==
    IF encrypt_cb = 0
    THEN next = "none" /\ UNCHANGED <<encrypt_cb, served>>
    ELSE /\ encrypt_cb' = IF next = "encrypt" THEN Len(issued) + 1 ELSE 0
         /\ served' = served \cup {<<encrypt_cb, e.id>>}

(* Command Complete: eb_hci_pending_send, then the handler of the opcode,  *)
(* whose callback may send a command.                                      *)
CommandComplete(next) ==
    /\ evts # <<>> /\ Head(evts).kind \in {"complete", "nop"}
    /\ evts' = Tail(evts)
    /\ IF Head(evts).op = "encrypt"
       THEN EncryptedHandler(Head(evts), next)
       ELSE /\ next # "encrypt"
            /\ next # "none" => Head(evts).op = "reset"
            /\ UNCHANGED <<encrypt_cb, served>>
    /\ next # "none" => Len(issued) < MaxCmds
    /\ PendingSend(IF next = "none" THEN <<>> ELSE <<Cmd(next)>>, 0)
    /\ UNCHANGED <<nops, inits, lost>>

(* Fault: Command Status leaves hci_cmd_pending set.                       *)
CommandStatusKeepsPending ==
    /\ evts # <<>> /\ Head(evts).kind = "status"
    /\ evts' = Tail(evts)
    /\ PendingSend(<<>>, pending)
    /\ UNCHANGED <<encrypt_cb, served, nops, inits, lost>>

(* Command Status.                                                         *)
CommandStatus ==
    /\ evts # <<>> /\ Head(evts).kind = "status"
    /\ evts' = Tail(evts)
    /\ PendingSend(<<>>, 0)
    /\ UNCHANGED <<encrypt_cb, served, nops, inits, lost>>

(* eb_init again (after a hardware error): eb_hci_init clears the flag,    *)
(* but neither the queue nor m_hci_encrypt_cb, so that the Reset lines up  *)
(* behind the commands of before.  The receive buffer is cleared before    *)
(* the readers are stopped: some of the last events may still get in.      *)
(* Closing the device may reset the controller or leave it at work.        *)
Reinit ==
    /\ inits < MaxInits
    /\ Len(issued) < MaxCmds
    /\ inits' = inits + 1
    /\ \E k \in 0..Len(evts) : evts' = SubSeq(evts, k + 1, Len(evts))
    /\ LET f == Append(fifo, Cmd("reset"))
       IN  /\ Len(f) < BufNum
           /\ issued' = Append(issued, Cmd("reset"))
           /\ fifo' = Tail(f)
           /\ handed' = Append(handed, Head(f))
           /\ \E kept \in {<<>>, ctrl} : ctrl' = Append(kept, Head(f))
    /\ pending' = 1
    /\ UNCHANGED <<encrypt_cb, served, nops, lost>>

-----------------------------------------------------------------------------
(* External: the controller and the USB control pipe.                      *)

Answer(kind) ==
    /\ ctrl # <<>>
    /\ kind = "status" => Head(ctrl).op = "other"
    /\ evts' = Append(evts, [kind |-> kind, id |-> Head(ctrl).id,
                             op |-> Head(ctrl).op])
    /\ ctrl' = Tail(ctrl)
    /\ UNCHANGED <<hostVars, histVars>>

SendNop ==
    /\ nops < MaxNops
    /\ nops' = nops + 1
    /\ evts' = Append(evts, Nop)
    /\ UNCHANGED <<hostVars, ctrl, issued, handed, served, inits, lost>>

(* usb_hci_send failed: nobody looks at its result.                        *)
UsbLost ==
    /\ lost < MaxLost
    /\ ctrl # <<>>
    /\ ctrl' = Front(ctrl)
    /\ lost' = lost + 1
    /\ UNCHANGED <<hostVars, evts, issued, handed, served, nops, inits>>

Host ==
    \/ SendCmd
    \/ Encrypt
    \/ \E next \in Follow : CommandComplete(next)
    \/ CommandStatus
    \/ Reinit

Controller ==
    \/ \E kind \in {"complete", "status"} : Answer(kind)
    \/ SendNop
    \/ UsbLost

Next == Host \/ Controller

Spec == Init /\ [][Next]_vars

(* eb_schedule is polled for ever; the controller answers every command.   *)
Fairness ==
    /\ WF_vars(\E next \in Follow : CommandComplete(next))
    /\ WF_vars(CommandStatus)
    /\ WF_vars(\E kind \in {"complete", "status"} : Answer(kind))

FairSpec == Spec /\ Fairness

-----------------------------------------------------------------------------
TypeOK ==
    /\ fifo \in Seq(Command)
    /\ Len(fifo) < BufNum
    /\ pending \in {0, 1}
    /\ encrypt_cb \in Nat
    /\ ctrl \in Seq(Command)
    /\ evts \in Seq(Event)
    /\ issued \in Seq(Command)
    /\ handed \in Seq(Command)
    /\ served \subseteq Nat \X Nat
    /\ nops \in Nat
    /\ inits \in Nat
    /\ lost \in Nat

(* Commands the controller works on or has answered unknown to the host.   *)
Unanswered == Len(ctrl) + Cardinality({i \in DOMAIN evts : evts[i].kind # "nop"})

(* The controller is given a command only when it has answered the one     *)
(* before: at most one is out, and one more for each Command Complete that *)
(* answered nothing and each restart of the host (eb_hci.c:98-115,265-275).*)
OneOutstanding == Unanswered <= 1 + nops + inits

(* Commands reach the controller once each and in the order of issue, over *)
(* restarts of the host too (eb_hci.c:237-281).                            *)
HandedInOrder == handed \o fifo = issued

(* A queue that waits will be woken: somebody owes the host an event, or   *)
(* the USB has swallowed the command (eb_hci.c:98-115, 265-281).           *)
NeverStuck ==
    /\ fifo # <<>> => pending = 1
    /\ pending = 1 => ctrl \o evts # <<>> \/ lost > 0

(* A registered callback stands for a request on its way; only a restart   *)
(* or a lost command can leave it behind, and then no later request is     *)
(* accepted (eb_hci.c:213-235).                                            *)
CallbackHasRequest ==
    encrypt_cb # 0 =>
        \/ \E i \in DOMAIN fifo : fifo[i] = [id |-> encrypt_cb, op |-> "encrypt"]
        \/ \E i \in DOMAIN ctrl : ctrl[i] = [id |-> encrypt_cb, op |-> "encrypt"]
        \/ \E i \in DOMAIN evts : /\ evts[i].id = encrypt_cb
                                  /\ evts[i].op = "encrypt"
        \/ lost + inits > 0

(* A callback gets the answer to the request it was registered with, never *)
(* that of an older one (eb_hci.c:213-235).                                *)
RightAnswer == \A s \in served : s[1] = s[2]

(* Every command issued reaches the controller (eb_hci.c:98-115, 265-281). *)
CommandsHanded ==
    \A n \in 1..MaxCmds : Len(issued) >= n ~> (Len(handed) >= n \/ lost > 0)

(* Every encryption request is answered (eb_hci.c:213-235).                *)
EncryptServed ==
    \A n \in 1..MaxCmds :
        encrypt_cb = n ~> (encrypt_cb # n \/ inits + lost > 0)

=============================================================================
