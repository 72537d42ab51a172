-------------------------------- MODULE Smp --------------------------------
(***************************************************************************)
(* Pairing (easyBtHost/eb_smp.c): two hosts run the same code, one as      *)
(* master and one as slave of a link.  Each computes with the help of its  *)
(* controller, which answers an encryption some time after it was asked;   *)
(* meanwhile packets and events arrive, and the link may be lost and set   *)
(* up again.  Neither the disconnection nor the connection handler resets  *)
(* the state of the pairing.                                               *)
(*                                                                         *)
(* A 16 byte block is a pair of halves.  Encryption is injective and is    *)
(* counted; the addresses and packets mixed into a confirm value are the   *)
(* same on both sides, so a confirm value stands for its random value.     *)
(***************************************************************************)
EXTENDS Integers, Sequences

CONSTANT MaxLinks       \* bound: links set up in a behaviour

ASSUME SmpAssumption == MaxLinks \in Nat

VARIABLES
    smp_state,      \* smp_env.smp_state of each host
    enc_state,      \* smp_env.smp_encrypt_state of each host
    rand,           \* smp_local_rand_value: number of the draw, 0 before
    buf,            \* smp_encrypt_buf
    cb,             \* block whose encryption m_hci_encrypt_cb waits for
    conn,           \* smp_env.conn_hd is the handle of a link
    encrypted,      \* gap_env.encrypted
    air,            \* SMP packets on their way to each host
    evts,           \* events each host has not handled
    up,             \* the controllers have a link
    secured,        \* ... and encrypt it
    key,            \* keys the hosts gave their controllers for the link
    links,          \* history: links set up
    draws,          \* history: random values drawn
    authed,         \* history: eb_smp_auth was called on this link
    carried,        \* history: it began with an encryption unanswered
    confirmed,      \* history: confirm values each host sent on this link
    revealed        \* history: random values each host sent on this link

hostVars == <<smp_state, enc_state, rand, buf, cb, conn, encrypted>>
linkVars == <<air, evts, up, secured, key>>
histVars == <<links, draws, authed, carried, confirmed, revealed>>
vars == <<hostVars, linkVars, histVars>>

-----------------------------------------------------------------------------
Host == {"master", "slave"}
Peer(h) == IF h = "master" THEN "slave" ELSE "master"

SmpState == {"IDLE", "PAIRING_REQ", "PAIRING_RSP", "CONFIRM_REQ",
             "CONFIRM_RSP", "RAND_REQ", "RAND_RSP", "LTK_REQ", "LTK_RSP"}
EncState == {"IDLE", "CAL1", "CAL2", "PENDING", "STK"}

(* Half a block: the random value n, alone or mixed with the pairing       *)
(* packets; the packets alone; or a key of the application.                *)
Half == [of : {"rand", "pairing", "packets", "app"}, n : Nat, rounds : Nat]
Block == Half \X Half

Twice(of, n) == <<[of |-> of, n |-> n, rounds |-> 0],
                  [of |-> of, n |-> n, rounds |-> 0]>>
Rand(n) == [of |-> "rand", n |-> n, rounds |-> 0]

Encrypted(b) == <<[b[1] EXCEPT !.rounds = @ + 1], [b[2] EXCEPT !.rounds = @ + 1]>>

ConfirmOf(n) == Encrypted(Encrypted(Twice("pairing", n)))
Stk(m, s) == Encrypted(<<Rand(m), Rand(s)>>)
AppKey == Twice("app", 0)

Packet == [code : {"request", "response", "keys"}]
     \cup [code : {"confirm"}, value : Block]
     \cup [code : {"random"}, value : Nat]

Set(f, h, v) == [f EXCEPT ![h] = v]

(* Packets handed over while the link is down are lost.                    *)
SendOn(open, h, p, a) ==
    IF up /\ open THEN [a EXCEPT ![Peer(h)] = @ \o p] ELSE a

(* em_hci_encrypt; no caller looks at its result.                          *)
Encrypt(h, b) == cb' = IF cb[h] = {} THEN Set(cb, h, {b}) ELSE cb

Init ==
    /\ smp_state = [h \in Host |-> "IDLE"]
    /\ enc_state = [h \in Host |-> "IDLE"]
    /\ rand = [h \in Host |-> 0]
    /\ buf = [h \in Host |-> Twice("packets", 0)]
    /\ cb = [h \in Host |-> {}]
    /\ conn = [h \in Host |-> FALSE]
    /\ encrypted = [h \in Host |-> FALSE]
    /\ air = [h \in Host |-> <<>>]
    /\ evts = [h \in Host |-> <<>>]
    /\ up = FALSE
    /\ secured = FALSE
    /\ key = [h \in Host |-> {}]
    /\ links = 0
    /\ draws = 0
    /\ authed = FALSE
    /\ carried = FALSE
    /\ confirmed = [h \in Host |-> {}]
    /\ revealed = [h \in Host |-> {}]

-----------------------------------------------------------------------------
(* eb_smp_auth of the master, once a link: Pairing Request.  The slave's   *)
(* Security Request changes nothing on either side.                        *)
Auth ==
    /\ conn["master"] /\ ~authed
    /\ authed' = TRUE
    /\ smp_state' = Set(smp_state, "master", "PAIRING_REQ")
    /\ buf' = Set(buf, "master", Twice("packets", 0))
    /\ air' = SendOn(TRUE, "master", <<[code |-> "request"]>>, air)
    /\ UNCHANGED <<enc_state, rand, cb, conn, encrypted, evts, up, secured, key,
                   links, draws, carried, confirmed, revealed>>

(* Fault: the confirm value is computed before the random value is drawn.  *)
DrawAndConfirmSwapped(h) ==
    /\ draws' = draws + 1
    /\ rand' = Set(rand, h, draws + 1)
    /\ buf' = Set(buf, h, Twice("pairing", rand[h]))
    /\ Encrypt(h, Twice("pairing", rand[h]))
    /\ smp_state' = Set(smp_state, h, "PAIRING_RSP")
    /\ enc_state' = Set(enc_state, h, "CAL1")

(* Draw a random value, and smp_cal_confirm.                               *)
DrawAndConfirm(h) ==
    /\ draws' = draws + 1
    /\ rand' = Set(rand, h, draws + 1)
    /\ buf' = Set(buf, h, Twice("pairing", draws + 1))
    /\ Encrypt(h, Twice("pairing", draws + 1))
    /\ smp_state' = Set(smp_state, h, "PAIRING_RSP")
    /\ enc_state' = Set(enc_state, h, "CAL1")

(* The next packet for h, which is taken off the air.                      *)
Receive(h, code) == air[h] # <<>> /\ Head(air[h]).code = code
Rest(h) == [air EXCEPT ![h] = Tail(@)]

PairingRequest(h) ==
    /\ Receive(h, "request")
    /\ air' = SendOn(TRUE, h, <<[code |-> "response"]>>, Rest(h))
    /\ DrawAndConfirm(h)
    /\ UNCHANGED <<confirmed, revealed>>

PairingResponse(h) ==
    /\ Receive(h, "response")
    /\ air' = Rest(h)
    /\ DrawAndConfirm(h)
    /\ UNCHANGED <<confirmed, revealed>>

(* smp_send_confirm.                                                       *)
SendConfirm(open, h, value, a) ==
    /\ air' = SendOn(open, h, <<[code |-> "confirm", value |-> value]>>, a)
    /\ confirmed' = IF up /\ open THEN [confirmed EXCEPT ![h] = @ \cup {value}]
                                  ELSE confirmed

(* Pairing Random with the host's own value.                               *)
SendRandom(h) ==
    /\ air' = SendOn(TRUE, h, <<[code |-> "random", value |-> rand[h]]>>, Rest(h))
    /\ revealed' = IF up THEN [revealed EXCEPT ![h] = @ \cup {rand[h]}]
                         ELSE revealed

(* Fault: a confirm value that waits is not sent.                          *)
PairingConfirmNoPending(h) ==
    /\ Receive(h, "confirm")
    /\ IF h = "slave"
       THEN /\ smp_state' = Set(smp_state, h, "CONFIRM_REQ")
            /\ air' = Rest(h)
            /\ UNCHANGED <<enc_state, buf, confirmed, revealed>>
       ELSE /\ SendRandom(h)
            /\ smp_state' = Set(smp_state, h, "RAND_REQ")
            /\ buf' = [buf EXCEPT ![h][1] = Rand(rand[h])]
            /\ UNCHANGED <<enc_state, confirmed>>
    /\ UNCHANGED <<rand, cb, draws>>

(* Fault: the slave does not look whether its value is ready.              *)
PairingConfirmUnready(h) ==
    /\ Receive(h, "confirm")
    /\ \/ /\ h = "slave"
          /\ enc_state' = Set(enc_state, h, "IDLE")
          /\ SendConfirm(TRUE, h, buf[h], Rest(h))
          /\ smp_state' = Set(smp_state, h, "CONFIRM_RSP")
          /\ UNCHANGED <<buf, revealed>>
       \/ /\ h = "master"
          /\ SendRandom(h)
          /\ smp_state' = Set(smp_state, h, "RAND_REQ")
          /\ buf' = [buf EXCEPT ![h][1] = Rand(rand[h])]
          /\ UNCHANGED <<enc_state, confirmed>>
    /\ UNCHANGED <<rand, cb, draws>>

(* Pairing Confirm: the slave answers if its own value is ready, the       *)
(* master reveals its random value.                                        *)
PairingConfirm(h) ==
    /\ Receive(h, "confirm")
    /\ \/ /\ h = "slave" /\ enc_state[h] = "PENDING"
          /\ enc_state' = Set(enc_state, h, "IDLE")
          /\ SendConfirm(TRUE, h, buf[h], Rest(h))
          /\ smp_state' = Set(smp_state, h, "CONFIRM_RSP")
          /\ UNCHANGED <<buf, revealed>>
       \/ /\ h = "slave" /\ enc_state[h] # "PENDING"
          /\ smp_state' = Set(smp_state, h, "CONFIRM_REQ")
          /\ air' = Rest(h)
          /\ UNCHANGED <<enc_state, buf, confirmed, revealed>>
       \/ /\ h = "master"
          /\ SendRandom(h)
          /\ smp_state' = Set(smp_state, h, "RAND_REQ")
          /\ buf' = [buf EXCEPT ![h][1] = Rand(rand[h])]
          /\ UNCHANGED <<enc_state, confirmed>>
    /\ UNCHANGED <<rand, cb, draws>>

(* Fault: the slave puts the two random values the other way round.        *)
PairingRandomReversed(h) ==
    /\ Receive(h, "random")
    /\ \/ /\ h = "slave"
          /\ SendRandom(h)
          /\ smp_state' = Set(smp_state, h, "RAND_RSP")
          /\ buf' = Set(buf, h, <<Rand(rand[h]), Rand(Head(air[h]).value)>>)
          /\ UNCHANGED <<enc_state, cb>>
       \/ /\ h = "master"
          /\ buf' = [buf EXCEPT ![h][2] = Rand(Head(air[h]).value)]
          /\ enc_state' = Set(enc_state, h, "STK")
          /\ Encrypt(h, buf'[h])
          /\ air' = Rest(h)
          /\ UNCHANGED <<smp_state, revealed>>
    /\ UNCHANGED <<rand, draws, confirmed>>

(* Pairing Random: the slave reveals its own value, the master computes    *)
(* the key.                                                                *)
PairingRandom(h) ==
    /\ Receive(h, "random")
    /\ \/ /\ h = "slave"
          /\ SendRandom(h)
          /\ smp_state' = Set(smp_state, h, "RAND_RSP")
          /\ buf' = Set(buf, h, <<Rand(Head(air[h]).value), Rand(rand[h])>>)
          /\ UNCHANGED <<enc_state, cb>>
       \/ /\ h = "master"
          /\ buf' = [buf EXCEPT ![h][2] = Rand(Head(air[h]).value)]
          /\ enc_state' = Set(enc_state, h, "STK")
          /\ Encrypt(h, buf'[h])
          /\ air' = Rest(h)
          /\ UNCHANGED <<smp_state, revealed>>
    /\ UNCHANGED <<rand, draws, confirmed>>

(* Key distribution: the handler has no case for it.                       *)
OtherCode(h) ==
    /\ Receive(h, "keys")
    /\ air' = Rest(h)
    /\ UNCHANGED <<smp_state, enc_state, rand, buf, cb, draws, confirmed,
                   revealed>>

(* eb_smp_handler.  The event that reports a link was sent to the host a   *)
(* connection interval or more before its first packet, and is handled     *)
(* before it.                                                              *)
SmpHandler(h) ==
    /\ \A i \in DOMAIN evts[h] : evts[h][i] # "connected"
    /\ \/ PairingRequest(h)
       \/ PairingResponse(h)
       \/ PairingConfirm(h)
       \/ PairingRandom(h)
       \/ OtherCode(h)
    /\ UNCHANGED <<conn, encrypted, evts, up, secured, key, links, authed,
                   carried>>

-----------------------------------------------------------------------------
(* External: a key for the link reaches the controller.  The master's      *)
(* starts the encryption, and the slave's controller asks for its key; a   *)
(* key that nobody asked for is refused.                                   *)
GiveKey(h, k, e) ==
    LET taken == /\ up /\ key[h] = {} /\ conn[h]
                 /\ h = "slave" => key["master"] # {}
    IN  /\ key' = IF taken THEN Set(key, h, {k}) ELSE key
        /\ evts' = IF taken /\ h = "master"
                   THEN [e EXCEPT !["slave"] = Append(@, "ltk_request")] ELSE e

(* Fault: the slave does not wait for the master's confirm value.          *)
ConfirmReadyAtOnce(h, b) ==
    /\ SendConfirm(conn[h], h, b, air)
    /\ enc_state' = Set(enc_state, h, "IDLE")
    /\ smp_state' = Set(smp_state, h, IF h = "slave" THEN "CONFIRM_RSP"
                                                     ELSE "CONFIRM_REQ")
    /\ UNCHANGED buf

(* The confirm value is ready: the slave keeps it for the master's.        *)
ConfirmReady(h, b) ==
    IF h = "slave" /\ smp_state[h] # "CONFIRM_REQ"
    THEN /\ buf' = Set(buf, h, b)
         /\ enc_state' = Set(enc_state, h, "PENDING")
         /\ UNCHANGED <<smp_state, air, confirmed>>
    ELSE /\ SendConfirm(conn[h], h, b, air)
         /\ enc_state' = Set(enc_state, h, "IDLE")
         /\ smp_state' = Set(smp_state, h, IF h = "slave" THEN "CONFIRM_RSP"
                                                          ELSE "CONFIRM_REQ")
         /\ UNCHANGED buf

(* The controller answers, and smp_enc_cal_cb goes on according to         *)
(* smp_encrypt_state, not to what was asked.  It would drop an answer in   *)
(* any other state: AnswerExpected says that none arrives.                 *)
EncCalCb(h) ==
    /\ cb[h] # {}
    /\ LET b == Encrypted(CHOOSE x \in cb[h] : TRUE)
       IN  \/ /\ enc_state[h] = "CAL1"
              /\ cb' = Set(cb, h, {b})
              /\ enc_state' = Set(enc_state, h, "CAL2")
              /\ UNCHANGED <<smp_state, buf, air, evts, key, confirmed>>
           \/ /\ enc_state[h] = "CAL2"
              /\ cb' = Set(cb, h, {})
              /\ ConfirmReady(h, b)
              /\ UNCHANGED <<evts, key>>
           \/ /\ enc_state[h] = "STK"
              /\ cb' = Set(cb, h, {})
              /\ smp_state' = Set(smp_state, h, "LTK_RSP")
              /\ enc_state' = Set(enc_state, h, "IDLE")
              /\ GiveKey(h, b, evts)
              /\ UNCHANGED <<buf, air, confirmed>>
    /\ UNCHANGED <<rand, conn, encrypted, up, secured, links, draws, authed,
                   carried, revealed>>

-----------------------------------------------------------------------------
NextEvent(h, e) == evts[h] # <<>> /\ Head(evts[h]) = e
Later(h) == [evts EXCEPT ![h] = Tail(@)]

(* Fault: the flag of the former link stays.                               *)
ConnectedKeepsFlag(h) ==
    /\ NextEvent(h, "connected")
    /\ evts' = Later(h)
    /\ conn' = Set(conn, h, TRUE)
    /\ UNCHANGED <<smp_state, enc_state, cb, encrypted, air, key>>

(* eb_smp_connected_handler and eb_gap_connected_handler.                  *)
Connected(h) ==
    /\ NextEvent(h, "connected")
    /\ evts' = Later(h)
    /\ conn' = Set(conn, h, TRUE)
    /\ encrypted' = Set(encrypted, h, FALSE)
    /\ UNCHANGED <<smp_state, enc_state, cb, air, key>>

(* eb_smp_disconnected_handler.                                            *)
Disconnected(h) ==
    /\ NextEvent(h, "disconnected")
    /\ evts' = Later(h)
    /\ conn' = Set(conn, h, FALSE)
    /\ UNCHANGED <<smp_state, enc_state, cb, encrypted, air, key>>

(* eb_smp_get_ltk; without a pairing the application finds a key.          *)
LtkRequest(h) ==
    /\ NextEvent(h, "ltk_request")
    /\ IF smp_state[h] = "RAND_RSP"
       THEN /\ smp_state' = Set(smp_state, h, "LTK_REQ")
            /\ enc_state' = Set(enc_state, h, "STK")
            /\ Encrypt(h, buf[h])
            /\ evts' = Later(h)
            /\ UNCHANGED key
       ELSE /\ GiveKey(h, AppKey, Later(h))
            /\ UNCHANGED <<smp_state, enc_state, cb>>
    /\ UNCHANGED <<conn, encrypted, air>>

(* Encryption Change: eb_smp_encrpyt_change, eb_gap_set_encrypted.         *)
EncryptChange(h) ==
    /\ NextEvent(h, "enc_change")
    /\ evts' = Later(h)
    /\ encrypted' = Set(encrypted, h, TRUE)
    /\ IF smp_state[h] = "LTK_RSP"
       THEN /\ smp_state' = Set(smp_state, h, "IDLE")
            /\ air' = SendOn(conn[h], h, <<[code |-> "keys"], [code |-> "keys"]>>,
                             air)
       ELSE UNCHANGED <<smp_state, air>>
    /\ UNCHANGED <<enc_state, cb, conn, key>>

HciEvent(h) ==
    /\ \/ Connected(h)
       \/ Disconnected(h)
       \/ LtkRequest(h)
       \/ EncryptChange(h)
    /\ UNCHANGED <<rand, buf, up, secured, histVars>>

-----------------------------------------------------------------------------
(* External: the controllers and the radio.                                *)

(* A new link.  Both applications asked for it after they had handled the  *)
(* end of the former one, and the packets of it.                           *)
LinkUp ==
    /\ ~up /\ links < MaxLinks
    /\ \A h \in Host : evts[h] = <<>> /\ air[h] = <<>>
    /\ up' = TRUE
    /\ links' = links + 1
    /\ evts' = [h \in Host |-> <<"connected">>]
    /\ authed' = FALSE
    /\ carried' = (\E h \in Host : cb[h] # {})
    /\ confirmed' = [h \in Host |-> {}]
    /\ revealed' = [h \in Host |-> {}]
    /\ key' = [h \in Host |-> {}]
    /\ UNCHANGED <<hostVars, air, secured, draws>>

(* Lost or closed.  The packets a controller has received are handled      *)
(* still, before the event or after it.                                    *)
LinkLoss ==
    /\ up
    /\ up' = FALSE
    /\ secured' = FALSE
    /\ \E m \in 0..Len(air["master"]), s \in 0..Len(air["slave"]) :
          air' = [h \in Host |-> SubSeq(air[h], 1, IF h = "master" THEN m ELSE s)]
    /\ evts' = [h \in Host |-> Append(evts[h], "disconnected")]
    /\ UNCHANGED <<hostVars, key, histVars>>

(* Both keys are there and agree: the link is encrypted.  It is lost when  *)
(* they do not.                                                            *)
StartEncryption ==
    /\ up /\ ~secured
    /\ key["master"] # {} /\ key["slave"] = key["master"]
    /\ secured' = TRUE
    /\ evts' = [h \in Host |-> Append(evts[h], "enc_change")]
    /\ UNCHANGED <<hostVars, air, up, key, histVars>>

Next ==
    \/ Auth
    \/ \E h \in Host : SmpHandler(h) \/ EncCalCb(h) \/ HciEvent(h)
    \/ LinkUp
    \/ LinkLoss
    \/ StartEncryption

Spec == Init /\ [][Next]_vars

(* eb_schedule is polled for ever and the controllers do their work; the   *)
(* link needs neither come up nor be lost.                                 *)
Fairness ==
    /\ \A h \in Host : /\ WF_vars(SmpHandler(h))
                       /\ WF_vars(EncCalCb(h))
                       /\ WF_vars(HciEvent(h))
    /\ WF_vars(StartEncryption)

FairSpec == Spec /\ Fairness

-----------------------------------------------------------------------------
TypeOK ==
    /\ smp_state \in [Host -> SmpState]
    /\ enc_state \in [Host -> EncState]
    /\ rand \in [Host -> Nat]
    /\ buf \in [Host -> Block]
    /\ \A h \in Host : cb[h] \subseteq Block /\ \A b, c \in cb[h] : b = c
    /\ conn \in [Host -> BOOLEAN]
    /\ encrypted \in [Host -> BOOLEAN]
    /\ \A h \in Host : air[h] \in Seq(Packet)
    /\ \A h \in Host :
          evts[h] \in Seq({"connected", "disconnected", "ltk_request", "enc_change"})
    /\ {up, secured, authed, carried} \subseteq BOOLEAN
    /\ \A h \in Host : key[h] \subseteq Block
    /\ {links, draws} \subseteq Nat
    /\ \A h \in Host : confirmed[h] \subseteq Block /\ revealed[h] \subseteq Nat

(* An answer of the controller is waited for exactly when a state expects  *)
(* one, although nobody looks whether em_hci_encrypt was refused and no    *)
(* state is reset when a link ends (eb_smp.c:60-117, 202-212).             *)
AnswerExpected ==
    \A h \in Host : cb[h] # {} <=> enc_state[h] \in {"CAL1", "CAL2", "STK"}

(* A link that begins with no encryption unanswered is encrypted with the  *)
(* key of the random values that were exchanged on it, whatever state the  *)
(* former links left behind (eb_smp.c:60-63, 103-115, 202-212).            *)
KeyOfThisPairing ==
    carried \/ \A h \in Host : \A k \in key[h] :
        \E m \in revealed["master"], s \in revealed["slave"] : k = Stk(m, s)

(* On such a link a random value is revealed only when both hosts have     *)
(* sent their confirm values, and it is the one the host's confirm value   *)
(* was computed from (eb_smp.c:89-102, 164-196).                           *)
RevealedAsConfirmed ==
    carried \/ \A h \in Host : \A n \in revealed[h] :
        /\ confirmed[h] = {ConfirmOf(n)}
        /\ confirmed[Peer(h)] # {}

(* The host believes a link encrypted only when it is, or the event of its *)
(* end is waiting (eb_gap.c:22-30, eb_hci.c:90-97).                        *)
FlagTruthful ==
    \A h \in Host :
        conn[h] /\ encrypted[h] =>
            secured \/ \E i \in DOMAIN evts[h] : evts[h][i] = "disconnected"

(* A pairing ends with both hosts knowing that the link is encrypted,      *)
(* unless the link is lost (eb_smp.c:72-231).                              *)
PairingCompletes ==
    authed /\ up ~> ~up \/ carried \/ \A h \in Host : encrypted[h]

=============================================================================
