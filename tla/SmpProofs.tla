------------------------------ MODULE SmpProofs -----------------------------
(***************************************************************************)
(* Proofs about Smp, for every number of links.                            *)
(***************************************************************************)
EXTENDS Smp, SequenceTheorems, TLAPS

Busy == {"CAL1", "CAL2", "STK"}

(* The two variables that must agree are arrays over the hosts.            *)
Arrays == DOMAIN cb = Host /\ DOMAIN enc_state = Host

IInv == Arrays /\ AnswerExpected

-----------------------------------------------------------------------------
(* Whether em_hci_encrypt accepts the block or refuses it, an answer is    *)
(* waited for afterwards, and nothing changes for the other host.          *)
LEMMA EncryptEffect ==
    ASSUME Arrays, NEW h \in Host, NEW b, Encrypt(h, b)
    PROVE  /\ DOMAIN cb' = Host
           /\ cb'[h] # {}
           /\ \A g \in Host \ {h} : cb'[g] = cb[g]
BY DEF Arrays, Encrypt, Set

(* A host that asks, and notes a state that expects the answer.            *)
LEMMA Asked ==
    ASSUME IInv, NEW h \in Host, NEW b, Encrypt(h, b), NEW s \in Busy,
           enc_state' = Set(enc_state, h, s)
    PROVE  IInv'
<1>1. /\ DOMAIN cb' = Host /\ cb'[h] # {}
      /\ \A g \in Host \ {h} : cb'[g] = cb[g]
  BY EncryptEffect DEF IInv
<1>2. /\ DOMAIN enc_state' = Host /\ enc_state'[h] = s
      /\ \A g \in Host \ {h} : enc_state'[g] = enc_state[g]
  BY DEF IInv, Arrays, Set
<1>3. ASSUME NEW g \in Host
      PROVE  cb'[g] # {} <=> enc_state'[g] \in Busy
  <2>1. CASE g = h
    BY <1>1, <1>2, <2>1
  <2>2. CASE g # h
    BY <1>1, <1>2, <2>2 DEF IInv, AnswerExpected, Busy
  <2> QED
    BY <2>1, <2>2
<1> QED
  BY <1>1, <1>2, <1>3 DEF IInv, Arrays, AnswerExpected, Busy

(* A host whose encryption is answered, or that waited for none, and notes *)
(* a state that expects no answer.                                         *)
LEMMA Settled ==
    ASSUME IInv, NEW h \in Host, NEW s, s \notin Busy,
           enc_state' = Set(enc_state, h, s),
           cb' = Set(cb, h, {}) \/ (cb' = cb /\ cb[h] = {})
    PROVE  IInv'
<1>1. /\ DOMAIN cb' = Host /\ cb'[h] = {}
      /\ \A g \in Host \ {h} : cb'[g] = cb[g]
  BY DEF IInv, Arrays, Set
<1>2. /\ DOMAIN enc_state' = Host /\ enc_state'[h] = s
      /\ \A g \in Host \ {h} : enc_state'[g] = enc_state[g]
  BY DEF IInv, Arrays, Set
<1>3. ASSUME NEW g \in Host
      PROVE  cb'[g] # {} <=> enc_state'[g] \in Busy
  <2>1. CASE g = h
    BY <1>1, <1>2, <2>1
  <2>2. CASE g # h
    BY <1>1, <1>2, <2>2 DEF IInv, AnswerExpected, Busy
  <2> QED
    BY <2>1, <2>2
<1> QED
  BY <1>1, <1>2, <1>3 DEF IInv, Arrays, AnswerExpected, Busy

LEMMA Untouched == IInv /\ UNCHANGED <<cb, enc_state>> => IInv'
BY DEF IInv, Arrays, AnswerExpected

-----------------------------------------------------------------------------
LEMMA InitIInv == Init => IInv
BY DEF Init, IInv, Arrays, AnswerExpected

(* Both Pairing Request and Pairing Response start the confirm value.      *)
LEMMA DrawAndConfirmIInv ==
    ASSUME IInv, NEW h \in Host, DrawAndConfirm(h)
    PROVE  IInv'
<1>1. /\ Encrypt(h, Twice("pairing", draws + 1))
      /\ enc_state' = Set(enc_state, h, "CAL1")
  BY DEF DrawAndConfirm
<1>2. "CAL1" \in Busy
  BY DEF Busy
<1> QED
  BY <1>1, <1>2, Asked

LEMMA PairingConfirmIInv ==
    ASSUME IInv, NEW h \in Host, PairingConfirm(h)
    PROVE  IInv'
<1>1. cb' = cb
  BY DEF PairingConfirm
<1>2. CASE enc_state[h] = "PENDING" /\ enc_state' = Set(enc_state, h, "IDLE")
  <2>1. cb[h] = {}
    BY <1>2 DEF IInv, AnswerExpected
  <2>2. "IDLE" \notin Busy
    BY DEF Busy
  <2> QED
    BY <1>1, <1>2, <2>1, <2>2, Settled
<1>3. CASE enc_state' = enc_state
  BY <1>1, <1>3, Untouched
<1> QED
  BY <1>2, <1>3 DEF PairingConfirm

LEMMA PairingRandomIInv ==
    ASSUME IInv, NEW h \in Host, PairingRandom(h)
    PROVE  IInv'
<1>1. CASE UNCHANGED <<enc_state, cb>>
  BY <1>1, Untouched
<1>2. CASE Encrypt(h, buf'[h]) /\ enc_state' = Set(enc_state, h, "STK")
  <2>1. "STK" \in Busy
    BY DEF Busy
  <2> QED
    BY <1>2, <2>1, Asked
<1> QED
  BY <1>1, <1>2 DEF PairingRandom

LEMMA SmpHandlerIInv ==
    ASSUME IInv, NEW h \in Host, SmpHandler(h)
    PROVE  IInv'
<1>1. CASE PairingRequest(h)
  BY <1>1, DrawAndConfirmIInv DEF PairingRequest
<1>2. CASE PairingResponse(h)
  BY <1>2, DrawAndConfirmIInv DEF PairingResponse
<1>3. CASE PairingConfirm(h)
  BY <1>3, PairingConfirmIInv
<1>4. CASE PairingRandom(h)
  BY <1>4, PairingRandomIInv
<1>5. CASE OtherCode(h)
  BY <1>5, Untouched DEF OtherCode
<1> QED
  BY <1>1, <1>2, <1>3, <1>4, <1>5 DEF SmpHandler

(* The first answer starts the second encryption: the callback was cleared *)
(* before it was called, so that this one is not refused.                  *)
LEMMA EncCalCbIInv ==
    ASSUME IInv, NEW h \in Host, EncCalCb(h)
    PROVE  IInv'
<1> DEFINE b == Encrypted(CHOOSE x \in cb[h] : TRUE)
<1>1. CASE cb' = Set(cb, h, {b}) /\ enc_state' = Set(enc_state, h, "CAL2")
  <2>1. DOMAIN cb = Host /\ DOMAIN enc_state = Host
    BY DEF IInv, Arrays
  <2> HIDE DEF b
  <2>2. /\ DOMAIN cb' = Host /\ cb'[h] # {}
        /\ \A g \in Host \ {h} : cb'[g] = cb[g]
    BY <1>1, <2>1 DEF Set
  <2>3. /\ DOMAIN enc_state' = Host /\ enc_state'[h] = "CAL2"
        /\ \A g \in Host \ {h} : enc_state'[g] = enc_state[g]
    BY <1>1, <2>1 DEF Set
  <2>4. ASSUME NEW g \in Host
        PROVE  cb'[g] # {} <=> enc_state'[g] \in {"CAL1", "CAL2", "STK"}
    <3>1. CASE g = h
      BY <2>2, <2>3, <3>1
    <3>2. CASE g # h
      BY <2>2, <2>3, <3>2 DEF IInv, AnswerExpected
    <3> QED
      BY <3>1, <3>2
  <2> QED
    BY <2>2, <2>3, <2>4 DEF IInv, Arrays, AnswerExpected
<1>2. CASE cb' = Set(cb, h, {}) /\ ConfirmReady(h, b)
  <2>1. PICK s \in {"PENDING", "IDLE"} : enc_state' = Set(enc_state, h, s)
    BY <1>2 DEF ConfirmReady
  <2>2. s \notin Busy
    BY <2>1 DEF Busy
  <2> QED
    BY <1>2, <2>1, <2>2, Settled
<1>3. CASE cb' = Set(cb, h, {}) /\ enc_state' = Set(enc_state, h, "IDLE")
  <2>1. "IDLE" \notin Busy
    BY DEF Busy
  <2> QED
    BY <1>3, <2>1, Settled
<1> QED
  BY <1>1, <1>2, <1>3 DEF EncCalCb

LEMMA HciEventIInv ==
    ASSUME IInv, NEW h \in Host, HciEvent(h)
    PROVE  IInv'
<1>1. CASE UNCHANGED <<enc_state, cb>>
  BY <1>1, Untouched
<1>2. CASE Encrypt(h, buf[h]) /\ enc_state' = Set(enc_state, h, "STK")
  <2>1. "STK" \in Busy
    BY DEF Busy
  <2> QED
    BY <1>2, <2>1, Asked
<1>3. CASE LtkRequest(h)
  BY <1>1, <1>2, <1>3 DEF LtkRequest
<1>4. CASE Connected(h) \/ Disconnected(h) \/ EncryptChange(h)
  BY <1>1, <1>4 DEF Connected, Disconnected, EncryptChange
<1> QED
  BY <1>3, <1>4 DEF HciEvent

LEMMA StepIInv == IInv /\ [Next]_vars => IInv'
<1> SUFFICES ASSUME IInv, [Next]_vars PROVE IInv'
  OBVIOUS
<1>1. CASE Auth
  BY <1>1, Untouched DEF Auth
<1>2. ASSUME NEW h \in Host, SmpHandler(h) PROVE IInv'
  BY <1>2, SmpHandlerIInv
<1>3. ASSUME NEW h \in Host, EncCalCb(h) PROVE IInv'
  BY <1>3, EncCalCbIInv
<1>4. ASSUME NEW h \in Host, HciEvent(h) PROVE IInv'
  BY <1>4, HciEventIInv
<1>5. CASE LinkUp
  BY <1>5, Untouched DEF LinkUp, hostVars
<1>6. CASE LinkLoss
  BY <1>6, Untouched DEF LinkLoss, hostVars
<1>7. CASE StartEncryption
  BY <1>7, Untouched DEF StartEncryption, hostVars
<1>8. CASE UNCHANGED vars
  BY <1>8, Untouched DEF vars, hostVars
<1> QED
  BY <1>1, <1>2, <1>3, <1>4, <1>5, <1>6, <1>7, <1>8 DEF Next

(* A host waits for an answer of its controller exactly when a state of    *)
(* the pairing expects one, whatever was lost, refused or left behind by   *)
(* a former link (eb_smp.c:60-117, 202-212).                               *)
THEOREM AnswersExpected == Spec => []AnswerExpected
<1>1. IInv => AnswerExpected
  BY DEF IInv
<1>2. Spec => []IInv
  BY InitIInv, StepIInv, PTL DEF Spec
<1> QED
  BY <1>1, <1>2, PTL

-----------------------------------------------------------------------------
(* The events of a host: of a link that is up none reports its end, and    *)
(* encryption is reported only when the link is encrypted; of a link that  *)
(* is gone its end is the last event.                                      *)
Event == {"connected", "disconnected", "ltk_request", "enc_change"}

In(e, s) == \E i \in 1 .. Len(s) : s[i] = e

EventsOK(s) ==
    /\ s \in Seq(Event)
    /\ up => ~In("disconnected", s) /\ (In("enc_change", s) => secured)
    /\ ~up => s = <<>> \/ s[Len(s)] = "disconnected"

FlagInv ==
    /\ DOMAIN evts = Host /\ DOMAIN conn = Host /\ DOMAIN encrypted = Host
    /\ up \in BOOLEAN /\ secured \in BOOLEAN
    /\ secured => up
    /\ \A h \in Host :
        /\ EventsOK(evts[h])
        /\ conn[h] /\ ~up => evts[h] # <<>>
        /\ conn[h] /\ encrypted[h] /\ up => secured
        /\ up => conn[h] \/ In("connected", evts[h])

LEMMA EventTail ==
    ASSUME NEW s, EventsOK(s), s # <<>>
    PROVE  /\ EventsOK(Tail(s))
           /\ \A e : ~In(e, s) => ~In(e, Tail(s))
           /\ \A e : In(e, s) /\ Head(s) # e => In(e, Tail(s))
           /\ ~up /\ Tail(s) = <<>> => Head(s) = "disconnected"
<1>1. /\ s \in Seq(Event) /\ Len(s) \in Nat \ {0} /\ Head(s) = s[1]
      /\ Tail(s) \in Seq(Event) /\ Len(Tail(s)) = Len(s) - 1
      /\ \A i \in 1 .. Len(s) - 1 : Tail(s)[i] = s[i + 1]
  BY DEF EventsOK
<1> DEFINE r == Tail(s)
           n == Len(s)
<1>2. /\ r \in Seq(Event) /\ n \in Nat \ {0} /\ Len(r) = n - 1
      /\ \A i \in 1 .. n - 1 : r[i] = s[i + 1]
  BY <1>1
<1>3. ~up => s[n] = "disconnected"
  BY DEF EventsOK
<1>4. Len(r) = 0 <=> r = <<>>
  BY <1>2, EmptySeq
<1> HIDE DEF r
<1>5. ASSUME NEW e PROVE ~In(e, s) => ~In(e, r)
  <2> SUFFICES ASSUME NEW i \in 1 .. Len(r), r[i] = e PROVE In(e, s)
    BY DEF In
  <2>1. i + 1 \in 1 .. n /\ s[i + 1] = e
    BY <1>2
  <2> QED
    BY <2>1 DEF In
<1>6. ASSUME NEW e, In(e, s), s[1] # e PROVE In(e, r)
  <2>1. PICK i \in 1 .. n : s[i] = e
    BY <1>6 DEF In
  <2>2. i - 1 \in 1 .. Len(r) /\ r[i - 1] = s[(i - 1) + 1] /\ (i - 1) + 1 = i
    BY <1>2, <1>6, <2>1
  <2>3. r[i - 1] = e
    BY <2>1, <2>2
  <2> QED
    BY <2>2, <2>3 DEF In
<1>7. ~up => r = <<>> \/ r[Len(r)] = "disconnected"
  <2>1. CASE n = 1
    BY <1>2, <1>4, <2>1
  <2>2. CASE n > 1
    <3>1. r[n - 1] = s[(n - 1) + 1] /\ (n - 1) + 1 = n
      BY <1>2, <2>2
    <3> QED
      BY <1>2, <1>3, <3>1
  <2> QED
    BY <1>2, <2>1, <2>2
<1>8. ~up /\ r = <<>> => s[1] = "disconnected"
  <2>1. r = <<>> => n = 1
    BY <1>2, <1>4
  <2> QED
    BY <1>3, <2>1
<1>9. EventsOK(r)
  BY <1>1, <1>2, <1>5, <1>7 DEF EventsOK
<1> QED
  BY <1>1, <1>5, <1>6, <1>8, <1>9 DEF r

LEMMA EventAdded ==
    ASSUME NEW s \in Seq(Event), NEW e \in Event
    PROVE  /\ Append(s, e) \in Seq(Event) /\ Append(s, e) # <<>>
           /\ Append(s, e)[Len(Append(s, e))] = e
           /\ \A c : In(c, Append(s, e)) <=> In(c, s) \/ c = e
<1> DEFINE r == Append(s, e)
<1>1. /\ r \in Seq(Event) /\ Len(s) \in Nat /\ Len(r) = Len(s) + 1
      /\ \A i \in 1 .. Len(s) : r[i] = s[i]
      /\ r[Len(s) + 1] = e
  BY AppendProperties
<1> HIDE DEF r
<1>2. ASSUME NEW c PROVE In(c, r) <=> In(c, s) \/ c = e
  <2>1. In(c, r) => In(c, s) \/ c = e
    <3> SUFFICES ASSUME NEW i \in 1 .. Len(r), r[i] = c PROVE In(c, s) \/ c = e
      BY DEF In
    <3>1. CASE i \in 1 .. Len(s)
      BY <1>1, <3>1 DEF In
    <3>2. CASE i = Len(s) + 1
      BY <1>1, <3>2
    <3> QED
      BY <1>1, <3>1, <3>2
  <2>2. In(c, s) => In(c, r)
    <3> SUFFICES ASSUME NEW i \in 1 .. Len(s), s[i] = c PROVE In(c, r)
      BY DEF In
    <3>1. i \in 1 .. Len(r) /\ r[i] = c
      BY <1>1
    <3> QED
      BY <3>1 DEF In
  <2>3. c = e => In(c, r)
    <3>1. Len(s) + 1 \in 1 .. Len(r)
      BY <1>1
    <3> QED
      BY <1>1, <3>1 DEF In
  <2> QED
    BY <2>1, <2>2, <2>3
<1>3. r # <<>>
  BY <1>1
<1> QED
  BY <1>1, <1>2, <1>3 DEF r

(* A step that at most reports to a host of a live link that its key is    *)
(* asked for.                                                              *)
LEMMA FlagKept ==
    ASSUME FlagInv, UNCHANGED <<conn, encrypted, up, secured>>, DOMAIN evts' = Host,
           \A h \in Host : \/ evts'[h] = evts[h]
                           \/ up /\ evts'[h] = Append(evts[h], "ltk_request")
    PROVE  FlagInv'
<1>1. ASSUME NEW h \in Host
      PROVE  /\ EventsOK(evts'[h])
             /\ evts'[h] = <<>> => evts[h] = <<>>
             /\ In("connected", evts[h]) => In("connected", evts'[h])
  <2>1. CASE evts'[h] = evts[h]
    BY <2>1 DEF FlagInv
  <2>2. CASE up /\ evts'[h] = Append(evts[h], "ltk_request")
    <3>1. evts[h] \in Seq(Event) /\ "ltk_request" \in Event /\ EventsOK(evts[h])
      BY DEF FlagInv, EventsOK, Event
    <3> QED
      BY <2>2, <3>1, EventAdded DEF EventsOK
  <2> QED
    BY <2>1, <2>2
<1>2. ASSUME NEW h \in Host PROVE EventsOK(evts[h])'
  BY <1>1 DEF EventsOK
<1> QED
  BY <1>1, <1>2 DEF FlagInv, In

LEMMA GiveKeyEvents ==
    ASSUME NEW h \in Host, NEW k, NEW e, DOMAIN e = Host, GiveKey(h, k, e)
    PROVE  /\ DOMAIN evts' = Host
           /\ \A g \in Host : \/ evts'[g] = e[g]
                              \/ up /\ g # h /\ evts'[g] = Append(e[g], "ltk_request")
BY DEF GiveKey, Host

(* Of the event that a host handles.                                       *)
LEMMA FlagHandled ==
    ASSUME FlagInv, NEW h \in Host, HciEvent(h)
    PROVE  FlagInv'
<1>1. /\ DOMAIN evts = Host /\ DOMAIN conn = Host /\ DOMAIN encrypted = Host
      /\ EventsOK(evts[h]) /\ evts[h] # <<>> /\ UNCHANGED <<up, secured>>
  BY DEF FlagInv, HciEvent, Connected, Disconnected, LtkRequest, EncryptChange, NextEvent
<1> DEFINE s == evts[h]
           r == Tail(s)
<1>2. /\ EventsOK(r)
      /\ \A e : ~In(e, s) => ~In(e, r)
      /\ \A e : In(e, s) /\ Head(s) # e => In(e, r)
      /\ ~up /\ r = <<>> => Head(s) = "disconnected"
  BY <1>1, EventTail
<1>3. In(Head(s), s)
  <2>1. Len(s) \in Nat \ {0} /\ Head(s) = s[1]
    BY <1>1 DEF EventsOK
  <2> QED
    BY <2>1 DEF In
<1>4. \A g \in Host : /\ EventsOK(evts[g])
                      /\ conn[g] /\ ~up => evts[g] # <<>>
                      /\ conn[g] /\ encrypted[g] /\ up => secured
                      /\ up => conn[g] \/ In("connected", evts[g])
  BY DEF FlagInv
<1>5. /\ up \in BOOLEAN /\ secured \in BOOLEAN /\ secured => up
  BY DEF FlagInv
<1>6. Later(h) = [evts EXCEPT ![h] = r]
  BY <1>1 DEF Later
<1> HIDE DEF s, r
<1>7. ASSUME evts' = Later(h), NEW c, NEW e, DOMAIN c = Host, DOMAIN e = Host,
             conn' = c, encrypted' = e,
             \A g \in Host \ {h} : c[g] = conn[g] /\ e[g] = encrypted[g],
             c[h] /\ ~up => r # <<>>,
             c[h] /\ e[h] /\ up => secured,
             up => c[h] \/ In("connected", r)
      PROVE  FlagInv'
  <2>1. /\ DOMAIN evts' = Host /\ evts'[h] = r
        /\ \A g \in Host \ {h} : evts'[g] = evts[g]
    BY <1>1, <1>6, <1>7
  <2>2. ASSUME NEW g \in Host
        PROVE  /\ EventsOK(evts'[g])
               /\ conn'[g] /\ ~up => evts'[g] # <<>>
               /\ conn'[g] /\ encrypted'[g] /\ up => secured
               /\ up => conn'[g] \/ In("connected", evts'[g])
    <3>1. CASE g = h
      BY <1>2, <1>7, <2>1, <3>1
    <3>2. CASE g # h
      BY <1>4, <1>7, <2>1, <3>2
    <3> QED
      BY <3>1, <3>2
  <2>3. \A g \in Host : EventsOK(evts[g])'
    BY <1>1, <2>2 DEF EventsOK
  <2> QED
    BY <1>1, <1>5, <1>7, <2>1, <2>2, <2>3 DEF FlagInv, In
<1>8. CASE Connected(h)
  <2>1. /\ evts' = Later(h) /\ Head(s) = "connected"
        /\ conn' = Set(conn, h, TRUE) /\ encrypted' = Set(encrypted, h, FALSE)
    BY <1>8 DEF Connected, NextEvent, s
  <2>2. /\ DOMAIN conn' = Host /\ DOMAIN encrypted' = Host
        /\ conn'[h] = TRUE /\ encrypted'[h] = FALSE
        /\ \A g \in Host \ {h} : conn'[g] = conn[g] /\ encrypted'[g] = encrypted[g]
    BY <1>1, <2>1 DEF Set
  <2> QED
    BY <1>2, <1>7, <2>1, <2>2
<1>9. CASE Disconnected(h)
  <2>1. /\ evts' = Later(h) /\ Head(s) = "disconnected"
        /\ conn' = Set(conn, h, FALSE) /\ encrypted' = encrypted
    BY <1>9 DEF Disconnected, NextEvent, s
  <2>2. /\ DOMAIN conn' = Host /\ conn'[h] = FALSE
        /\ \A g \in Host \ {h} : conn'[g] = conn[g]
    BY <1>1, <2>1 DEF Set
  <2>3. ~up
    BY <1>1, <1>3, <2>1 DEF EventsOK, s
  <2> QED
    BY <1>1, <1>7, <2>1, <2>2, <2>3
<1>10. CASE LtkRequest(h)
  <2>1. /\ Head(s) = "ltk_request" /\ UNCHANGED <<conn, encrypted>>
        /\ evts' = Later(h) \/ GiveKey(h, AppKey, Later(h))
    BY <1>10 DEF LtkRequest, NextEvent, s
  <2>2. /\ conn[h] /\ ~up => r # <<>>
        /\ conn[h] /\ encrypted[h] /\ up => secured
        /\ up => conn[h] \/ In("connected", r)
    BY <1>2, <1>4, <2>1 DEF s
  <2>3. CASE evts' = Later(h)
    BY <1>1, <1>7, <2>1, <2>2, <2>3
  <2>4. CASE GiveKey(h, AppKey, Later(h))
    <3>1. /\ DOMAIN evts' = Host
          /\ \A g \in Host : \/ evts'[g] = Later(h)[g]
                             \/ /\ up /\ g # h
                                /\ evts'[g] = Append(Later(h)[g], "ltk_request")
      <4>1. DOMAIN Later(h) = Host
        BY <1>1, <1>6
      <4> QED
        BY <2>4, <4>1, GiveKeyEvents
    <3>2. /\ evts'[h] = r
          /\ \A g \in Host \ {h} : \/ evts'[g] = evts[g]
                                   \/ up /\ evts'[g] = Append(evts[g], "ltk_request")
      BY <1>1, <1>6, <3>1
    <3>3. ASSUME NEW g \in Host
          PROVE  /\ EventsOK(evts'[g])
                 /\ conn[g] /\ ~up => evts'[g] # <<>>
                 /\ up => conn[g] \/ In("connected", evts'[g])
      <4>1. CASE g = h
        BY <1>2, <2>2, <3>2, <4>1
      <4>2. CASE g # h /\ evts'[g] = evts[g]
        BY <1>4, <4>2
      <4>3. CASE g # h /\ up /\ evts'[g] = Append(evts[g], "ltk_request")
        <5>1. evts[g] \in Seq(Event) /\ "ltk_request" \in Event /\ EventsOK(evts[g])
          BY <1>4 DEF EventsOK, Event
        <5> QED
          BY <1>4, <4>3, <5>1, EventAdded DEF EventsOK
      <4> QED
        BY <3>2, <4>1, <4>2, <4>3
    <3>4. \A g \in Host : EventsOK(evts[g])'
      BY <1>1, <3>3 DEF EventsOK
    <3> QED
      BY <1>1, <1>4, <1>5, <2>1, <3>1, <3>3, <3>4 DEF FlagInv, In
  <2> QED
    BY <2>1, <2>3, <2>4
<1>11. CASE EncryptChange(h)
  <2>1. /\ evts' = Later(h) /\ Head(s) = "enc_change"
        /\ conn' = conn /\ encrypted' = Set(encrypted, h, TRUE)
    BY <1>11 DEF EncryptChange, NextEvent, s
  <2>2. /\ DOMAIN encrypted' = Host
        /\ \A g \in Host \ {h} : encrypted'[g] = encrypted[g]
    BY <1>1, <2>1 DEF Set
  <2>3. up => secured
    BY <1>1, <1>3, <2>1 DEF EventsOK, s
  <2>4. /\ conn[h] /\ ~up => r # <<>>
        /\ up => conn[h] \/ In("connected", r)
    BY <1>2, <1>4, <2>1 DEF s
  <2> QED
    BY <1>1, <1>7, <2>1, <2>2, <2>3, <2>4
<1> QED
  BY <1>8, <1>9, <1>10, <1>11 DEF HciEvent

(* Of the events that the controllers report.                              *)
LEMMA FlagNewLink == FlagInv /\ LinkUp => FlagInv'
<1> SUFFICES ASSUME FlagInv, LinkUp PROVE FlagInv'
  OBVIOUS
<1> DEFINE c == <<"connected">>
<1>1. /\ ~up /\ up' /\ up' \in BOOLEAN /\ secured' = secured /\ secured = FALSE
      /\ conn' = conn /\ encrypted' = encrypted
      /\ DOMAIN evts' = Host /\ \A h \in Host : evts'[h] = c /\ conn[h] # TRUE
  BY DEF FlagInv, LinkUp, hostVars
<1>2. c \in Seq(Event) /\ Len(c) = 1 /\ c[1] = "connected"
  BY DEF Event
<1> HIDE DEF c
<1>3. In("connected", c) /\ ~In("disconnected", c) /\ ~In("enc_change", c)
  BY <1>2 DEF In
<1>4. \A h \in Host : EventsOK(evts[h])'
  BY <1>1, <1>2, <1>3 DEF EventsOK, In
<1> QED
  BY <1>1, <1>3, <1>4 DEF FlagInv, In

LEMMA FlagLoss == FlagInv /\ LinkLoss => FlagInv'
<1> SUFFICES ASSUME FlagInv, LinkLoss PROVE FlagInv'
  OBVIOUS
<1>1. /\ up' = FALSE /\ secured' = FALSE /\ conn' = conn /\ encrypted' = encrypted
      /\ DOMAIN evts' = Host
      /\ \A h \in Host : evts'[h] = Append(evts[h], "disconnected")
  BY DEF LinkLoss, hostVars
<1>2. ASSUME NEW h \in Host
      PROVE  EventsOK(evts[h])' /\ evts'[h] # <<>>
  <2>1. evts[h] \in Seq(Event) /\ "disconnected" \in Event
    BY DEF FlagInv, EventsOK, Event
  <2> QED
    BY <1>1, <2>1, EventAdded DEF EventsOK
<1> QED
  BY <1>1, <1>2 DEF FlagInv

LEMMA FlagEncrypted == FlagInv /\ StartEncryption => FlagInv'
<1> SUFFICES ASSUME FlagInv, StartEncryption PROVE FlagInv'
  OBVIOUS
<1>1. /\ up /\ up' = up /\ secured' = TRUE /\ conn' = conn /\ encrypted' = encrypted
      /\ DOMAIN evts' = Host
      /\ \A h \in Host : evts'[h] = Append(evts[h], "enc_change")
  BY DEF StartEncryption, hostVars
<1>2. ASSUME NEW h \in Host
      PROVE  /\ EventsOK(evts[h])'
             /\ In("connected", evts[h]) => In("connected", evts'[h])
  <2>1. evts[h] \in Seq(Event) /\ "enc_change" \in Event /\ EventsOK(evts[h])
    BY DEF FlagInv, EventsOK, Event
  <2>2. /\ evts'[h] \in Seq(Event) /\ evts'[h] # <<>>
        /\ \A c : In(c, evts'[h]) <=> In(c, evts[h]) \/ c = "enc_change"
    <3>1. evts'[h] = Append(evts[h], "enc_change")
      BY <1>1
    <3>2. LET r == Append(evts[h], "enc_change")
          IN  /\ r \in Seq(Event) /\ r # <<>>
              /\ \A c : In(c, r) <=> In(c, evts[h]) \/ c = "enc_change"
      BY <2>1, EventAdded
    <3> QED
      BY ONLY <3>1, <3>2
  <2>3. ~In("disconnected", evts'[h])
    BY <1>1, <2>1, <2>2 DEF EventsOK
  <2> QED
    BY <1>1, <2>2, <2>3 DEF EventsOK, In
<1> QED
  BY <1>1, <1>2 DEF FlagInv, In

(* The pairing itself touches neither the flags nor the events, but that   *)
(* the slave's controller may ask for its key.                             *)
LEMMA StepFlagInv == FlagInv /\ [Next]_vars => FlagInv'
<1> SUFFICES ASSUME FlagInv, [Next]_vars PROVE FlagInv'
  OBVIOUS
<1>1. DOMAIN evts = Host
  BY DEF FlagInv
<1>2. CASE UNCHANGED <<conn, encrypted, up, secured, evts>>
  BY <1>1, <1>2, FlagKept
<1>3. CASE Auth
  BY <1>2, <1>3 DEF Auth
<1>4. ASSUME NEW h \in Host, SmpHandler(h) PROVE FlagInv'
  BY <1>2, <1>4 DEF SmpHandler
<1>5. ASSUME NEW h \in Host, EncCalCb(h) PROVE FlagInv'
  <2>1. UNCHANGED <<conn, encrypted, up, secured>>
    BY <1>5 DEF EncCalCb
  <2>2. \/ evts' = evts
        \/ \E k : GiveKey(h, k, evts)
    BY <1>5 DEF EncCalCb
  <2>3. CASE evts' = evts
    BY <1>2, <2>1, <2>3
  <2>4. ASSUME NEW k, GiveKey(h, k, evts) PROVE FlagInv'
    <3>1. /\ DOMAIN evts' = Host
          /\ \A g \in Host : \/ evts'[g] = evts[g]
                             \/ up /\ evts'[g] = Append(evts[g], "ltk_request")
      BY <1>1, <2>4, GiveKeyEvents
    <3> QED
      BY <2>1, <3>1, FlagKept
  <2> QED
    BY <2>2, <2>3, <2>4
<1>6. ASSUME NEW h \in Host, HciEvent(h) PROVE FlagInv'
  BY <1>6, FlagHandled
<1>7. CASE LinkUp
  BY <1>7, FlagNewLink
<1>8. CASE LinkLoss
  BY <1>8, FlagLoss
<1>9. CASE StartEncryption
  BY <1>9, FlagEncrypted
<1>10. CASE UNCHANGED vars
  BY <1>2, <1>10 DEF vars, hostVars, linkVars
<1> QED
  BY <1>3, <1>4, <1>5, <1>6, <1>7, <1>8, <1>9, <1>10 DEF Next

LEMMA InitFlagInv == Init => FlagInv
<1> SUFFICES ASSUME Init PROVE FlagInv
  OBVIOUS
<1>1. /\ DOMAIN evts = Host /\ DOMAIN conn = Host /\ DOMAIN encrypted = Host
      /\ up = FALSE /\ secured = FALSE
      /\ \A h \in Host : conn[h] = FALSE /\ evts[h] = <<>>
  BY DEF Init
<1>2. <<>> \in Seq(Event)
  OBVIOUS
<1>3. EventsOK(<<>>)
  BY <1>1, <1>2 DEF EventsOK
<1> QED
  BY <1>1, <1>3 DEF FlagInv

(* A host believes a link encrypted only when it is, or the event of its   *)
(* end is waiting, although the flag is reset by the connection handler    *)
(* alone (eb_gap.c:22-30, eb_hci.c:90-97).                                 *)
THEOREM FlagsTruthful == Spec => []FlagTruthful
<1>1. FlagInv => FlagTruthful
  <2> SUFFICES ASSUME FlagInv, NEW h \in Host, conn[h], encrypted[h], ~secured
               PROVE  \E i \in DOMAIN evts[h] : evts[h][i] = "disconnected"
    BY DEF FlagTruthful
  <2>1. ~up /\ evts[h] # <<>> /\ evts[h] \in Seq(Event) /\ EventsOK(evts[h])
    BY DEF FlagInv, EventsOK
  <2>2. evts[h][Len(evts[h])] = "disconnected"
    BY <2>1 DEF EventsOK
  <2>3. Len(evts[h]) \in Nat \ {0} /\ DOMAIN evts[h] = 1 .. Len(evts[h])
    BY <2>1, EmptySeq
  <2> QED
    BY <2>2, <2>3
<1>2. Spec => []FlagInv
  BY InitFlagInv, StepFlagInv, PTL DEF Spec
<1> QED
  BY <1>1, <1>2, PTL

-----------------------------------------------------------------------------
(* How far the pairing is on a link that is up.                            *)
Value(h) == ConfirmOf(rand[h])
Halves(b) == b[1] = Rand(rand["master"]) /\ b[2] = Rand(rand["slave"])
LinkKey == Stk(rand["master"], rand["slave"])

Flying(m, s) == air["master"] = m /\ air["slave"] = s
Sent(m, s) == confirmed["master"] = m /\ confirmed["slave"] = s
Shown(m, s) == revealed["master"] = m /\ revealed["slave"] = s
Resting(h) == cb[h] = {}

RequestPdu == [code |-> "request"]
ResponsePdu == [code |-> "response"]
ConfirmPdu(h) == [code |-> "confirm", value |-> Value(h)]
RandomPdu(h) == [code |-> "random", value |-> rand[h]]
KeysPdu == [code |-> "keys"]

(* The host computes its confirm value, from the random value it drew.     *)
Computes(h) ==
    \/ enc_state[h] = "CAL1" /\ cb[h] = {Twice("pairing", rand[h])}
    \/ enc_state[h] = "CAL2" /\ cb[h] = {Encrypted(Twice("pairing", rand[h]))}

(* The slave computes its own, or has it and waits for the master's.       *)
Waits ==
    /\ conn["slave"] /\ smp_state["slave"] = "PAIRING_RSP"
    /\ \/ Computes("slave")
       \/ /\ Resting("slave") /\ enc_state["slave"] = "PENDING"
          /\ buf["slave"] = Value("slave")

NoneSent == Sent({}, {}) /\ Shown({}, {})

Silent ==
    /\ ~authed /\ Flying(<<>>, <<>>) /\ Resting("master") /\ Resting("slave")
    /\ NoneSent

Requested ==
    /\ Flying(<<>>, <<RequestPdu>>) /\ Resting("master") /\ Resting("slave")
    /\ NoneSent

Responded ==
    Flying(<<ResponsePdu>>, <<>>) /\ Resting("master") /\ Waits /\ NoneSent

MasterComputes == Flying(<<>>, <<>>) /\ Computes("master") /\ Waits /\ NoneSent

MasterSent == Sent({Value("master")}, {}) /\ Shown({}, {})

MasterConfirmed ==
    Flying(<<>>, <<ConfirmPdu("master")>>) /\ Resting("master") /\ Waits /\ MasterSent

SlaveComputes ==
    /\ Flying(<<>>, <<>>) /\ Resting("master")
    /\ conn["slave"] /\ Computes("slave") /\ smp_state["slave"] = "CONFIRM_REQ"
    /\ MasterSent

BothSent == Sent({Value("master")}, {Value("slave")})

SlaveConfirmed ==
    /\ Flying(<<ConfirmPdu("slave")>>, <<>>) /\ Resting("master") /\ Resting("slave")
    /\ BothSent /\ Shown({}, {})

MasterRevealed ==
    /\ Flying(<<>>, <<RandomPdu("master")>>) /\ Resting("master") /\ Resting("slave")
    /\ BothSent /\ Shown({rand["master"]}, {})
    /\ buf["master"][1] = Rand(rand["master"])

BothShown == BothSent /\ Shown({rand["master"]}, {rand["slave"]})

SlaveHasValues == smp_state["slave"] = "RAND_RSP" /\ Halves(buf["slave"])

SlaveRevealed ==
    /\ Flying(<<RandomPdu("slave")>>, <<>>) /\ Resting("master") /\ Resting("slave")
    /\ BothShown /\ buf["master"][1] = Rand(rand["master"]) /\ SlaveHasValues

(* The host computes the key of the link.                                  *)
KeyComputes(h) ==
    enc_state[h] = "STK" /\ \E b \in cb[h] : cb[h] = {b} /\ Halves(b)

MasterHasValues ==
    /\ Flying(<<>>, <<>>) /\ Resting("slave") /\ BothShown /\ SlaveHasValues
    /\ KeyComputes("master")

Underway ==
    \/ Requested
    \/ Responded
    \/ MasterComputes
    \/ MasterConfirmed
    \/ SlaveComputes
    \/ SlaveConfirmed
    \/ MasterRevealed
    \/ SlaveRevealed
    \/ MasterHasValues

Pairing ==
    /\ key["master"] = {} /\ key["slave"] = {}
    /\ ~In("ltk_request", evts["slave"])
    /\ Silent \/ (authed /\ conn["master"] /\ Underway)

(* The slave's controller asks for the key, and has not asked before; the  *)
(* slave computes it; it has given it.                                     *)
Once(e, s) == \A i, j \in 1 .. Len(s) : s[i] = e /\ s[j] = e => i = j

Asking ==
    /\ Resting("slave") /\ SlaveHasValues /\ key["slave"] = {}
    /\ Once("ltk_request", evts["slave"])

Answering ==
    /\ ~In("ltk_request", evts["slave"]) /\ key["slave"] = {} /\ KeyComputes("slave")

Answered == ~In("ltk_request", evts["slave"]) /\ Resting("slave")

(* The master has given its key.                                           *)
Keyed ==
    /\ authed /\ \A h \in Host : air[h] \in Seq({KeysPdu}) /\ key[h] \subseteq {LinkKey}
    /\ Resting("master") /\ BothShown
    /\ Asking \/ Answering \/ Answered

PairArrays ==
    /\ DOMAIN smp_state = Host /\ DOMAIN enc_state = Host /\ DOMAIN rand = Host
    /\ DOMAIN buf = Host /\ DOMAIN cb = Host /\ DOMAIN air = Host
    /\ DOMAIN key = Host /\ DOMAIN confirmed = Host /\ DOMAIN revealed = Host
    /\ DOMAIN evts = Host /\ DOMAIN conn = Host /\ DOMAIN encrypted = Host
    /\ \A h \in Host : DOMAIN buf[h] = {1, 2}

(* The master's key is never asked for, and a link is encrypted with a key *)
(* of the slave.                                                           *)
KeysInv ==
    /\ ~In("ltk_request", evts["master"])
    /\ secured => key["slave"] # {}

PhaseInv == up /\ ~carried => Pairing \/ Keyed

PairInv ==
    /\ FlagInv /\ PairArrays /\ KeysInv /\ PhaseInv
    /\ RevealedAsConfirmed /\ KeyOfThisPairing

LEMMA BlockHalves == \A b : DOMAIN Encrypted(b) = {1, 2}
BY DEF Encrypted

LEMMA ArraysKept == ASSUME PairArrays, [Next]_vars PROVE PairArrays'
<1>1. CASE Auth
  <2>1. DOMAIN Twice("packets", 0) = {1, 2}
    BY DEF Twice
  <2>2. /\ smp_state' = Set(smp_state, "master", "PAIRING_REQ")
        /\ buf' = Set(buf, "master", Twice("packets", 0))
        /\ air' = SendOn(TRUE, "master", <<[code |-> "request"]>>, air)
        /\ UNCHANGED <<enc_state, rand, cb, conn, encrypted, evts, key,
                       confirmed, revealed>>
    BY <1>1 DEF Auth
  <2> QED
    BY <2>1, <2>2 DEF PairArrays, Set, SendOn
<1>2. ASSUME NEW h \in Host, SmpHandler(h) PROVE PairArrays'
  <2>1. \A n : DOMAIN Twice("pairing", n) = {1, 2}
    BY DEF Twice
  <2>2. UNCHANGED <<conn, encrypted, evts, key>> /\ DOMAIN Rest(h) = Host
    BY <1>2 DEF SmpHandler, Rest, PairArrays
  <2>3. ASSUME DrawAndConfirm(h), UNCHANGED <<confirmed, revealed>>, DOMAIN air' = Host
        PROVE  PairArrays'
    BY <2>1, <2>2, <2>3 DEF PairArrays, Set, DrawAndConfirm, Encrypt
  <2>4. CASE PairingRequest(h)
    BY <2>2, <2>3, <2>4 DEF PairingRequest, SendOn
  <2>5. CASE PairingResponse(h)
    BY <2>2, <2>3, <2>5 DEF PairingResponse
  <2>6. CASE PairingConfirm(h)
    BY <2>2, <2>6 DEF PairingConfirm, SendRandom, SendConfirm, SendOn, Set, PairArrays
  <2>7. CASE PairingRandom(h)
    BY <2>2, <2>7 DEF PairingRandom, SendRandom, SendOn, Set, Encrypt, PairArrays
  <2>8. CASE OtherCode(h)
    BY <2>2, <2>8 DEF OtherCode, PairArrays
  <2> QED
    BY <1>2, <2>4, <2>5, <2>6, <2>7, <2>8 DEF SmpHandler
<1>3. ASSUME NEW h \in Host, EncCalCb(h) PROVE PairArrays'
  <2> DEFINE b == Encrypted(CHOOSE x \in cb[h] : TRUE)
  <2>1. DOMAIN b = {1, 2}
    BY BlockHalves
  <2>2. UNCHANGED <<rand, conn, encrypted, revealed>>
    BY <1>3 DEF EncCalCb
  <2>3. CASE /\ cb' = Set(cb, h, {b}) /\ enc_state' = Set(enc_state, h, "CAL2")
             /\ UNCHANGED <<smp_state, buf, air, evts, key, confirmed>>
    BY <2>2, <2>3 DEF PairArrays, Set
  <2>4. CASE cb' = Set(cb, h, {}) /\ ConfirmReady(h, b) /\ UNCHANGED <<evts, key>>
    <3> HIDE DEF b
    <3> QED
      BY <2>1, <2>2, <2>4 DEF PairArrays, Set, ConfirmReady, SendConfirm, SendOn
  <2>5. CASE /\ cb' = Set(cb, h, {}) /\ smp_state' = Set(smp_state, h, "LTK_RSP")
             /\ enc_state' = Set(enc_state, h, "IDLE") /\ GiveKey(h, b, evts)
             /\ UNCHANGED <<buf, air, confirmed>>
    <3> HIDE DEF b
    <3> QED
      BY <2>1, <2>2, <2>5 DEF PairArrays, Set, GiveKey
  <2> QED
    BY <1>3, <2>3, <2>4, <2>5 DEF EncCalCb
<1>4. ASSUME NEW h \in Host, HciEvent(h) PROVE PairArrays'
  <2>1. UNCHANGED <<rand, buf, confirmed, revealed>> /\ DOMAIN Later(h) = Host
    BY <1>4 DEF HciEvent, histVars, Later, PairArrays
  <2>2. CASE Connected(h) \/ Disconnected(h)
    BY <2>1, <2>2 DEF Connected, Disconnected, Set, PairArrays
  <2>3. CASE LtkRequest(h)
    BY <2>1, <2>3 DEF LtkRequest, GiveKey, Encrypt, Set, PairArrays
  <2>4. CASE EncryptChange(h)
    BY <2>1, <2>4 DEF EncryptChange, SendOn, Set, PairArrays
  <2> QED
    BY <1>4, <2>2, <2>3, <2>4 DEF HciEvent
<1>5. CASE LinkUp
  BY <1>5 DEF LinkUp, hostVars, PairArrays
<1>6. CASE LinkLoss
  BY <1>6 DEF LinkLoss, hostVars, histVars, PairArrays
<1>7. CASE StartEncryption
  BY <1>7 DEF StartEncryption, hostVars, histVars, PairArrays
<1>8. CASE UNCHANGED vars
  BY <1>8 DEF vars, hostVars, linkVars, histVars, PairArrays
<1> QED
  BY <1>1, <1>2, <1>3, <1>4, <1>5, <1>6, <1>7, <1>8 DEF Next

(* What GiveKey, and so every step, does to the events and the keys.       *)
LEMMA KeysKept == FlagInv /\ PairArrays /\ KeysInv /\ [Next]_vars => KeysInv'
<1> SUFFICES ASSUME FlagInv, PairArrays, KeysInv, [Next]_vars PROVE KeysInv'
  OBVIOUS
<1>1. /\ EventsOK(evts["master"]) /\ evts["master"] \in Seq(Event)
      /\ ~In("ltk_request", evts["master"]) /\ "master" \in Host
  BY DEF FlagInv, EventsOK, KeysInv, Host
<1>2. CASE UNCHANGED <<evts, secured, key>>
  BY <1>2 DEF KeysInv, In
<1>3. ASSUME NEW h \in Host, NEW k, NEW e, GiveKey(h, k, e), secured' = secured,
             DOMAIN e = Host, ~In("ltk_request", e["master"])
      PROVE  KeysInv'
  <2>1. evts'["master"] = e["master"] /\ (key["slave"] # {} => key'["slave"] # {})
    BY <1>3 DEF GiveKey, Set, PairArrays, Host
  <2> QED
    BY <1>3, <2>1 DEF KeysInv, In
<1>4. ASSUME NEW h \in Host, evts[h] # <<>>
      PROVE  /\ ~In("ltk_request", Later(h)["master"])
             /\ DOMAIN Later(h) = Host
  <2>1. /\ DOMAIN Later(h) = Host
        /\ Later(h)["master"] \in {evts["master"], Tail(evts["master"])}
        /\ h # "master" => Later(h)["master"] = evts["master"]
    BY DEF Later, PairArrays, Host
  <2>2. evts["master"] # <<>> => ~In("ltk_request", Tail(evts["master"]))
    BY <1>1, EventTail
  <2> QED
    BY <1>1, <1>4, <2>1, <2>2
<1>5. CASE Auth
  BY <1>2, <1>5 DEF Auth
<1>6. ASSUME NEW h \in Host, SmpHandler(h) PROVE KeysInv'
  BY <1>2, <1>6 DEF SmpHandler
<1>7. ASSUME NEW h \in Host, EncCalCb(h) PROVE KeysInv'
  <2>1. /\ secured' = secured
        /\ UNCHANGED <<evts, key>> \/ \E k : GiveKey(h, k, evts)
    BY <1>7 DEF EncCalCb
  <2> QED
    BY <1>1, <1>2, <1>3, <2>1 DEF PairArrays
<1>8. ASSUME NEW h \in Host, HciEvent(h) PROVE KeysInv'
  <2>1. /\ evts[h] # <<>> /\ secured' = secured
        /\ \/ evts' = Later(h) /\ key' = key
           \/ \E k : GiveKey(h, k, Later(h))
    BY <1>8 DEF HciEvent, Connected, Disconnected, LtkRequest, EncryptChange, NextEvent
  <2> QED
    BY <1>3, <1>4, <2>1 DEF KeysInv, In
<1>9. CASE LinkUp
  <2>1. secured' = FALSE /\ evts'["master"] = <<"connected">>
    BY <1>9 DEF FlagInv, LinkUp, Host
  <2>2. ~In("ltk_request", <<"connected">>)
    BY DEF In
  <2> QED
    BY <2>1, <2>2 DEF KeysInv, In
<1>10. CASE LinkLoss
  <2>1. secured' = FALSE /\ evts'["master"] = Append(evts["master"], "disconnected")
    BY <1>10 DEF LinkLoss, Host
  <2>2. ~In("ltk_request", Append(evts["master"], "disconnected"))
    BY <1>1, EventAdded DEF Event
  <2> QED
    BY <2>1, <2>2 DEF KeysInv, In
<1>11. CASE StartEncryption
  <2>1. /\ key'["slave"] # {} /\ evts'["master"] = Append(evts["master"], "enc_change")
    BY <1>11 DEF StartEncryption, Host
  <2>2. ~In("ltk_request", Append(evts["master"], "enc_change"))
    BY <1>1, EventAdded DEF Event
  <2> QED
    BY <2>1, <2>2 DEF KeysInv, In
<1>12. CASE UNCHANGED vars
  BY <1>2, <1>12 DEF vars, linkVars
<1> QED
  BY <1>5, <1>6, <1>7, <1>8, <1>9, <1>10, <1>11, <1>12 DEF Next

-----------------------------------------------------------------------------
(* The only packet on the air is the one that is taken; nothing is left.   *)
LEMMA Taken ==
    ASSUME PairArrays, NEW g \in Host, NEW x, air[g] = <<x>>, air[Peer(g)] = <<>>,
           NEW h \in Host, SmpHandler(h)
    PROVE  /\ h = g /\ Head(air[h]) = x
           /\ \A code : Receive(h, code) => x.code = code
           /\ DOMAIN Rest(h) = Host /\ Rest(h)["master"] = <<>> /\ Rest(h)["slave"] = <<>>
<1>1. h = g
  <2>1. air[h] # <<>>
    BY DEF SmpHandler, PairingRequest, PairingResponse, PairingConfirm,
           PairingRandom, OtherCode, Receive
  <2> QED
    BY <2>1 DEF Host, Peer
<1>2. Head(<<x>>) = x /\ Tail(<<x>>) = <<>>
  OBVIOUS
<1> QED
  BY <1>1, <1>2 DEF PairArrays, Rest, Receive, Peer, Host

LEMMA Sending ==
    ASSUME up, NEW h \in Host, NEW a, DOMAIN a = Host, a[Peer(h)] = <<>>, NEW x
    PROVE  /\ SendOn(TRUE, h, <<x>>, a)[Peer(h)] = <<x>>
           /\ SendOn(TRUE, h, <<x>>, a)[h] = a[h]
<1>1. <<x>> \in Seq({x})
  OBVIOUS
<1>2. <<>> \o <<x>> = <<x>>
  BY <1>1, ConcatEmptySeq
<1> QED
  BY <1>2 DEF SendOn, Peer, Host

(* A host whose controller is idle draws its random value.                 *)
LEMMA Drawing ==
    ASSUME PairArrays, NEW h \in Host, Resting(h), DrawAndConfirm(h)
    PROVE  /\ Computes(h)' /\ smp_state'[h] = "PAIRING_RSP"
           /\ \A g \in Host \ {h} : /\ rand'[g] = rand[g] /\ buf'[g] = buf[g]
                                    /\ cb'[g] = cb[g]
                                    /\ smp_state'[g] = smp_state[g]
                                    /\ enc_state'[g] = enc_state[g]
<1>1. /\ rand'[h] = draws + 1 /\ cb'[h] = {Twice("pairing", draws + 1)}
      /\ enc_state'[h] = "CAL1"
  BY DEF DrawAndConfirm, Encrypt, Resting, Set, PairArrays
<1>2. Computes(h)'
  BY <1>1 DEF Computes
<1> QED
  BY <1>2 DEF DrawAndConfirm, Encrypt, Resting, Set, PairArrays

(* The slave waits on, whatever the master does meanwhile.                 *)
LEMMA WaitsKept ==
    ASSUME Waits, conn' = conn, smp_state'["slave"] = smp_state["slave"],
           enc_state'["slave"] = enc_state["slave"], cb'["slave"] = cb["slave"],
           buf'["slave"] = buf["slave"], rand'["slave"] = rand["slave"]
    PROVE  Waits'
BY DEF Waits, Computes, Resting, Value

LEMMA RequestAnswered ==
    ASSUME PairInv, up, Requested, NEW h \in Host, SmpHandler(h)
    PROVE  Responded'
<1>1. /\ air["master"] = <<>> /\ air["slave"] = <<RequestPdu>>
      /\ cb["master"] = {} /\ cb["slave"] = {}
  BY DEF Requested, Flying, Resting
<1>2. /\ h = "slave" /\ Head(air[h]) = RequestPdu
      /\ \A code : Receive(h, code) => RequestPdu.code = code
      /\ DOMAIN Rest(h) = Host /\ Rest(h)["slave"] = <<>> /\ Rest(h)["master"] = <<>>
  <2>1. "slave" \in Host /\ Peer("slave") = "master" /\ PairArrays
    BY DEF Host, Peer, PairInv
  <2> QED
    BY <1>1, <2>1, Taken
<1>3. PairingRequest(h)
  BY <1>2
  DEF SmpHandler, PairingResponse, PairingConfirm, PairingRandom, OtherCode,
      RequestPdu
<1>5. air' = SendOn(TRUE, h, <<ResponsePdu>>, Rest(h))
  BY <1>3 DEF PairingRequest, ResponsePdu
<1>6. air'["master"] = <<ResponsePdu>> /\ air'["slave"] = <<>>
  <2>1. Peer(h) = "master" /\ DOMAIN Rest(h) = Host /\ Rest(h)[Peer(h)] = <<>>
    BY <1>2 DEF Peer
  <2>2. LET f == SendOn(TRUE, h, <<ResponsePdu>>, Rest(h))
        IN  f[Peer(h)] = <<ResponsePdu>> /\ f[h] = Rest(h)[h]
    BY <2>1, Sending
  <2> QED
    BY <1>2, <1>5, <2>1, <2>2
<1>7. /\ Computes("slave")' /\ smp_state'["slave"] = "PAIRING_RSP"
      /\ cb'["master"] = {}
  BY <1>1, <1>2, <1>3, Drawing DEF PairingRequest, Resting, PairInv, Host
<1>8. conn["slave"] /\ conn' = conn
  <2>1. ~In("connected", evts["slave"])
    <3>1. evts["slave"] \in Seq(Event)
      BY DEF PairInv, FlagInv, EventsOK, Host
    <3> QED
      BY <1>2, <3>1 DEF SmpHandler, In
  <2> QED
    BY <2>1 DEF PairInv, FlagInv, SmpHandler, Host
<1>9. UNCHANGED <<confirmed, revealed>>
  BY <1>3 DEF PairingRequest
<1> QED
  BY <1>6, <1>7, <1>8, <1>9
  DEF Responded, Requested, Flying, Resting, Waits, NoneSent, Sent, Shown

LEMMA ResponseTaken ==
    ASSUME PairInv, up, Responded, NEW h \in Host, SmpHandler(h)
    PROVE  MasterComputes'
<1>1. /\ air["slave"] = <<>> /\ air["master"] = <<ResponsePdu>>
      /\ cb["master"] = {} /\ Waits /\ NoneSent
  BY DEF Responded, Flying, Resting
<1>2. /\ h = "master" /\ Head(air[h]) = ResponsePdu
      /\ \A code : Receive(h, code) => ResponsePdu.code = code
      /\ DOMAIN Rest(h) = Host /\ Rest(h)["slave"] = <<>> /\ Rest(h)["master"] = <<>>
  <2>1. "master" \in Host /\ Peer("master") = "slave" /\ PairArrays
    BY DEF Host, Peer, PairInv
  <2> QED
    BY <1>1, <2>1, Taken
<1>3. PairingResponse(h)
  BY <1>2
  DEF SmpHandler, PairingRequest, PairingConfirm, PairingRandom, OtherCode,
      ResponsePdu
<1>4. air'["master"] = <<>> /\ air'["slave"] = <<>>
  BY <1>2, <1>3 DEF PairingResponse
<1>5. /\ Computes("master")' /\ UNCHANGED <<conn, confirmed, revealed>>
      /\ rand'["slave"] = rand["slave"] /\ buf'["slave"] = buf["slave"]
      /\ cb'["slave"] = cb["slave"] /\ smp_state'["slave"] = smp_state["slave"]
      /\ enc_state'["slave"] = enc_state["slave"]
  BY <1>1, <1>2, <1>3, Drawing
  DEF PairingResponse, Resting, PairInv, Host, SmpHandler
<1>6. Waits'
  BY <1>1, <1>5, WaitsKept
<1> QED
  BY <1>1, <1>4, <1>5, <1>6
  DEF MasterComputes, Flying, NoneSent, Sent, Shown

(* The slave answers the master's confirm value at once, or when its own   *)
(* is ready.                                                               *)
LEMMA ConfirmTaken ==
    ASSUME PairInv, up, MasterConfirmed, NEW h \in Host, SmpHandler(h)
    PROVE  SlaveComputes' \/ SlaveConfirmed'
<1>1. /\ air["master"] = <<>> /\ air["slave"] = <<ConfirmPdu("master")>>
      /\ cb["master"] = {} /\ Waits /\ MasterSent
  BY DEF MasterConfirmed, Flying, Resting
<1>2. /\ h = "slave" /\ Head(air[h]) = ConfirmPdu("master")
      /\ \A code : Receive(h, code) => ConfirmPdu("master").code = code
      /\ DOMAIN Rest(h) = Host /\ Rest(h)["slave"] = <<>> /\ Rest(h)["master"] = <<>>
  <2>1. "slave" \in Host /\ Peer("slave") = "master" /\ PairArrays
    BY DEF Host, Peer, PairInv
  <2> QED
    BY <1>1, <2>1, Taken
<1>3. PairingConfirm(h)
  BY <1>2
  DEF SmpHandler, PairingRequest, PairingResponse, PairingRandom, OtherCode,
      ConfirmPdu
<1>5. UNCHANGED <<rand, cb, conn>>
  BY <1>3 DEF PairingConfirm, SmpHandler
<1>6. CASE enc_state[h] = "PENDING"
  <2>1. buf["slave"] = Value("slave") /\ cb["slave"] = {}
    BY <1>1, <1>2, <1>6 DEF Waits, Computes, Resting
  <2>2. SendConfirm(TRUE, h, buf[h], Rest(h)) /\ revealed' = revealed
    BY <1>2, <1>3, <1>6 DEF PairingConfirm
  <2>3. air' = SendOn(TRUE, h, <<ConfirmPdu("slave")>>, Rest(h))
    BY <1>2, <2>1, <2>2 DEF SendConfirm, ConfirmPdu
  <2>4. air'["master"] = <<ConfirmPdu("slave")>> /\ air'["slave"] = <<>>
    <3>1. Peer(h) = "master" /\ DOMAIN Rest(h) = Host /\ Rest(h)[Peer(h)] = <<>>
      BY <1>2 DEF Peer
    <3>2. LET f == SendOn(TRUE, h, <<ConfirmPdu("slave")>>, Rest(h))
          IN  f[Peer(h)] = <<ConfirmPdu("slave")>> /\ f[h] = Rest(h)[h]
      BY <3>1, Sending
    <3> QED
      BY <1>2, <2>3, <3>1, <3>2
  <2>5. ConfirmPdu("slave")' = ConfirmPdu("slave")
    BY <1>5 DEF ConfirmPdu, Value
  <2>6. /\ confirmed'["master"] = {Value("master")}
        /\ confirmed'["slave"] = {Value("slave")}
    BY <1>1, <1>2, <2>1, <2>2
    DEF SendConfirm, MasterSent, Sent, PairInv, PairArrays
  <2> QED
    BY <1>1, <1>5, <2>1, <2>2, <2>4, <2>5, <2>6
    DEF SlaveConfirmed, Flying, Resting, BothSent, Sent, Shown, MasterSent, Value
<1>7. CASE enc_state[h] # "PENDING"
  <2>1. Computes("slave") /\ conn["slave"]
    BY <1>1, <1>2, <1>7 DEF Waits
  <2>2. /\ smp_state' = Set(smp_state, h, "CONFIRM_REQ") /\ air' = Rest(h)
        /\ UNCHANGED <<enc_state, confirmed, revealed>>
    BY <1>2, <1>3, <1>7 DEF PairingConfirm
  <2>3. Computes("slave")' /\ smp_state'["slave"] = "CONFIRM_REQ"
    BY <1>2, <1>5, <2>1, <2>2 DEF Computes, Set, PairInv, PairArrays
  <2> QED
    BY <1>1, <1>2, <1>5, <2>1, <2>2, <2>3
    DEF SlaveComputes, Flying, Resting, MasterSent, Sent, Shown, Value
<1> QED
  BY <1>6, <1>7

LEMMA MasterReveals ==
    ASSUME PairInv, up, SlaveConfirmed, NEW h \in Host, SmpHandler(h)
    PROVE  MasterRevealed'
<1>1. /\ air["slave"] = <<>> /\ air["master"] = <<ConfirmPdu("slave")>>
      /\ cb["master"] = {} /\ cb["slave"] = {} /\ BothSent /\ Shown({}, {})
  BY DEF SlaveConfirmed, Flying, Resting
<1>2. /\ h = "master" /\ Head(air[h]) = ConfirmPdu("slave")
      /\ \A code : Receive(h, code) => ConfirmPdu("slave").code = code
      /\ DOMAIN Rest(h) = Host /\ Rest(h)["slave"] = <<>> /\ Rest(h)["master"] = <<>>
  <2>1. "master" \in Host /\ Peer("master") = "slave" /\ PairArrays
    BY DEF Host, Peer, PairInv
  <2> QED
    BY <1>1, <2>1, Taken
<1>3. PairingConfirm(h)
  BY <1>2
  DEF SmpHandler, PairingRequest, PairingResponse, PairingRandom, OtherCode,
      ConfirmPdu
<1>5. /\ UNCHANGED <<rand, cb, confirmed>> /\ SendRandom(h)
      /\ buf' = [buf EXCEPT ![h][1] = Rand(rand[h])]
  BY <1>2, <1>3 DEF PairingConfirm
<1>6. air'["slave"] = <<RandomPdu("master")>> /\ air'["master"] = <<>>
  <2>1. air' = SendOn(TRUE, h, <<RandomPdu("master")>>, Rest(h))
    BY <1>2, <1>5 DEF SendRandom, RandomPdu
  <2>2. Peer(h) = "slave" /\ DOMAIN Rest(h) = Host /\ Rest(h)[Peer(h)] = <<>>
    BY <1>2 DEF Peer
  <2>3. LET f == SendOn(TRUE, h, <<RandomPdu("master")>>, Rest(h))
        IN  f[Peer(h)] = <<RandomPdu("master")>> /\ f[h] = Rest(h)[h]
    BY <2>2, Sending
  <2> QED
    BY <1>2, <2>1, <2>2, <2>3
<1>7. RandomPdu("master")' = RandomPdu("master")
  BY <1>5 DEF RandomPdu
<1>8. /\ revealed'["master"] = {rand["master"]} /\ revealed'["slave"] = {}
  BY <1>1, <1>2, <1>5 DEF SendRandom, Shown, PairInv, PairArrays
<1>9. buf'["master"][1] = Rand(rand["master"])
  BY <1>2, <1>5 DEF PairInv, PairArrays, Host
<1> QED
  BY <1>1, <1>5, <1>6, <1>7, <1>8, <1>9
  DEF MasterRevealed, Flying, Resting, BothSent, Sent, Shown, Value

LEMMA SlaveReveals ==
    ASSUME PairInv, up, MasterRevealed, NEW h \in Host, SmpHandler(h)
    PROVE  SlaveRevealed'
<1>1. /\ air["master"] = <<>> /\ air["slave"] = <<RandomPdu("master")>>
      /\ cb["master"] = {} /\ cb["slave"] = {} /\ BothSent
      /\ Shown({rand["master"]}, {}) /\ buf["master"][1] = Rand(rand["master"])
  BY DEF MasterRevealed, Flying, Resting
<1>2. /\ h = "slave" /\ Head(air[h]) = RandomPdu("master")
      /\ \A code : Receive(h, code) => RandomPdu("master").code = code
      /\ DOMAIN Rest(h) = Host /\ Rest(h)["slave"] = <<>> /\ Rest(h)["master"] = <<>>
  <2>1. "slave" \in Host /\ Peer("slave") = "master" /\ PairArrays
    BY DEF Host, Peer, PairInv
  <2> QED
    BY <1>1, <2>1, Taken
<1>3. PairingRandom(h)
  BY <1>2
  DEF SmpHandler, PairingRequest, PairingResponse, PairingConfirm, OtherCode,
      RandomPdu
<1>5. /\ UNCHANGED <<rand, cb, confirmed>> /\ SendRandom(h)
      /\ smp_state' = Set(smp_state, h, "RAND_RSP")
      /\ buf' = Set(buf, h, <<Rand(rand["master"]), Rand(rand[h])>>)
  BY <1>2, <1>3 DEF PairingRandom, RandomPdu
<1>6. air'["master"] = <<RandomPdu("slave")>> /\ air'["slave"] = <<>>
  <2>1. air' = SendOn(TRUE, h, <<RandomPdu("slave")>>, Rest(h))
    BY <1>2, <1>5 DEF SendRandom, RandomPdu
  <2>2. Peer(h) = "master" /\ DOMAIN Rest(h) = Host /\ Rest(h)[Peer(h)] = <<>>
    BY <1>2 DEF Peer
  <2>3. LET f == SendOn(TRUE, h, <<RandomPdu("slave")>>, Rest(h))
        IN  f[Peer(h)] = <<RandomPdu("slave")>> /\ f[h] = Rest(h)[h]
    BY <2>2, Sending
  <2> QED
    BY <1>2, <2>1, <2>2, <2>3
<1>7. RandomPdu("slave")' = RandomPdu("slave")
  BY <1>5 DEF RandomPdu
<1>8. revealed'["master"] = {rand["master"]} /\ revealed'["slave"] = {rand["slave"]}
  BY <1>1, <1>2, <1>5 DEF SendRandom, Shown, PairInv, PairArrays
<1>9. buf'["master"] = buf["master"] /\ SlaveHasValues'
  BY <1>2, <1>5 DEF SlaveHasValues, Halves, Set, PairInv, PairArrays, Host
<1> QED
  BY <1>1, <1>5, <1>6, <1>7, <1>8, <1>9
  DEF SlaveRevealed, BothShown, Flying, Resting, BothSent, Sent, Shown, Value

LEMMA ValuesExchanged ==
    ASSUME PairInv, up, SlaveRevealed, NEW h \in Host, SmpHandler(h)
    PROVE  MasterHasValues'
<1>1. /\ air["slave"] = <<>> /\ air["master"] = <<RandomPdu("slave")>>
      /\ cb["master"] = {} /\ cb["slave"] = {} /\ BothShown
      /\ buf["master"][1] = Rand(rand["master"]) /\ SlaveHasValues
  BY DEF SlaveRevealed, Flying, Resting
<1>2. /\ h = "master" /\ Head(air[h]) = RandomPdu("slave")
      /\ \A code : Receive(h, code) => RandomPdu("slave").code = code
      /\ DOMAIN Rest(h) = Host /\ Rest(h)["slave"] = <<>> /\ Rest(h)["master"] = <<>>
  <2>1. "master" \in Host /\ Peer("master") = "slave" /\ PairArrays
    BY DEF Host, Peer, PairInv
  <2> QED
    BY <1>1, <2>1, Taken
<1>3. PairingRandom(h)
  BY <1>2
  DEF SmpHandler, PairingRequest, PairingResponse, PairingConfirm, OtherCode,
      RandomPdu
<1>4. /\ buf' = [buf EXCEPT ![h][2] = Rand(rand["slave"])]
      /\ enc_state' = Set(enc_state, h, "STK") /\ Encrypt(h, buf'[h])
      /\ air' = Rest(h) /\ UNCHANGED <<rand, smp_state, revealed, confirmed>>
  BY <1>2, <1>3 DEF PairingRandom, RandomPdu
<1>5. air'["slave"] = <<>> /\ air'["master"] = <<>>
  BY <1>2, <1>4
<1>6. /\ cb'["master"] = {buf'["master"]} /\ cb'["slave"] = {}
      /\ enc_state'["master"] = "STK" /\ buf'["slave"] = buf["slave"]
      /\ buf'["master"][1] = Rand(rand["master"])
      /\ buf'["master"][2] = Rand(rand["slave"])
  BY <1>1, <1>2, <1>4 DEF Encrypt, Set, PairInv, PairArrays, Host
<1>7. KeyComputes("master")'
  BY <1>4, <1>6 DEF KeyComputes, Halves
<1> QED
  BY <1>1, <1>4, <1>5, <1>6, <1>7
  DEF MasterHasValues, BothShown, Flying, Resting, BothSent, Sent, Shown, Value,
      SlaveHasValues, Halves

LEMMA NothingToTake ==
    ASSUME NEW h \in Host, SmpHandler(h)
    PROVE  ~Flying(<<>>, <<>>)
BY DEF SmpHandler, PairingRequest, PairingResponse, PairingConfirm, PairingRandom,
       OtherCode, Receive, Flying, Host

LEMMA PairingSmp ==
    ASSUME PairInv, up, Pairing, NEW h \in Host, SmpHandler(h)
    PROVE  Pairing'
<1>1. UNCHANGED <<key, evts, authed, conn>>
  BY DEF SmpHandler
<1>2. authed /\ conn["master"] /\ Underway
  BY NothingToTake DEF Pairing, Silent
<1>3. Underway'
  BY <1>2, NothingToTake, RequestAnswered, ResponseTaken, ConfirmTaken,
     MasterReveals, SlaveReveals, ValuesExchanged
  DEF Underway, MasterComputes, SlaveComputes, MasterHasValues
<1> QED
  BY <1>1, <1>2, <1>3 DEF Pairing, In

-----------------------------------------------------------------------------
(* The controller answers: a host goes on to the second encryption of its  *)
(* confirm value, or has the value.                                        *)
LEMMA Computing ==
    ASSUME PairArrays, NEW h \in Host, Computes(h), EncCalCb(h)
    PROVE  /\ UNCHANGED <<evts, key>>
           /\ \A g \in Host \ {h} : cb'[g] = cb[g] /\ enc_state'[g] = enc_state[g]
           /\ \/ Computes(h)' /\ UNCHANGED <<smp_state, buf, air, confirmed>>
              \/ Resting(h)' /\ ConfirmReady(h, Value(h))
<1>1. rand' = rand
  BY DEF EncCalCb
<1>2. CASE enc_state[h] = "CAL1" /\ cb[h] = {Twice("pairing", rand[h])}
  <2>1. (CHOOSE x \in cb[h] : TRUE) = Twice("pairing", rand[h])
    BY <1>2
  <2>2. /\ cb' = Set(cb, h, {Encrypted(Twice("pairing", rand[h]))})
        /\ enc_state' = Set(enc_state, h, "CAL2")
        /\ UNCHANGED <<smp_state, buf, air, evts, key, confirmed>>
    BY <1>2, <2>1 DEF EncCalCb
  <2>3. Computes(h)'
    BY <1>1, <2>2 DEF Computes, Set, PairArrays
  <2> QED
    BY <2>2, <2>3 DEF Set, PairArrays
<1>3. CASE enc_state[h] = "CAL2" /\ cb[h] = {Encrypted(Twice("pairing", rand[h]))}
  <2>1. Encrypted(CHOOSE x \in cb[h] : TRUE) = Value(h)
    <3>1. (CHOOSE x \in cb[h] : TRUE) = Encrypted(Twice("pairing", rand[h]))
      BY <1>3
    <3> QED
      BY <3>1 DEF Value, ConfirmOf
  <2>2. cb' = Set(cb, h, {}) /\ ConfirmReady(h, Value(h)) /\ UNCHANGED <<evts, key>>
    BY <1>3, <2>1 DEF EncCalCb
  <2>3. \A g \in Host \ {h} : enc_state'[g] = enc_state[g]
    BY <2>2 DEF ConfirmReady, Set, PairArrays
  <2>4. Resting(h)' /\ \A g \in Host \ {h} : cb'[g] = cb[g]
    BY <2>2 DEF Resting, Set, PairArrays
  <2> QED
    BY <2>2, <2>3, <2>4
<1> QED
  BY <1>2, <1>3 DEF Computes

(* The slave's answer while it waits: nothing leaves it.                   *)
LEMMA SlaveWaits ==
    ASSUME PairInv, Waits, EncCalCb("slave")
    PROVE  /\ Waits'
           /\ buf'["master"] = buf["master"] /\ cb'["master"] = cb["master"]
           /\ enc_state'["master"] = enc_state["master"]
           /\ UNCHANGED <<air, evts, key, confirmed, revealed, rand>>
<1>1. Computes("slave") /\ PairArrays /\ "slave" \in Host /\ "master" \in Host \ {"slave"}
  BY DEF Waits, Resting, EncCalCb, PairInv, Host
<1>2. UNCHANGED <<rand, revealed, conn>>
  BY DEF EncCalCb
<1>3. /\ UNCHANGED <<evts, key>>
      /\ cb'["master"] = cb["master"] /\ enc_state'["master"] = enc_state["master"]
      /\ \/ Computes("slave")' /\ UNCHANGED <<smp_state, buf, air, confirmed>>
         \/ Resting("slave")' /\ ConfirmReady("slave", Value("slave"))
  BY <1>1, Computing
<1>4. CASE Computes("slave")' /\ UNCHANGED <<smp_state, buf, air, confirmed>>
  BY <1>2, <1>3, <1>4 DEF Waits
<1>5. CASE Resting("slave")' /\ ConfirmReady("slave", Value("slave"))
  <2>1. /\ buf' = Set(buf, "slave", Value("slave"))
        /\ enc_state' = Set(enc_state, "slave", "PENDING")
        /\ UNCHANGED <<smp_state, air, confirmed>>
    BY <1>5 DEF ConfirmReady, Waits
  <2>2. /\ buf'["slave"] = Value("slave") /\ enc_state'["slave"] = "PENDING"
        /\ buf'["master"] = buf["master"] /\ Value("slave")' = Value("slave")
    BY <1>1, <1>2, <2>1 DEF Set, PairArrays, Value
  <2> QED
    BY <1>2, <1>3, <1>5, <2>1, <2>2 DEF Waits
<1> QED
  BY <1>3, <1>4, <1>5

(* A confirm value that is sent as soon as it is ready.                    *)
LEMMA ConfirmSent ==
    ASSUME PairArrays, up, NEW h \in Host, NEW b, conn[h], ConfirmReady(h, b),
           h = "slave" => smp_state[h] = "CONFIRM_REQ", Flying(<<>>, <<>>),
           confirmed[h] = {}
    PROVE  /\ air'[Peer(h)] = <<[code |-> "confirm", value |-> b]>> /\ air'[h] = <<>>
           /\ confirmed'[h] = {b} /\ confirmed'[Peer(h)] = confirmed[Peer(h)]
           /\ buf' = buf
           /\ \A g \in Host \ {h} : smp_state'[g] = smp_state[g]
<1>1. /\ SendConfirm(conn[h], h, b, air) /\ buf' = buf
      /\ \E s : smp_state' = Set(smp_state, h, s)
  BY DEF ConfirmReady
<1>2. /\ air' = SendOn(TRUE, h, <<[code |-> "confirm", value |-> b]>>, air)
      /\ confirmed' = [confirmed EXCEPT ![h] = @ \cup {b}]
  BY <1>1 DEF SendConfirm, SendOn
<1>3. /\ DOMAIN air = Host /\ air[Peer(h)] = <<>> /\ air[h] = <<>>
      /\ Peer(h) \in Host /\ Peer(h) # h
  BY DEF PairArrays, Flying, Peer, Host
<1>4. air'[Peer(h)] = <<[code |-> "confirm", value |-> b]>> /\ air'[h] = <<>>
  <2>1. LET f == SendOn(TRUE, h, <<[code |-> "confirm", value |-> b]>>, air)
        IN  f[Peer(h)] = <<[code |-> "confirm", value |-> b]>> /\ f[h] = air[h]
    BY <1>3, Sending
  <2> QED
    BY <1>2, <1>3, <2>1
<1>5. confirmed'[h] = {b} /\ confirmed'[Peer(h)] = confirmed[Peer(h)]
  BY <1>2, <1>3 DEF PairArrays
<1>6. \A g \in Host \ {h} : smp_state'[g] = smp_state[g]
  BY <1>1 DEF Set, PairArrays
<1> QED
  BY <1>1, <1>4, <1>5, <1>6

LEMMA MasterReady ==
    ASSUME PairInv, up, conn["master"], MasterComputes, EncCalCb("master")
    PROVE  (MasterComputes' \/ MasterConfirmed') /\ UNCHANGED <<evts, key>>
<1>1. /\ PairArrays /\ Computes("master") /\ Waits /\ NoneSent /\ Flying(<<>>, <<>>)
      /\ "master" \in Host /\ "slave" \in Host \ {"master"} /\ Peer("master") = "slave"
  BY DEF MasterComputes, PairInv, Host, Peer
<1>2. UNCHANGED <<rand, revealed, conn>>
  BY DEF EncCalCb
<1>3. /\ UNCHANGED <<evts, key>>
      /\ cb'["slave"] = cb["slave"] /\ enc_state'["slave"] = enc_state["slave"]
      /\ \/ Computes("master")' /\ UNCHANGED <<smp_state, buf, air, confirmed>>
         \/ Resting("master")' /\ ConfirmReady("master", Value("master"))
  BY <1>1, Computing
<1>4. CASE Computes("master")' /\ UNCHANGED <<smp_state, buf, air, confirmed>>
  <2>1. Waits'
    BY <1>1, <1>2, <1>3, <1>4, WaitsKept
  <2> QED
    BY <1>1, <1>2, <1>3, <1>4, <2>1
    DEF MasterComputes, Flying, NoneSent, Sent, Shown
<1>5. CASE Resting("master")' /\ ConfirmReady("master", Value("master"))
  <2>1. /\ air'["slave"] = <<ConfirmPdu("master")>> /\ air'["master"] = <<>>
        /\ confirmed'["master"] = {Value("master")}
        /\ confirmed'["slave"] = {} /\ buf' = buf
        /\ smp_state'["slave"] = smp_state["slave"]
    BY <1>1, <1>5, ConfirmSent DEF NoneSent, Sent, ConfirmPdu
  <2>2. Waits'
    BY <1>1, <1>2, <1>3, <2>1, WaitsKept
  <2>3. /\ ConfirmPdu("master")' = ConfirmPdu("master")
        /\ Value("master")' = Value("master")
    BY <1>2 DEF ConfirmPdu, Value
  <2>4. MasterConfirmed'
    BY <1>1, <1>2, <1>5, <2>1, <2>2, <2>3
    DEF MasterConfirmed, MasterSent, NoneSent, Sent, Shown, Flying
  <2> QED
    BY <1>3, <2>4
<1> QED
  BY <1>3, <1>4, <1>5

LEMMA SlaveReady ==
    ASSUME PairInv, up, SlaveComputes, EncCalCb("slave")
    PROVE  (SlaveComputes' \/ SlaveConfirmed') /\ UNCHANGED <<evts, key>>
<1>1. /\ PairArrays /\ Computes("slave") /\ conn["slave"] /\ MasterSent
      /\ smp_state["slave"] = "CONFIRM_REQ" /\ Flying(<<>>, <<>>) /\ Resting("master")
      /\ "slave" \in Host /\ "master" \in Host \ {"slave"} /\ Peer("slave") = "master"
  BY DEF SlaveComputes, PairInv, Host, Peer
<1>2. UNCHANGED <<rand, revealed, conn>>
  BY DEF EncCalCb
<1>3. /\ UNCHANGED <<evts, key>> /\ cb'["master"] = cb["master"]
      /\ \/ Computes("slave")' /\ UNCHANGED <<smp_state, buf, air, confirmed>>
         \/ Resting("slave")' /\ ConfirmReady("slave", Value("slave"))
  BY <1>1, Computing
<1>4. CASE Computes("slave")' /\ UNCHANGED <<smp_state, buf, air, confirmed>>
  BY <1>1, <1>2, <1>3, <1>4
  DEF SlaveComputes, Flying, Resting, MasterSent, Sent, Shown, Value
<1>5. CASE Resting("slave")' /\ ConfirmReady("slave", Value("slave"))
  <2>1. /\ air'["master"] = <<ConfirmPdu("slave")>> /\ air'["slave"] = <<>>
        /\ confirmed'["slave"] = {Value("slave")}
        /\ confirmed'["master"] = {Value("master")}
    BY <1>1, <1>5, ConfirmSent DEF MasterSent, Sent, ConfirmPdu
  <2>2. ConfirmPdu("slave")' = ConfirmPdu("slave")
    BY <1>2 DEF ConfirmPdu, Value
  <2>3. SlaveConfirmed'
    BY <1>1, <1>2, <1>3, <1>5, <2>1, <2>2
    DEF SlaveConfirmed, MasterSent, BothSent, Sent, Shown, Flying, Resting, Value
  <2> QED
    BY <1>3, <2>3
<1> QED
  BY <1>3, <1>4, <1>5

(* Of two blocks with the halves of this pairing the controller makes one  *)
(* key.                                                                    *)
LEMMA KeyFromHalves == \A b : Halves(b) => Encrypted(b) = LinkKey
BY DEF Halves, LinkKey, Stk, Encrypted

LEMMA MasterGivesKey ==
    ASSUME PairInv, up, Pairing, authed, MasterHasValues, EncCalCb("master")
    PROVE  Keyed'
<1>1. /\ PairArrays /\ Flying(<<>>, <<>>) /\ Resting("slave") /\ BothShown
      /\ SlaveHasValues /\ KeyComputes("master")
      /\ key["master"] = {} /\ key["slave"] = {} /\ ~In("ltk_request", evts["slave"])
  BY DEF MasterHasValues, PairInv, Pairing
<1>2. PICK b \in cb["master"] : cb["master"] = {b} /\ Halves(b)
  BY <1>1 DEF KeyComputes
<1>3. Encrypted(CHOOSE x \in cb["master"] : TRUE) = LinkKey
  <2>1. (CHOOSE x \in cb["master"] : TRUE) = b
    BY <1>2
  <2> QED
    BY <1>2, <2>1, KeyFromHalves
<1>4. /\ cb' = Set(cb, "master", {}) /\ GiveKey("master", LinkKey, evts)
      /\ smp_state' = Set(smp_state, "master", "LTK_RSP")
      /\ UNCHANGED <<buf, air, confirmed, rand, authed, revealed>>
  <2>1. enc_state["master"] = "STK"
    BY <1>1 DEF KeyComputes
  <2> QED
    BY <1>3, <2>1 DEF EncCalCb
<1>5. /\ cb'["master"] = {} /\ cb'["slave"] = {}
      /\ smp_state'["slave"] = smp_state["slave"]
  BY <1>1, <1>4 DEF Set, PairArrays, Resting, Host
<1>6. \A h \in Host : key'[h] \subseteq {LinkKey} /\ key'["slave"] = {}
  BY <1>1, <1>4 DEF GiveKey, Set, PairArrays, Host
<1>7. Once("ltk_request", evts'["slave"])
  <2>1. evts["slave"] \in Seq(Event)
    BY DEF PairInv, FlagInv, EventsOK, Host
  <2>2. evts'["slave"] \in {evts["slave"], Append(evts["slave"], "ltk_request")}
    BY <1>4 DEF GiveKey, PairInv, PairArrays, Host
  <2>3. \A i \in 1 .. Len(evts["slave"]) : evts["slave"][i] # "ltk_request"
    BY <1>1 DEF In
  <2> DEFINE r == Append(evts["slave"], "ltk_request")
             n == Len(evts["slave"])
  <2>4. /\ n \in Nat /\ Len(r) = n + 1 /\ \A i \in 1 .. n : r[i] = evts["slave"][i]
    BY <2>1, AppendProperties DEF Event
  <2>5. \A i \in 1 .. Len(r) : r[i] = "ltk_request" => i = n + 1
    <3> HIDE DEF r
    <3> QED
      BY <2>3, <2>4
  <2>6. Once("ltk_request", r)
    BY <2>5 DEF Once
  <2> QED
    BY <2>2, <2>3, <2>6 DEF Once
<1>8. \A h \in Host : air'[h] \in Seq({KeysPdu})
  <2>1. <<>> \in Seq({KeysPdu})
    BY EmptySeq
  <2> QED
    BY <1>1, <1>4, <2>1 DEF Flying, Host
<1>9. UNCHANGED LinkKey /\ BothShown'
  BY <1>1, <1>4 DEF LinkKey, BothShown, BothSent, Sent, Shown, Value
<1>10. SlaveHasValues'
  BY <1>1, <1>4, <1>5 DEF SlaveHasValues, Halves
<1>11. Asking'
  BY <1>5, <1>6, <1>7, <1>10 DEF Asking, Resting, Host, Once
<1> QED
  BY <1>4, <1>5, <1>6, <1>8, <1>9, <1>11 DEF Keyed, Resting

LEMMA PairingEnc ==
    ASSUME PairInv, up, Pairing, NEW h \in Host, EncCalCb(h)
    PROVE  Pairing' \/ Keyed'
<1>1. cb[h] # {} /\ UNCHANGED <<authed, conn>>
  BY DEF EncCalCb
<1>2. authed /\ conn["master"] /\ Underway
  BY <1>1 DEF Pairing, Silent, Resting, Host
<1>3. ASSUME UNCHANGED <<evts, key>>, Underway' PROVE Pairing'
  BY <1>1, <1>2, <1>3 DEF Pairing, In
<1>4. CASE Responded
  <2>1. h = "slave"
    BY <1>1, <1>4 DEF Responded, Resting, Host
  <2>2. /\ Waits' /\ cb'["master"] = cb["master"]
        /\ UNCHANGED <<air, evts, key, confirmed, revealed>>
    BY <1>4, <2>1, SlaveWaits DEF Responded
  <2>3. Responded'
    BY <1>4, <2>2 DEF Responded, Flying, Resting, NoneSent, Sent, Shown
  <2> QED
    BY <1>3, <2>2, <2>3 DEF Underway
<1>5. CASE MasterComputes
  <2>1. CASE h = "slave"
    <3>1. /\ Waits' /\ cb'["master"] = cb["master"]
          /\ enc_state'["master"] = enc_state["master"]
          /\ UNCHANGED <<air, evts, key, confirmed, revealed, rand>>
      BY <1>5, <2>1, SlaveWaits DEF MasterComputes
    <3>2. MasterComputes'
      BY <1>5, <3>1 DEF MasterComputes, Flying, Computes, NoneSent, Sent, Shown
    <3> QED
      BY <1>3, <3>1, <3>2 DEF Underway
  <2>2. CASE h = "master"
    BY <1>2, <1>3, <1>5, <2>2, MasterReady DEF Underway
  <2> QED
    BY <2>1, <2>2 DEF Host
<1>6. CASE MasterConfirmed
  <2>1. h = "slave"
    BY <1>1, <1>6 DEF MasterConfirmed, Resting, Host
  <2>2. /\ Waits' /\ cb'["master"] = cb["master"]
        /\ UNCHANGED <<air, evts, key, confirmed, revealed, rand>>
    BY <1>6, <2>1, SlaveWaits DEF MasterConfirmed
  <2>3. MasterConfirmed'
    BY <1>6, <2>2
    DEF MasterConfirmed, Flying, Resting, MasterSent, Sent, Shown, ConfirmPdu, Value
  <2> QED
    BY <1>3, <2>2, <2>3 DEF Underway
<1>7. CASE SlaveComputes
  <2>1. h = "slave"
    BY <1>1, <1>7 DEF SlaveComputes, Resting, Host
  <2> QED
    BY <1>3, <1>7, <2>1, SlaveReady DEF Underway
<1>8. CASE MasterHasValues
  <2>1. h = "master"
    BY <1>1, <1>8 DEF MasterHasValues, Resting, Host
  <2> QED
    BY <1>2, <1>8, <2>1, MasterGivesKey
<1>9. CASE Requested \/ SlaveConfirmed \/ MasterRevealed \/ SlaveRevealed
  BY <1>1, <1>9
  DEF Requested, SlaveConfirmed, MasterRevealed, SlaveRevealed, Resting, Host
<1> QED
  BY <1>2, <1>4, <1>5, <1>6, <1>7, <1>8, <1>9 DEF Underway

-----------------------------------------------------------------------------
(* While the keys are not given, a host of the live link can only learn    *)
(* that the link is there.                                                 *)
LEMMA PairingHci ==
    ASSUME PairInv, up, Pairing, NEW h \in Host, HciEvent(h)
    PROVE  Pairing'
<1>1. /\ evts[h] # <<>> /\ EventsOK(evts[h]) /\ evts[h] \in Seq(Event)
      /\ ~In("ltk_request", evts[h]) /\ ~secured
      /\ ~In("disconnected", evts[h]) /\ ~In("enc_change", evts[h])
  BY DEF HciEvent, Connected, Disconnected, LtkRequest, EncryptChange, NextEvent,
         PairInv, FlagInv, EventsOK, KeysInv, Pairing, Host
<1>2. In(Head(evts[h]), evts[h])
  <2>1. Len(evts[h]) \in Nat \ {0} /\ Head(evts[h]) = evts[h][1]
    BY <1>1, EmptySeq
  <2> QED
    BY <2>1 DEF In
<1>3. Connected(h)
  BY <1>1, <1>2 DEF HciEvent, Disconnected, LtkRequest, EncryptChange, NextEvent
<1>4. /\ UNCHANGED <<smp_state, enc_state, cb, air, key, rand, buf, authed,
                     confirmed, revealed>>
      /\ conn' = Set(conn, h, TRUE) /\ evts' = Later(h)
  BY <1>3 DEF Connected, HciEvent, histVars
<1>5. ~In("ltk_request", evts'["slave"])
  <2>1. CASE h = "slave"
    <3>1. evts'["slave"] = Tail(evts["slave"])
      BY <1>4, <2>1 DEF Later, PairInv, PairArrays, Host
    <3> QED
      BY <1>1, <2>1, <3>1, EventTail
  <2>2. CASE h = "master"
    <3>1. evts'["slave"] = evts["slave"]
      BY <1>4, <2>2 DEF Later, PairInv, PairArrays, Host
    <3> QED
      BY <3>1 DEF Pairing
  <2> QED
    BY <2>1, <2>2 DEF Host
<1>6. (conn["master"] => conn'["master"]) /\ (conn["slave"] => conn'["slave"])
  BY <1>4 DEF Set, PairInv, PairArrays, Host
<1>7. Silent => Silent'
  BY <1>4 DEF Silent, Flying, Resting, NoneSent, Sent, Shown
<1>8. Waits => Waits'
  BY <1>4, <1>6 DEF Waits, Computes, Resting, Value
<1>9. Underway => Underway'
  <2>1. Requested => Requested'
    BY <1>4 DEF Requested, Flying, Resting, NoneSent, Sent, Shown
  <2>2. Responded => Responded'
    BY <1>4, <1>8 DEF Responded, Flying, Resting, NoneSent, Sent, Shown
  <2>3. MasterComputes => MasterComputes'
    BY <1>4, <1>8 DEF MasterComputes, Computes, Flying, NoneSent, Sent, Shown
  <2>4. MasterConfirmed => MasterConfirmed'
    BY <1>4, <1>8
    DEF MasterConfirmed, MasterSent, Flying, Resting, Sent, Shown, ConfirmPdu, Value
  <2>5. SlaveComputes => SlaveComputes'
    BY <1>4, <1>6
    DEF SlaveComputes, MasterSent, Computes, Flying, Resting, Sent, Shown, Value
  <2>6. SlaveConfirmed => SlaveConfirmed'
    BY <1>4
    DEF SlaveConfirmed, BothSent, Flying, Resting, Sent, Shown, ConfirmPdu, Value
  <2>7. MasterRevealed => MasterRevealed'
    BY <1>4
    DEF MasterRevealed, BothSent, Flying, Resting, Sent, Shown, RandomPdu, Value
  <2>8. SlaveRevealed => SlaveRevealed'
    BY <1>4
    DEF SlaveRevealed, BothShown, BothSent, SlaveHasValues, Halves, Flying, Resting,
        Sent, Shown, RandomPdu, Value
  <2>9. MasterHasValues => MasterHasValues'
    BY <1>4
    DEF MasterHasValues, BothShown, BothSent, SlaveHasValues, KeyComputes, Halves,
        Flying, Resting, Sent, Shown, Value
  <2> QED
    BY <2>1, <2>2, <2>3, <2>4, <2>5, <2>6, <2>7, <2>8, <2>9 DEF Underway
<1> QED
  BY <1>4, <1>5, <1>6, <1>7, <1>9 DEF Pairing

LEMMA PairingAuth ==
    ASSUME PairInv, up, Pairing, Auth
    PROVE  Pairing'
<1>1. Silent /\ conn["master"] /\ authed' /\ PairArrays
  BY DEF Auth, Pairing, PairInv
<1>2. /\ air' = SendOn(TRUE, "master", <<RequestPdu>>, air)
      /\ UNCHANGED <<cb, conn, evts, key, confirmed, revealed>>
  BY DEF Auth, RequestPdu
<1>3. air'["master"] = <<>> /\ air'["slave"] = <<RequestPdu>>
  <2>1. Peer("master") = "slave" /\ "master" \in Host
    BY DEF Peer, Host
  <2>2. DOMAIN air = Host /\ air[Peer("master")] = <<>>
    BY <1>1, <2>1 DEF Silent, Flying, PairArrays
  <2>3. LET f == SendOn(TRUE, "master", <<RequestPdu>>, air)
        IN  f[Peer("master")] = <<RequestPdu>> /\ f["master"] = air["master"]
    BY <2>1, <2>2, Sending
  <2> QED
    BY <1>1, <1>2, <2>1, <2>3 DEF Silent, Flying
<1>4. Requested'
  BY <1>1, <1>2, <1>3 DEF Silent, Requested, Flying, Resting, NoneSent, Sent, Shown
<1> QED
  BY <1>1, <1>2, <1>4 DEF Pairing, Underway, In

-----------------------------------------------------------------------------
(* The keys are given: only key distribution is on the air.                *)
LEMMA KeyedSmp ==
    ASSUME PairInv, up, Keyed, NEW h \in Host, SmpHandler(h)
    PROVE  Keyed'
<1>1. UNCHANGED <<key, evts, authed>> /\ air[h] \in Seq({KeysPdu})
  BY DEF SmpHandler, Keyed
<1>2. air[h] # <<>> => Head(air[h]).code = "keys"
  <2>1. air[h] # <<>> => Head(air[h]) = KeysPdu
    BY <1>1
  <2> QED
    BY <2>1 DEF KeysPdu
<1>3. OtherCode(h)
  BY <1>2 DEF SmpHandler, PairingRequest, PairingResponse, PairingConfirm,
              PairingRandom, Receive
<1>4. /\ air' = Rest(h) /\ air[h] # <<>>
      /\ UNCHANGED <<smp_state, enc_state, rand, buf, cb, confirmed, revealed>>
  BY <1>3 DEF OtherCode, Receive
<1>5. \A g \in Host : air'[g] \in Seq({KeysPdu})
  <2>1. Tail(air[h]) \in Seq({KeysPdu})
    BY <1>1, <1>4
  <2> QED
    BY <1>4, <2>1 DEF Rest, PairInv, PairArrays, Keyed
<1>6. UNCHANGED LinkKey /\ BothShown'
  BY <1>4 DEF Keyed, LinkKey, BothShown, BothSent, Sent, Shown, Value
<1>7. (Asking => Asking') /\ (Answering => Answering') /\ (Answered => Answered')
  BY <1>1, <1>4
  DEF Asking, Answering, Answered, Resting, SlaveHasValues, KeyComputes, Halves,
      Once, In
<1> QED
  BY <1>1, <1>4, <1>5, <1>6, <1>7 DEF Keyed, Resting

LEMMA SlaveGivesKey ==
    ASSUME PairInv, up, Keyed, NEW h \in Host, EncCalCb(h)
    PROVE  Keyed'
<1>1. h = "slave" /\ Answering
  BY DEF EncCalCb, Keyed, Asking, Answered, Resting, Host
<1>2. PICK b \in cb["slave"] : cb["slave"] = {b} /\ Halves(b)
  BY <1>1 DEF Answering, KeyComputes
<1>3. Encrypted(CHOOSE x \in cb["slave"] : TRUE) = LinkKey
  <2>1. (CHOOSE x \in cb["slave"] : TRUE) = b
    BY <1>2
  <2> QED
    BY <1>2, <2>1, KeyFromHalves
<1>4. /\ cb' = Set(cb, "slave", {}) /\ GiveKey("slave", LinkKey, evts)
      /\ UNCHANGED <<air, confirmed, rand, authed, revealed>>
  <2>1. enc_state["slave"] = "STK"
    BY <1>1 DEF Answering, KeyComputes
  <2> QED
    BY <1>1, <1>3, <2>1 DEF EncCalCb
<1>5. /\ cb'["slave"] = {} /\ cb'["master"] = {} /\ evts' = evts
      /\ \A g \in Host : key'[g] \subseteq {LinkKey}
  BY <1>4 DEF GiveKey, Set, PairInv, PairArrays, Host, Keyed, Resting
<1>6. UNCHANGED LinkKey /\ BothShown'
  BY <1>4 DEF Keyed, LinkKey, BothShown, BothSent, Sent, Shown, Value
<1>7. Answered'
  BY <1>1, <1>5 DEF Answering, Answered, Resting, In
<1> QED
  BY <1>4, <1>5, <1>6, <1>7 DEF Keyed, Resting

(* Of the events of a host without the first.                              *)
LEMMA OnceTail ==
    ASSUME NEW e, NEW s \in Seq(Event), s # <<>>, Once(e, s)
    PROVE  Once(e, Tail(s)) /\ (Head(s) = e => ~In(e, Tail(s)))
<1>1. /\ Len(s) \in Nat \ {0} /\ Head(s) = s[1] /\ Len(Tail(s)) = Len(s) - 1
      /\ \A i \in 1 .. Len(s) - 1 : Tail(s)[i] = s[i + 1]
  BY EmptySeq
<1> DEFINE r == Tail(s)
           n == Len(s)
<1>2. /\ n \in Nat \ {0} /\ Len(r) = n - 1
      /\ \A i \in 1 .. n - 1 : i + 1 \in 1 .. n /\ r[i] = s[i + 1]
  BY <1>1
<1>3. \A i, j \in 1 .. n : s[i] = e /\ s[j] = e => i = j
  BY DEF Once
<1> HIDE DEF r, n
<1>4. Once(e, r)
  <2> SUFFICES ASSUME NEW i \in 1 .. n - 1, NEW j \in 1 .. n - 1, r[i] = e, r[j] = e
               PROVE  i = j
    BY <1>2 DEF Once
  <2>1. i + 1 = j + 1
    BY <1>2, <1>3
  <2> QED
    BY <2>1
<1>5. s[1] = e => ~In(e, r)
  <2> SUFFICES ASSUME s[1] = e, NEW i \in 1 .. n - 1, r[i] = e PROVE FALSE
    BY <1>2 DEF In
  <2>1. i + 1 = 1
    BY <1>2, <1>3
  <2> QED
    BY <2>1
<1> QED
  BY <1>1, <1>4, <1>5 DEF r

(* The master handles its event, or the slave another than that its key is *)
(* asked for; key distribution may be sent.                                *)
LEMMA KeyedEvents ==
    ASSUME PairInv, up, Keyed, NEW h \in Host, evts[h] # <<>>, evts' = Later(h),
           UNCHANGED <<enc_state, cb, key, rand, buf, authed, confirmed, revealed>>,
           smp_state'["slave"] \in {smp_state["slave"], "IDLE"},
           smp_state["slave"] = "RAND_RSP" => smp_state'["slave"] = smp_state["slave"],
           \A g \in Host : air'[g] \in Seq({KeysPdu})
    PROVE  Keyed'
<1>1. /\ evts["slave"] \in Seq(Event) /\ EventsOK(evts["slave"])
      /\ evts["slave"] = <<>> => h # "slave"
  BY DEF PairInv, FlagInv, EventsOK, Host
<1>2. \/ evts'["slave"] = evts["slave"]
      \/ evts["slave"] # <<>> /\ evts'["slave"] = Tail(evts["slave"])
  BY <1>1 DEF Later, PairInv, PairArrays, Host
<1>3. /\ ~In("ltk_request", evts["slave"]) => ~In("ltk_request", evts'["slave"])
      /\ Once("ltk_request", evts["slave"]) => Once("ltk_request", evts'["slave"])
  BY <1>1, <1>2, EventTail, OnceTail
<1>4. UNCHANGED LinkKey /\ BothShown'
  BY DEF Keyed, LinkKey, BothShown, BothSent, Sent, Shown, Value
<1>5. Asking => Asking'
  BY <1>3 DEF Asking, Resting, SlaveHasValues, Halves, Once
<1>6. Answering => Answering'
  BY <1>3 DEF Answering, KeyComputes, Halves, In
<1>7. Answered => Answered'
  BY <1>3 DEF Answered, Resting, In
<1> QED
  BY <1>4, <1>5, <1>6, <1>7 DEF Keyed, Resting

LEMMA KeyedHci ==
    ASSUME PairInv, up, Keyed, NEW h \in Host, HciEvent(h)
    PROVE  Keyed'
<1>1. /\ evts[h] # <<>> /\ UNCHANGED <<rand, buf, authed, confirmed, revealed>>
      /\ \A g \in Host : air[g] \in Seq({KeysPdu})
  BY DEF HciEvent, Connected, Disconnected, LtkRequest, EncryptChange, NextEvent,
         histVars, Keyed
<1>2. CASE Connected(h) \/ Disconnected(h)
  <2>1. evts' = Later(h) /\ UNCHANGED <<smp_state, enc_state, cb, key, air>>
    BY <1>2 DEF Connected, Disconnected
  <2> QED
    BY <1>1, <2>1, KeyedEvents
<1>3. CASE EncryptChange(h)
  <2>1. /\ evts' = Later(h) /\ UNCHANGED <<enc_state, cb, key>>
        /\ \/ UNCHANGED <<smp_state, air>>
           \/ /\ smp_state[h] = "LTK_RSP" /\ smp_state' = Set(smp_state, h, "IDLE")
              /\ air' = SendOn(conn[h], h, <<KeysPdu, KeysPdu>>, air)
    BY <1>3 DEF EncryptChange, KeysPdu
  <2>2. /\ smp_state'["slave"] \in {smp_state["slave"], "IDLE"}
        /\ smp_state["slave"] = "RAND_RSP" => smp_state'["slave"] = smp_state["slave"]
    BY <2>1 DEF Set, PairInv, PairArrays, Host
  <2>3. \A g \in Host : air'[g] \in Seq({KeysPdu})
    <3>1. ASSUME NEW g \in Host PROVE air[g] \o <<KeysPdu, KeysPdu>> \in Seq({KeysPdu})
      BY <1>1
    <3>2. DOMAIN air = Host
      BY DEF PairInv, PairArrays
    <3> QED
      BY <1>1, <2>1, <3>1, <3>2 DEF SendOn
  <2> QED
    BY <1>1, <2>1, <2>2, <2>3, KeyedEvents
<1>4. CASE LtkRequest(h)
  <2>1. Head(evts[h]) = "ltk_request" /\ evts[h] \in Seq(Event)
    BY <1>4 DEF LtkRequest, NextEvent, PairInv, FlagInv, EventsOK
  <2>2. In("ltk_request", evts[h])
    <3>1. Len(evts[h]) \in Nat \ {0} /\ evts[h][1] = "ltk_request"
      BY <1>1, <2>1, EmptySeq
    <3> QED
      BY <3>1 DEF In
  <2>3. h = "slave" /\ Asking
    BY <2>2 DEF PairInv, KeysInv, Keyed, Answering, Answered, Host
  <2>4. /\ enc_state' = Set(enc_state, h, "STK") /\ Encrypt(h, buf[h])
        /\ evts' = Later(h) /\ UNCHANGED <<key, air>>
    BY <1>4, <2>3 DEF LtkRequest, Asking, SlaveHasValues
  <2>5. ~In("ltk_request", evts'["slave"])
    <3>1. ~In("ltk_request", Tail(evts["slave"]))
      BY <1>1, <2>1, <2>3, OnceTail DEF Asking
    <3> QED
      BY <2>3, <2>4, <3>1 DEF Later, PairInv, PairArrays
  <2>6. /\ cb'["slave"] = {buf["slave"]} /\ cb'["master"] = cb["master"]
        /\ enc_state'["slave"] = "STK" /\ Halves(buf["slave"])
    BY <2>3, <2>4
    DEF Encrypt, Set, Asking, Resting, SlaveHasValues, PairInv, PairArrays, Host
  <2>7. UNCHANGED LinkKey /\ BothShown'
    BY <1>1 DEF Keyed, LinkKey, BothShown, BothSent, Sent, Shown, Value
  <2>8. Answering'
    BY <1>1, <2>3, <2>4, <2>5, <2>6 DEF Answering, KeyComputes, Halves, Asking, In
  <2> QED
    BY <1>1, <2>4, <2>6, <2>7, <2>8 DEF Keyed, Resting
<1> QED
  BY <1>2, <1>3, <1>4 DEF HciEvent

LEMMA KeyedStart ==
    ASSUME PairInv, Keyed, StartEncryption
    PROVE  Keyed'
<1>1. /\ key["slave"] # {} /\ evts'["slave"] = Append(evts["slave"], "enc_change")
      /\ UNCHANGED <<cb, key, rand, authed, confirmed, revealed, air>>
      /\ evts["slave"] \in Seq(Event)
  BY DEF StartEncryption, hostVars, histVars, PairInv, PairArrays, FlagInv, EventsOK, Host
<1>2. Answered
  BY <1>1 DEF Keyed, Asking, Answering
<1>3. ~In("ltk_request", evts'["slave"])
  <2>1. ~In("ltk_request", Append(evts["slave"], "enc_change"))
    BY <1>1, <1>2, EventAdded DEF Answered, Event
  <2> QED
    BY <1>1, <2>1
<1>4. Answered'
  BY <1>1, <1>2, <1>3 DEF Answered, Resting, In
<1>5. UNCHANGED LinkKey /\ BothShown'
  BY <1>1 DEF Keyed, LinkKey, BothShown, BothSent, Sent, Shown, Value
<1> QED
  BY <1>1, <1>4, <1>5 DEF Keyed, Resting

-----------------------------------------------------------------------------
LEMMA PhaseNewLink ==
    ASSUME PairInv, LinkUp, ~carried'
    PROVE  Silent' /\ Pairing'
<1>1. /\ UNCHANGED cb /\ cb["master"] = {} /\ cb["slave"] = {}
      /\ air' = air /\ air["master"] = <<>> /\ air["slave"] = <<>>
      /\ ~authed' /\ evts'["slave"] = <<"connected">>
      /\ \A h \in Host : confirmed'[h] = {} /\ revealed'[h] = {} /\ key'[h] = {}
  BY DEF LinkUp, hostVars, Host
<1>2. ~In("ltk_request", <<"connected">>)
  BY DEF In
<1>3. Silent'
  BY <1>1 DEF Silent, Flying, Resting, NoneSent, Sent, Shown, Host
<1> QED
  BY <1>1, <1>2, <1>3 DEF Pairing, Host, In

LEMMA PhaseKept == PairInv /\ [Next]_vars => PhaseInv'
<1> SUFFICES ASSUME PairInv, [Next]_vars, up', ~carried' PROVE Pairing' \/ Keyed'
  BY DEF PhaseInv
<1>1. CASE LinkUp
  BY <1>1, PhaseNewLink
<1>2. CASE LinkLoss
  BY <1>2 DEF LinkLoss
<1>3. ASSUME up, ~carried PROVE Pairing \/ Keyed
  BY <1>3 DEF PairInv, PhaseInv
<1>4. CASE Auth
  <2>1. up /\ ~carried /\ ~authed
    BY <1>4 DEF Auth
  <2> QED
    BY <1>3, <1>4, <2>1, PairingAuth DEF Keyed
<1>5. ASSUME NEW h \in Host, SmpHandler(h) PROVE Pairing' \/ Keyed'
  <2>1. up /\ ~carried
    BY <1>5 DEF SmpHandler
  <2> QED
    BY <1>3, <1>5, <2>1, PairingSmp, KeyedSmp
<1>6. ASSUME NEW h \in Host, EncCalCb(h) PROVE Pairing' \/ Keyed'
  <2>1. up /\ ~carried
    BY <1>6 DEF EncCalCb
  <2> QED
    BY <1>3, <1>6, <2>1, PairingEnc, SlaveGivesKey
<1>7. ASSUME NEW h \in Host, HciEvent(h) PROVE Pairing' \/ Keyed'
  <2>1. up /\ ~carried
    BY <1>7 DEF HciEvent, histVars
  <2> QED
    BY <1>3, <1>7, <2>1, PairingHci, KeyedHci
<1>8. CASE StartEncryption
  <2>1. up /\ ~carried /\ key["master"] # {}
    BY <1>8 DEF StartEncryption, histVars
  <2> QED
    BY <1>3, <1>8, <2>1, KeyedStart DEF Pairing
<1>9. CASE UNCHANGED vars
  <2>1. UNCHANGED <<smp_state, enc_state, rand, buf, cb, conn, air, evts, up, key,
                    authed, carried, confirmed, revealed>>
    BY <1>9 DEF vars, hostVars, linkVars, histVars
  <2> QED
    BY <1>3, <2>1
    DEF Pairing, Silent, Underway, Requested, Responded, MasterComputes,
        MasterConfirmed, SlaveComputes, SlaveConfirmed, MasterRevealed,
        SlaveRevealed, MasterHasValues, Keyed, Asking, Answering, Answered,
        Waits, Computes, KeyComputes, NoneSent, MasterSent, BothSent, BothShown,
        SlaveHasValues, Halves, LinkKey, Value, Flying, Sent, Shown, Resting,
        ConfirmPdu, RandomPdu, In, Once
<1> QED
  BY <1>1, <1>2, <1>4, <1>5, <1>6, <1>7, <1>8, <1>9 DEF Next

(* Wherever the pairing is, only what was confirmed is revealed, and the   *)
(* keys are those of the values revealed.                                  *)
LEMMA PhaseSafe ==
    /\ Pairing \/ Keyed => RevealedAsConfirmed /\ KeyOfThisPairing
    /\ (Pairing \/ Keyed => RevealedAsConfirmed /\ KeyOfThisPairing)'
<1>1. Pairing \/ Keyed => RevealedAsConfirmed /\ KeyOfThisPairing
  <2>1. NoneSent => RevealedAsConfirmed
    BY DEF NoneSent, Shown, RevealedAsConfirmed, Host
  <2>2. MasterSent => RevealedAsConfirmed
    BY DEF MasterSent, Shown, RevealedAsConfirmed, Host
  <2>3. BothSent /\ Shown({}, {}) => RevealedAsConfirmed
    BY DEF Shown, RevealedAsConfirmed, Host
  <2>4. BothSent /\ Shown({rand["master"]}, {}) => RevealedAsConfirmed
    BY DEF BothSent, Sent, Shown, Value, RevealedAsConfirmed, Host, Peer
  <2>5. BothShown => RevealedAsConfirmed
    BY DEF BothShown, BothSent, Sent, Shown, Value, RevealedAsConfirmed, Host, Peer
  <2>6. Pairing => RevealedAsConfirmed
    BY <2>1, <2>2, <2>3, <2>4, <2>5
    DEF Pairing, Silent, Underway, Requested, Responded, MasterComputes,
        MasterConfirmed, SlaveComputes, SlaveConfirmed, MasterRevealed,
        SlaveRevealed, MasterHasValues
  <2>7. Pairing => KeyOfThisPairing
    BY DEF Pairing, KeyOfThisPairing, Host
  <2>8. Keyed => RevealedAsConfirmed
    BY <2>5 DEF Keyed
  <2>9. Keyed => KeyOfThisPairing
    BY DEF Keyed, BothShown, Shown, LinkKey, KeyOfThisPairing, Host
  <2> QED
    BY <2>6, <2>7, <2>8, <2>9
<1>2. (Pairing \/ Keyed => RevealedAsConfirmed /\ KeyOfThisPairing)'
  BY <1>1, PTL
<1> QED
  BY <1>1, <1>2

(* A link that is gone leaves nothing to confirm, to reveal or to encrypt. *)
LEMMA FrozenWhenDown ==
    ASSUME PairInv, [Next]_vars, ~up'
    PROVE  UNCHANGED <<key, confirmed, revealed, carried>>
<1>1. CASE Auth
  BY <1>1 DEF Auth
<1>2. ASSUME NEW h \in Host, SmpHandler(h)
      PROVE  UNCHANGED <<key, confirmed, revealed, carried>>
  BY <1>2 DEF SmpHandler, PairingRequest, PairingResponse, PairingConfirm,
              PairingRandom, OtherCode, SendConfirm, SendRandom
<1>3. ASSUME NEW h \in Host, EncCalCb(h)
      PROVE  UNCHANGED <<key, confirmed, revealed, carried>>
  BY <1>3 DEF EncCalCb, ConfirmReady, SendConfirm, GiveKey
<1>4. ASSUME NEW h \in Host, HciEvent(h)
      PROVE  UNCHANGED <<key, confirmed, revealed, carried>>
  BY <1>4 DEF HciEvent, histVars, Connected, Disconnected, LtkRequest, EncryptChange,
              GiveKey
<1>5. CASE LinkUp
  BY <1>5 DEF LinkUp
<1>6. CASE LinkLoss
  BY <1>6 DEF LinkLoss, histVars
<1>7. CASE StartEncryption
  BY <1>7 DEF StartEncryption
<1>8. CASE UNCHANGED vars
  BY <1>8 DEF vars, linkVars, histVars
<1> QED
  BY <1>1, <1>2, <1>3, <1>4, <1>5, <1>6, <1>7, <1>8 DEF Next

LEMMA StepPairInv == PairInv /\ [Next]_vars => PairInv'
<1> SUFFICES ASSUME PairInv, [Next]_vars PROVE PairInv'
  OBVIOUS
<1>1. FlagInv' /\ PairArrays' /\ KeysInv' /\ PhaseInv'
  BY StepFlagInv, ArraysKept, KeysKept, PhaseKept DEF PairInv
<1>2. (RevealedAsConfirmed /\ KeyOfThisPairing)'
  <2>1. CASE carried'
    BY <2>1 DEF RevealedAsConfirmed, KeyOfThisPairing
  <2>2. CASE up' /\ ~carried'
    BY <1>1, <2>2, PhaseSafe DEF PhaseInv
  <2>3. CASE ~up'
    <3>1. UNCHANGED <<key, confirmed, revealed, carried>>
      BY <2>3, FrozenWhenDown
    <3> QED
      BY <3>1 DEF PairInv, RevealedAsConfirmed, KeyOfThisPairing
  <2> QED
    BY <2>1, <2>2, <2>3
<1> QED
  BY <1>1, <1>2 DEF PairInv

LEMMA InitPairInv == Init => PairInv
<1> SUFFICES ASSUME Init PROVE PairInv
  OBVIOUS
<1>1. up = FALSE /\ secured = FALSE /\ evts["master"] = <<>>
  BY DEF Init, Host
<1>2. \A h \in Host : revealed[h] = {} /\ key[h] = {}
  BY DEF Init
<1>3. PairArrays
  <2>1. DOMAIN Twice("packets", 0) = {1, 2}
    BY DEF Twice
  <2> QED
    BY <2>1 DEF Init, PairArrays
<1>4. ~In("ltk_request", <<>>)
  BY DEF In
<1> QED
  BY <1>1, <1>2, <1>3, <1>4, InitFlagInv
  DEF PairInv, KeysInv, PhaseInv, RevealedAsConfirmed, KeyOfThisPairing

LEMMA InvariantPairInv == Spec => []PairInv
BY InitPairInv, StepPairInv, PTL DEF Spec

(* On a link that begins with no encryption unanswered a host reveals its  *)
(* random value only when both have sent their confirm values, and reveals *)
(* the value that its own was computed from, whatever the order in which   *)
(* packets arrive and the controllers answer (eb_smp.c:89-102, 164-196).   *)
THEOREM RevealsTheConfirmed == Spec => []RevealedAsConfirmed
<1>1. PairInv => RevealedAsConfirmed
  BY DEF PairInv
<1> QED
  BY <1>1, InvariantPairInv, PTL

(* Such a link is given no key but that of the random values exchanged on  *)
(* it, whatever state former links left behind (eb_smp.c:60-63, 103-115,   *)
(* 202-212).                                                               *)
THEOREM KeysOfThisPairing == Spec => []KeyOfThisPairing
<1>1. PairInv => KeyOfThisPairing
  BY DEF PairInv
<1> QED
  BY <1>1, InvariantPairInv, PTL

=============================================================================
