-------------------------- MODULE EdenFriends_proofs --------------------------
(***************************************************************************)
(* Proofs about EdenFriends: types, consent to every friendship, and the   *)
(* agreement of the file with the list.                                    *)
(***************************************************************************)
EXTENDS EdenFriends, TLAPS

\* n asked or accepted p, or one of them answered his own request.
Willing(n, p) == p \in asked[n] \/ AnsweredHimself(n, p)

\* What the status of n's entry for p, and a signal, say about who asked.
StatusConsent(n, p, status) ==
    /\ status = "Pending_Sent" => p \in asked[n]
    /\ status = "Confirmed" => Willing(n, p)
    /\ status \in {"Pending_Received", "Confirmed"} => Willing(p, n)

SignalConsent(m) ==
    /\ m.type \in {"REQUEST", "ACCEPT"} => m.to \in asked[m.from]
    /\ m.type = "ACCEPT" => Willing(m.to, m.from)

\* The four places a status or a signal is kept in.
ListConsent == \A n, p \in Nodes : StatusConsent(n, p, friends[n][p])
FileConsent == \A n, p \in Nodes : file[n] # Torn => StatusConsent(n, p, file[n][p])
CallConsent ==
    \A n \in Nodes :
        /\ call[n].step = "decide" => Willing(call[n].peer, n)
        /\ call[n].step \in {"save", "write"} => SignalConsent(call[n].signal)
WireConsent == \A m \in Signal : signals[m] > 0 => SignalConsent(m)

Consent == ListConsent /\ FileConsent /\ CallConsent /\ WireConsent

\* Nothing due: no save going on, waiting, or to come from the game's call.
Quiet(n) == ~ Locked(n) /\ saves[n] = 0 /\ call[n].step # "save"

\* A list that is up equals the file; one that is not loaded yet has no entry
\* the file lacks; a process that is down holds nothing.
StowedAt(n) ==
    /\ phase[n] = "up" /\ Quiet(n) => Stored(file[n]) = friends[n]
    /\ phase[n] = "starting" => call[n] = Idle
    /\ phase[n] = "starting" /\ Quiet(n) =>
          \A p \in Nodes : friends[n][p] # "none" => Stored(file[n])[p] # "none"
    /\ phase[n] = "down" =>
          friends[n] = Empty /\ call[n] = Idle /\ saves[n] = 0 /\ ~ writing[n]

Stowed == \A n \in Nodes : StowedAt(n)

-----------------------------------------------------------------------------

\* The shapes of a call, by its step.
LEMMA CallShapes ==
    ASSUME NEW c \in Call
    PROVE  /\ c.step \in {"idle", "decide", "save", "write"}
           /\ c.step = "idle" => c = Idle
           /\ c.step = "decide" => c.peer \in Nodes /\ c.accept \in BOOLEAN
           /\ c.step \in {"save", "write"} =>
                 c.signal \in Signal /\ [step |-> "write", signal |-> c.signal] \in Call
  BY DEF Call, Idle

LEMMA StoredType ==
    ASSUME NEW f \in List \cup {Torn}
    PROVE  Stored(f) \in List
  BY DEF Stored, List, Empty, Status

LEMMA ReceivedType ==
    ASSUME NEW type \in {"REQUEST", "ACCEPT", "REJECT"}, NEW status \in Status
    PROVE  Received(type, status) \in Status
  BY DEF Received, Status

LEMMA InitType == Init => TypeOK
<1>1. Idle \in Call /\ Empty \in List
  BY DEF Call, Empty, List, Status
<1>2. Init => phase \in [Nodes -> {"down", "starting", "up"}] /\ lost \in BOOLEAN
  BY DEF Init
<1>3. Init => friends \in [Nodes -> List] /\ file \in [Nodes -> List \cup {Torn}]
  BY <1>1 DEF Init
<1>4. Init => call \in [Nodes -> Call]
  BY <1>1 DEF Init
<1>5. Init => /\ saves \in [Nodes -> Nat] /\ writing \in [Nodes -> BOOLEAN]
              /\ signals \in [Signal -> Nat] /\ asked \in [Nodes -> SUBSET Nodes]
              /\ stray \in [Nodes -> SUBSET Nodes]
              /\ asks \in Nat /\ answers \in Nat /\ crashes \in Nat
  BY DEF Init
<1> QED BY <1>2, <1>3, <1>4, <1>5 DEF TypeOK

LEMMA NextType == TypeOK /\ [Next]_vars => TypeOK'
<1> SUFFICES ASSUME TypeOK, [Next]_vars PROVE TypeOK'
    OBVIOUS
<1>1. ASSUME NEW n \in Nodes, NEW p \in Nodes, AddFriendByCode(n, p) PROVE TypeOK'
  <2>1. [step |-> "save", signal |-> [from |-> n, to |-> p, type |-> "REQUEST"]] \in Call
    BY DEF Call, Signal
  <2> QED BY <1>1, <2>1 DEF AddFriendByCode, TypeOK, List, Status
<1>2. ASSUME NEW n \in Nodes, NEW p \in Nodes, FindRequest(n, p) PROVE TypeOK'
  <2>1. \A b \in BOOLEAN : [step |-> "decide", peer |-> p, accept |-> b] \in Call
    BY DEF Call
  <2> QED BY <1>2, <2>1 DEF FindRequest, TypeOK
<1>3. ASSUME NEW n \in Nodes, RespondToFriendRequest(n) PROVE TypeOK'
  <2>1. call[n].peer \in Nodes
    BY <1>3, CallShapes DEF RespondToFriendRequest, TypeOK
  <2>2. \A t \in {"ACCEPT", "REJECT"} :
          [step |-> "save", signal |-> [from |-> n, to |-> call[n].peer, type |-> t]] \in Call
    BY <2>1 DEF Call, Signal
  <2> QED BY <1>3, <2>1, <2>2 DEF RespondToFriendRequest, TypeOK, List, Status
<1>4. ASSUME NEW n \in Nodes, StartWrite(n) PROVE TypeOK'
  <2>1. call[n].step = "save" => [step |-> "write", signal |-> call[n].signal] \in Call
    BY CallShapes DEF TypeOK
  <2>2. call' \in [Nodes -> Call]
    <3>1. call \in [Nodes -> Call]
      BY DEF TypeOK
    <3>2. \/ UNCHANGED call
          \/ /\ call[n].step = "save"
             /\ call' = [call EXCEPT ![n] = [step |-> "write", signal |-> call[n].signal]]
      BY <1>4 DEF StartWrite
    <3>3. ASSUME NEW c \in Call PROVE [call EXCEPT ![n] = c] \in [Nodes -> Call]
      BY <3>1
    <3> QED BY <2>1, <3>1, <3>2, <3>3
  <2>3. /\ saves' \in [Nodes -> Nat]
        /\ writing' \in [Nodes -> BOOLEAN]
    <3>1. /\ saves \in [Nodes -> Nat]
          /\ writing \in [Nodes -> BOOLEAN]
      BY DEF TypeOK
    <3>2. \/ UNCHANGED <<saves, writing>>
          \/ /\ saves[n] > 0
             /\ saves' = [saves EXCEPT ![n] = @ - 1]
             /\ writing' = [writing EXCEPT ![n] = TRUE]
      BY <1>4 DEF StartWrite
    <3>3. saves[n] > 0 => saves[n] - 1 \in Nat
      BY <3>1
    <3> QED BY <3>1, <3>2, <3>3
  <2>4. file' \in [Nodes -> List \cup {Torn}]
    BY <1>4 DEF StartWrite, TypeOK
  <2> QED BY <1>4, <2>2, <2>3, <2>4 DEF StartWrite, history, TypeOK
<1>5. ASSUME NEW n \in Nodes, EndWrite(n) PROVE TypeOK'
  <2>1. Idle \in Call /\ (call[n].step = "write" => call[n].signal \in Signal)
    BY CallShapes DEF TypeOK, Call
  <2> QED BY <1>5, <2>1 DEF EndWrite, history, TypeOK
<1>6. ASSUME NEW n \in Nodes, Crash(n) \/ Start(n) \/ LoadFriends(n) PROVE TypeOK'
  <2>1. Idle \in Call /\ Empty \in List
    BY DEF Call, List, Empty, Status
  <2>2. CASE Crash(n) BY <2>2, <2>1 DEF Crash, TypeOK
  <2>3. CASE Start(n) BY <2>3 DEF Start, history, TypeOK
  <2>4. CASE LoadFriends(n)
    <3>1. Stored(file[n]) \in List BY StoredType DEF TypeOK
    <3>2. Merged(friends[n], file[n]) \in List
      BY <3>1 DEF Merged, TypeOK, List
    <3> QED BY <2>4, <3>2 DEF LoadFriends, history, TypeOK
  <2> QED BY <1>6, <2>2, <2>3, <2>4
<1>7. ASSUME NEW m \in Signal, HandleFriendStream(m) PROVE TypeOK'
  <2>1. m.from \in Nodes /\ m.to \in Nodes /\ m.type \in {"REQUEST", "ACCEPT", "REJECT"}
    BY DEF Signal
  <2>2. friends[m.to][m.from] \in Status
    BY <2>1 DEF TypeOK, List
  <2>3. Received(m.type, friends[m.to][m.from]) \in Status
    BY <2>1, <2>2, ReceivedType
  <2> QED BY <1>7, <2>1, <2>3 DEF HandleFriendStream, SavesAfter, TypeOK, List, history
<1>8. ASSUME NEW m \in Signal, Lose(m) PROVE TypeOK'
  BY <1>8 DEF Lose, TypeOK
<1>9. CASE UNCHANGED vars
  BY <1>9 DEF vars, history, TypeOK
<1> QED BY <1>1, <1>2, <1>3, <1>4, <1>5, <1>6, <1>7, <1>8, <1>9 DEF Next

\* Every variable keeps its type.
THEOREM TypeCorrect == Spec => []TypeOK
  BY InitType, NextType, PTL DEF Spec

-----------------------------------------------------------------------------
(* Consent.  The players who asked only grow in number, so a fact about    *)
(* consent outlives every step; what a step writes is looked at by itself. *)

LEMMA StrayGrows ==
    ASSUME TypeOK, [Next]_vars
    PROVE  \A n \in Nodes : stray[n] \subseteq stray'[n]
<1>1. ASSUME NEW n \in Nodes, NEW p \in Nodes, FindRequest(n, p)
      PROVE  \A q \in Nodes : stray[q] \subseteq stray'[q]
  BY <1>1 DEF FindRequest, TypeOK
<1>2. ASSUME UNCHANGED stray
      PROVE  \A q \in Nodes : stray[q] \subseteq stray'[q]
  BY <1>2
<1> QED BY <1>1, <1>2 DEF Next, AddFriendByCode, RespondToFriendRequest, StartWrite,
        EndWrite, Crash, Start, LoadFriends, HandleFriendStream, Lose, vars, history

LEMMA AskedGrows ==
    ASSUME TypeOK, [Next]_vars
    PROVE  \A n \in Nodes : asked[n] \subseteq asked'[n]
<1>1. ASSUME NEW n \in Nodes, NEW p \in Nodes, AddFriendByCode(n, p)
      PROVE  \A q \in Nodes : asked[q] \subseteq asked'[q]
  BY <1>1 DEF AddFriendByCode, TypeOK
<1>2. ASSUME NEW n \in Nodes, RespondToFriendRequest(n)
      PROVE  \A q \in Nodes : asked[q] \subseteq asked'[q]
  BY <1>2 DEF RespondToFriendRequest, TypeOK
<1>3. ASSUME UNCHANGED asked
      PROVE  \A q \in Nodes : asked[q] \subseteq asked'[q]
  BY <1>3
<1> QED BY <1>1, <1>2, <1>3 DEF Next, FindRequest, StartWrite, EndWrite, Crash, Start,
        LoadFriends, HandleFriendStream, Lose, vars, history

LEMMA WillingGrows ==
    ASSUME TypeOK, [Next]_vars, NEW n \in Nodes, NEW p \in Nodes, Willing(n, p)
    PROVE  Willing(n, p)'
  BY AskedGrows, StrayGrows DEF Willing, AnsweredHimself

\* Where nothing is asked and nothing is found, willing says the same.
LEMMA WillingSame ==
    ASSUME UNCHANGED <<asked, stray>>, NEW n, NEW p
    PROVE  Willing(n, p)' <=> Willing(n, p)
  BY DEF Willing, AnsweredHimself

LEMMA ConsentGrows ==
    ASSUME TypeOK, [Next]_vars
    PROVE  /\ \A n, p \in Nodes, status \in Status :
                 StatusConsent(n, p, status) => StatusConsent(n, p, status)'
           /\ \A m \in Signal : SignalConsent(m) => SignalConsent(m)'
<1>1. \A n \in Nodes : asked[n] \subseteq asked'[n]
  BY AskedGrows
<1>2. ASSUME NEW n \in Nodes, NEW p \in Nodes, NEW status \in Status,
             StatusConsent(n, p, status)
      PROVE  StatusConsent(n, p, status)'
  BY <1>1, <1>2, WillingGrows DEF StatusConsent
<1>3. ASSUME NEW m \in Signal, SignalConsent(m)
      PROVE  SignalConsent(m)'
  <2>1. m.to \in Nodes /\ m.from \in Nodes
    BY DEF Signal
  <2> QED BY <1>1, <1>3, <2>1, WillingGrows DEF SignalConsent
<1> QED BY <1>2, <1>3

LEMMA InitConsent == Init => Consent
<1> SUFFICES ASSUME Init PROVE Consent
    OBVIOUS
<1>1. \A n, p \in Nodes : StatusConsent(n, p, "none")
  BY DEF StatusConsent
<1>2. \A n, p \in Nodes : friends[n][p] = "none" /\ file[n][p] = "none"
  BY DEF Init, Empty
<1>3. \A n \in Nodes : call[n].step = "idle"
  BY DEF Init, Idle
<1> QED BY <1>1, <1>2, <1>3 DEF Init, Consent, ListConsent, FileConsent, CallConsent, WireConsent

\* A step keeps the consent behind every entry of the lists.
LEMMA ListConsentKept ==
    ASSUME TypeOK, [Next]_vars, Consent
    PROVE  ListConsent'
<1> SUFFICES ASSUME NEW n \in Nodes, NEW p \in Nodes
             PROVE  StatusConsent(n, p, friends[n][p])'
    BY DEF ListConsent
<1> DEFINE old == friends[n][p]
           new == friends'[n][p]
<1>1. StatusConsent(n, p, old) /\ old \in Status
  BY DEF Consent, ListConsent, TypeOK, List
<1>2. CASE new = old
  BY <1>1, <1>2, ConsentGrows DEF StatusConsent
<1>3. CASE new = "none"
  BY <1>3 DEF StatusConsent
<1>4. ASSUME NEW m \in Nodes, NEW q \in Nodes, AddFriendByCode(m, q)
      PROVE  StatusConsent(n, p, friends[n][p])'
  <2>1. CASE m = n /\ q = p
    <3>1. new = "Pending_Sent" /\ p \in asked'[n]
      BY <1>4, <2>1 DEF AddFriendByCode, TypeOK, List
    <3> QED BY <3>1 DEF StatusConsent
  <2>2. CASE ~ (m = n /\ q = p)
    BY <1>2, <1>4, <2>2 DEF AddFriendByCode, TypeOK, List
  <2> QED BY <2>1, <2>2
<1>5. ASSUME NEW m \in Nodes, RespondToFriendRequest(m)
      PROVE  StatusConsent(n, p, friends[n][p])'
  <2>1. call[m].peer \in Nodes /\ Willing(call[m].peer, m)
    BY <1>5, CallShapes DEF RespondToFriendRequest, TypeOK, Consent, CallConsent
  <2>2. CASE m = n /\ call[m].peer = p /\ call[m].accept
    <3>1. new = "Confirmed" /\ p \in asked'[n]
      BY <1>5, <2>1, <2>2 DEF RespondToFriendRequest, TypeOK, List
    <3>2. Willing(p, n)'
      BY <2>1, <2>2, WillingGrows
    <3> QED BY <3>1, <3>2 DEF StatusConsent, Willing
  <2>3. CASE ~ (m = n /\ call[m].peer = p)
    BY <1>2, <1>5, <2>3 DEF RespondToFriendRequest, TypeOK, List
  <2>4. CASE m = n /\ call[m].peer = p /\ ~ call[m].accept
    BY <1>3, <1>5, <2>1, <2>4 DEF RespondToFriendRequest, TypeOK, List
  <2> QED BY <2>2, <2>3, <2>4
<1>6. ASSUME NEW m \in Signal, HandleFriendStream(m)
      PROVE  StatusConsent(n, p, friends[n][p])'
  <2>1. /\ m.from \in Nodes /\ m.to \in Nodes
        /\ m.type \in {"REQUEST", "ACCEPT", "REJECT"}
    BY DEF Signal
  <2>2. CASE ~ (m.to = n /\ m.from = p)
    BY <1>2, <1>6, <2>1, <2>2 DEF HandleFriendStream, TypeOK, List
  <2>3. CASE m.to = n /\ m.from = p
    <3>1. new = Received(m.type, old) /\ UNCHANGED <<asked, stray>>
      BY <1>6, <2>1, <2>3 DEF HandleFriendStream, history, TypeOK, List
    <3>2. SignalConsent(m)
      BY <1>6 DEF HandleFriendStream, Consent, WireConsent
    <3>3. StatusConsent(n, p, Received(m.type, old))
      BY <1>1, <2>1, <2>3, <3>2 DEF Received, StatusConsent, SignalConsent, Willing
    <3> QED BY <3>1, <3>3, WillingSame DEF StatusConsent
  <2> QED BY <2>2, <2>3
<1>7. ASSUME NEW m \in Nodes, Crash(m)
      PROVE  StatusConsent(n, p, friends[n][p])'
  <2>1. CASE m = n
    BY <1>3, <1>7, <2>1 DEF Crash, TypeOK, Empty
  <2>2. CASE m # n
    BY <1>2, <1>7, <2>2 DEF Crash, TypeOK
  <2> QED BY <2>1, <2>2
<1>8. ASSUME NEW m \in Nodes, LoadFriends(m)
      PROVE  StatusConsent(n, p, friends[n][p])'
  <2>1. CASE m # n
    BY <1>2, <1>8, <2>1 DEF LoadFriends, TypeOK
  <2>2. CASE m = n
    <3>1. new = Merged(friends[n], file[n])[p] /\ UNCHANGED <<asked, stray>>
      BY <1>8, <2>2 DEF LoadFriends, history, TypeOK
    <3>2. \/ new = old
          \/ file[n] # Torn /\ new = file[n][p]
      BY <3>1 DEF Merged, Stored, Empty
    <3>3. file[n] # Torn => StatusConsent(n, p, file[n][p])
      BY DEF Consent, FileConsent
    <3> QED BY <1>2, <3>1, <3>2, <3>3, WillingSame DEF StatusConsent
  <2> QED BY <2>1, <2>2
<1>9. ASSUME UNCHANGED friends
      PROVE  StatusConsent(n, p, friends[n][p])'
  BY <1>2, <1>9
<1> QED BY <1>4, <1>5, <1>6, <1>7, <1>8, <1>9
    DEF Next, FindRequest, StartWrite, EndWrite, Start, Lose, vars

\* A file is written from the list, so it says no more than the list.
LEMMA FileConsentKept ==
    ASSUME TypeOK, [Next]_vars, Consent
    PROVE  FileConsent'
<1> SUFFICES ASSUME NEW n \in Nodes, NEW p \in Nodes, file'[n] # Torn
             PROVE  StatusConsent(n, p, file[n][p])'
    BY DEF FileConsent
<1>1. CASE file'[n] = file[n]
  <2>1. StatusConsent(n, p, file[n][p]) /\ file[n][p] \in Status
    BY <1>1 DEF Consent, FileConsent, TypeOK, List
  <2> QED BY <1>1, <2>1, ConsentGrows DEF StatusConsent
<1>2. ASSUME NEW m \in Nodes, EndWrite(m)
      PROVE  StatusConsent(n, p, file[n][p])'
  <2>1. CASE m = n
    <3>1. file'[n] = friends[n] /\ UNCHANGED <<asked, stray>>
      BY <1>2, <2>1 DEF EndWrite, history, TypeOK
    <3>2. StatusConsent(n, p, friends[n][p])
      BY DEF Consent, ListConsent
    <3> QED BY <3>1, <3>2, WillingSame DEF StatusConsent
  <2>2. CASE m # n
    BY <1>1, <1>2, <2>2 DEF EndWrite, TypeOK
  <2> QED BY <2>1, <2>2
<1>3. ASSUME NEW m \in Nodes, StartWrite(m)
      PROVE  StatusConsent(n, p, file[n][p])'
  BY <1>1, <1>3 DEF StartWrite, TypeOK
<1>4. ASSUME UNCHANGED file
      PROVE  StatusConsent(n, p, file[n][p])'
  BY <1>1, <1>4
<1> QED BY <1>2, <1>3, <1>4
    DEF Next, AddFriendByCode, FindRequest, RespondToFriendRequest, Crash, Start,
        LoadFriends, HandleFriendStream, Lose, vars

\* A call and the signal it will send are backed by the players' consent.
LEMMA CallConsentKept ==
    ASSUME TypeOK, [Next]_vars, Consent
    PROVE  CallConsent'
<1> SUFFICES ASSUME NEW n \in Nodes
             PROVE  /\ call'[n].step = "decide" => Willing(call[n].peer, n)'
                    /\ call'[n].step \in {"save", "write"} => SignalConsent(call[n].signal)'
    BY DEF CallConsent
<1> DEFINE Goal == /\ call'[n].step = "decide" => Willing(call[n].peer, n)'
                   /\ call'[n].step \in {"save", "write"} => SignalConsent(call[n].signal)'
<1>1. CASE call'[n] = call[n]
  <2>1. /\ call[n].step = "decide" => call[n].peer \in Nodes /\ Willing(call[n].peer, n)
        /\ call[n].step \in {"save", "write"} =>
              call[n].signal \in Signal /\ SignalConsent(call[n].signal)
    BY CallShapes DEF TypeOK, Consent, CallConsent
  <2>2. call[n].step \in {"save", "write"} =>
          /\ call[n].signal.to \in Nodes /\ call[n].signal.from \in Nodes
    BY <2>1 DEF Signal
  <2>3. call[n].step = "decide" => Willing(call[n].peer, n)'
    <3>1. ASSUME NEW p \in Nodes, p = call[n].peer, Willing(p, n)
          PROVE  Willing(call[n].peer, n)'
      <4>1. Willing(p, n)'
        BY <3>1, WillingGrows
      <4>2. p = call'[n].peer
        BY <1>1, <3>1
      <4> QED BY <4>1, <4>2
    <3> QED BY <2>1, <3>1
  <2>4. call[n].step \in {"save", "write"} => SignalConsent(call[n].signal)'
    <3>1. ASSUME NEW m \in Signal, m = call[n].signal, SignalConsent(m)
          PROVE  SignalConsent(call[n].signal)'
      <4>1. SignalConsent(m)'
        BY <3>1, ConsentGrows
      <4>2. m = call'[n].signal
        BY <1>1, <3>1
      <4> QED BY <4>1, <4>2
    <3> QED BY <2>1, <3>1
  <2> QED BY <1>1, <2>3, <2>4
<1>2. CASE call'[n].step = "idle"
  BY <1>2
<1>3. ASSUME NEW m \in Nodes, NEW q \in Nodes, AddFriendByCode(m, q) PROVE Goal
  <2>1. CASE m # n BY <1>1, <1>3, <2>1 DEF AddFriendByCode, TypeOK
  <2>2. CASE m = n
    BY <1>3, <2>2 DEF AddFriendByCode, TypeOK, SignalConsent
  <2> QED BY <2>1, <2>2
<1>4. ASSUME NEW m \in Nodes, NEW q \in Nodes, FindRequest(m, q) PROVE Goal
  <2>1. CASE m # n BY <1>1, <1>4, <2>1 DEF FindRequest, TypeOK
  <2>2. CASE m = n
    <3>1. StatusConsent(n, q, friends[n][q]) /\ friends[n][q] \in Status \ {"none"}
      BY <1>4, <2>2 DEF Consent, ListConsent, FindRequest, TypeOK, List
    <3>2. ASSUME friends[n][q] \in {"Pending_Received", "Confirmed"}
          PROVE  Willing(q, n)'
      BY <3>1, <3>2, WillingGrows DEF StatusConsent
    <3>3. ASSUME friends[n][q] = "Pending_Sent"
          PROVE  Willing(q, n)'
      <4>1. q \in asked'[n] /\ q \in stray'[n]
        BY <1>4, <2>2, <3>1, <3>3 DEF FindRequest, StatusConsent, TypeOK
      <4> QED BY <4>1 DEF Willing, AnsweredHimself
    <3>4. Willing(q, n)'
      BY <3>1, <3>2, <3>3 DEF Status
    <3>5. call'[n].step = "decide" /\ call'[n].peer = q
      BY <1>4, <2>2 DEF FindRequest, TypeOK
    <3> QED BY <3>4, <3>5
  <2> QED BY <2>1, <2>2
<1>5. ASSUME NEW m \in Nodes, RespondToFriendRequest(m) PROVE Goal
  <2>1. CASE m # n BY <1>1, <1>5, <2>1 DEF RespondToFriendRequest, TypeOK
  <2>2. CASE m = n
    <3>1. PICK p \in Nodes : p = call[n].peer /\ Willing(p, n)
      BY <1>5, <2>2, CallShapes DEF RespondToFriendRequest, TypeOK, Consent, CallConsent
    <3>2. Willing(p, n)'
      BY <3>1, WillingGrows
    <3>3. call'[n] = [step |-> "save",
                      signal |-> [from |-> n, to |-> p,
                                  type |-> IF call[n].accept THEN "ACCEPT" ELSE "REJECT"]]
      BY <1>5, <2>2, <3>1 DEF RespondToFriendRequest, TypeOK
    <3>4. call[n].accept => p \in asked'[n]
      BY <1>5, <2>2, <3>1 DEF RespondToFriendRequest, TypeOK
    <3> QED BY <3>2, <3>3, <3>4 DEF SignalConsent
  <2> QED BY <2>1, <2>2
<1>6. ASSUME NEW m \in Nodes, StartWrite(m) PROVE Goal
  <2>1. CASE call'[n] # call[n]
    <3>1. /\ call[n].step = "save" /\ UNCHANGED <<asked, stray>>
          /\ call'[n] = [step |-> "write", signal |-> call[n].signal]
      BY <1>6, <2>1 DEF StartWrite, history, TypeOK
    <3>2. SignalConsent(call[n].signal)
      BY <3>1 DEF Consent, CallConsent
    <3> QED BY <3>1, <3>2, WillingSame DEF SignalConsent
  <2> QED BY <1>1, <2>1
<1>7. ASSUME NEW m \in Nodes, EndWrite(m) \/ Crash(m) PROVE Goal
  <2>1. call'[n] = call[n] \/ call'[n] = Idle
    BY <1>7 DEF EndWrite, Crash, TypeOK
  <2> QED BY <1>1, <1>2, <2>1 DEF Idle
<1>8. ASSUME UNCHANGED call PROVE Goal
  BY <1>1, <1>8
<1> QED BY <1>3, <1>4, <1>5, <1>6, <1>7, <1>8
    DEF Next, Start, LoadFriends, HandleFriendStream, Lose, vars

\* A signal is sent by a call that the players' consent backs.
LEMMA WireConsentKept ==
    ASSUME TypeOK, [Next]_vars, Consent
    PROVE  WireConsent'
<1> SUFFICES ASSUME NEW m \in Signal, signals'[m] > 0
             PROVE  SignalConsent(m)'
    BY DEF WireConsent
<1>1. signals[m] \in Nat /\ (signals[m] > 0 => SignalConsent(m))
  BY DEF TypeOK, Consent, WireConsent
<1>2. CASE signals[m] > 0
  BY <1>1, <1>2, ConsentGrows
<1>3. ASSUME NEW n \in Nodes, EndWrite(n)
      PROVE  SignalConsent(m)'
  <2>1. CASE call[n].step = "write" /\ m = call[n].signal
    <3>1. SignalConsent(m)
      BY <2>1 DEF Consent, CallConsent
    <3> QED BY <3>1, ConsentGrows
  <2>2. CASE ~ (call[n].step = "write" /\ m = call[n].signal)
    <3>1. signals'[m] = signals[m]
      BY <1>3, <2>2 DEF EndWrite, TypeOK
    <3> QED BY <1>2, <3>1
  <2> QED BY <2>1, <2>2
<1>4. ASSUME NEW k \in Signal, HandleFriendStream(k) \/ Lose(k)
      PROVE  SignalConsent(m)'
  <2>1. signals' = [signals EXCEPT ![k] = @ - 1]
    BY <1>4 DEF HandleFriendStream, Lose
  <2>2. signals[m] > 0
    BY <1>1, <2>1 DEF TypeOK
  <2> QED BY <1>2, <2>2
<1>5. ASSUME UNCHANGED signals
      PROVE  SignalConsent(m)'
  BY <1>2, <1>5
<1> QED BY <1>3, <1>4, <1>5
    DEF Next, AddFriendByCode, FindRequest, RespondToFriendRequest, StartWrite, Crash,
        Start, LoadFriends, vars

\* Nobody is anybody's friend without both having asked or accepted, but for
\* a player who answered his own request.
THEOREM FriendsByConsent == Spec => []NeverFriendsUnasked
<1>1. Init => TypeOK /\ Consent
  BY InitType, InitConsent
<1>2. TypeOK /\ Consent /\ [Next]_vars => (TypeOK /\ Consent)'
  BY NextType, ListConsentKept, FileConsentKept, CallConsentKept, WireConsentKept DEF Consent
<1>3. Consent => NeverFriendsUnasked
  BY DEF Consent, ListConsent, StatusConsent, NeverFriendsUnasked, Willing, AnsweredHimself
<1> QED BY <1>1, <1>2, <1>3, PTL DEF Spec

-----------------------------------------------------------------------------
(* The file and the list.                                                  *)

LEMMA InitStowed == Init => Stowed
<1> SUFFICES ASSUME Init, NEW n \in Nodes PROVE Stored(file[n]) = friends[n] /\ phase[n] = "up"
    BY DEF Stowed, StowedAt
<1> QED BY DEF Init, Stored

\* A node no step is about stays as it is.
LEMMA StowedElsewhere ==
    ASSUME NEW n \in Nodes, StowedAt(n),
           phase'[n] = phase[n], friends'[n] = friends[n], file'[n] = file[n],
           call'[n] = call[n], saves'[n] = saves[n], writing'[n] = writing[n]
    PROVE  StowedAt(n)'
  BY DEF StowedAt, Quiet, Locked, Stored

LEMMA NextStowed ==
    ASSUME TypeOK, [Next]_vars, Stowed
    PROVE  Stowed'
<1> SUFFICES ASSUME NEW n \in Nodes PROVE StowedAt(n)'
    BY DEF Stowed
<1>0. StowedAt(n)
  BY DEF Stowed
<1>1. ASSUME NEW m \in Nodes, NEW p \in Nodes, AddFriendByCode(m, p) PROVE StowedAt(n)'
  <2>1. CASE m # n
    BY <1>0, <1>1, <2>1, StowedElsewhere DEF AddFriendByCode, TypeOK
  <2>2. CASE m = n
    <3>1. phase'[n] = "up" /\ call'[n].step = "save"
      BY <1>1, <2>2 DEF AddFriendByCode, TypeOK
    <3> QED BY <3>1 DEF StowedAt, Quiet
  <2> QED BY <2>1, <2>2
<1>2. ASSUME NEW m \in Nodes, NEW p \in Nodes, FindRequest(m, p) PROVE StowedAt(n)'
  <2>1. CASE m # n
    BY <1>0, <1>2, <2>1, StowedElsewhere DEF FindRequest, TypeOK
  <2>2. CASE m = n
    <3>1. /\ phase[n] = "up" /\ call[n] = Idle /\ ~ Locked(n)
          /\ UNCHANGED <<phase, friends, file, saves, writing>>
      BY <1>2, <2>2 DEF FindRequest, Free
    <3>2. call'[n].step = "decide"
      BY <1>2, <2>2 DEF FindRequest, TypeOK
    <3> QED BY <1>0, <3>1, <3>2 DEF StowedAt, Quiet, Locked, Idle
  <2> QED BY <2>1, <2>2
<1>3. ASSUME NEW m \in Nodes, RespondToFriendRequest(m) PROVE StowedAt(n)'
  <2>1. CASE m # n
    BY <1>0, <1>3, <2>1, StowedElsewhere DEF RespondToFriendRequest, TypeOK
  <2>2. CASE m = n
    <3>1. call'[n].step = "save" /\ phase'[n] = phase[n]
      BY <1>3, <2>2 DEF RespondToFriendRequest, TypeOK
    <3>2. phase[n] = "up"
      BY <1>0, <1>3, <2>2 DEF RespondToFriendRequest, StowedAt, Idle, TypeOK
    <3> QED BY <3>1, <3>2 DEF StowedAt, Quiet
  <2> QED BY <2>1, <2>2
<1>4. ASSUME NEW m \in Nodes, StartWrite(m) PROVE StowedAt(n)'
  <2>1. CASE m # n
    BY <1>0, <1>4, <2>1, StowedElsewhere DEF StartWrite, TypeOK
  <2>2. CASE m = n
    <3>1. /\ phase'[n] = phase[n] /\ phase[n] # "down"
          /\ phase[n] = "starting" => call[n] = Idle
      BY <1>0, <1>4, <2>2 DEF StartWrite, Free, StowedAt
    <3>2. \/ call'[n].step = "write" /\ call[n].step = "save"
          \/ writing'[n] /\ call'[n] = call[n]
      BY <1>4, <2>2 DEF StartWrite, TypeOK
    <3> QED BY <3>1, <3>2 DEF StowedAt, Quiet, Locked, Idle
  <2> QED BY <2>1, <2>2
<1>5. ASSUME NEW m \in Nodes, EndWrite(m) PROVE StowedAt(n)'
  <2>1. CASE m # n
    BY <1>0, <1>5, <2>1, StowedElsewhere DEF EndWrite, TypeOK
  <2>2. CASE m = n
    <3>1. /\ phase'[n] = phase[n] /\ phase[n] # "down"
          /\ file'[n] = friends'[n] /\ friends'[n] \in List
      BY <1>5, <2>2 DEF EndWrite, TypeOK
    <3>2. Stored(file'[n]) = friends'[n]
      BY <3>1, FriendParameters DEF Stored
    <3>3. call'[n] = Idle \/ call'[n] = call[n]
      BY <1>5, <2>2 DEF EndWrite, TypeOK
    <3> QED BY <1>0, <3>1, <3>2, <3>3 DEF StowedAt, Stored
  <2> QED BY <2>1, <2>2
<1>6. ASSUME NEW m \in Nodes, Crash(m) PROVE StowedAt(n)'
  <2>1. CASE m # n
    BY <1>0, <1>6, <2>1, StowedElsewhere DEF Crash, TypeOK
  <2>2. CASE m = n
    BY <1>6, <2>2 DEF Crash, TypeOK, StowedAt
  <2> QED BY <2>1, <2>2
<1>7. ASSUME NEW m \in Nodes, Start(m) PROVE StowedAt(n)'
  <2>1. CASE m # n
    BY <1>0, <1>7, <2>1, StowedElsewhere DEF Start, TypeOK
  <2>2. CASE m = n
    <3>1. /\ phase[n] = "down" /\ phase'[n] = "starting"
          /\ UNCHANGED <<friends, file, call, saves, writing>>
      BY <1>7, <2>2 DEF Start, TypeOK
    <3> QED BY <1>0, <3>1 DEF StowedAt, Empty
  <2> QED BY <2>1, <2>2
<1>8. ASSUME NEW m \in Nodes, LoadFriends(m) PROVE StowedAt(n)'
  <2>1. CASE m # n
    BY <1>0, <1>8, <2>1, StowedElsewhere DEF LoadFriends, TypeOK
  <2>2. CASE m = n
    <3>1. /\ phase[n] = "starting" /\ phase'[n] = "up"
          /\ friends'[n] = Merged(friends[n], file[n])
          /\ UNCHANGED <<file, call, saves, writing>>
      BY <1>8, <2>2 DEF LoadFriends, TypeOK
    <3>2. Stored(file[n]) \in List /\ friends[n] \in List
      BY StoredType DEF TypeOK
    <3>3. ASSUME Quiet(n)
          PROVE  Merged(friends[n], file[n]) = Stored(file[n])
      <4>1. \A p \in Nodes : friends[n][p] # "none" => Stored(file[n])[p] # "none"
        BY <1>0, <3>1, <3>3 DEF StowedAt
      <4> QED BY <3>2, <4>1 DEF Merged, List
    <3> QED BY <3>1, <3>3 DEF StowedAt, Quiet, Locked, Stored
  <2> QED BY <2>1, <2>2
<1>9. ASSUME NEW m \in Signal, HandleFriendStream(m) PROVE StowedAt(n)'
  <2>1. m.to \in Nodes
    BY DEF Signal
  <2>2. CASE m.to # n
    BY <1>0, <1>9, <2>1, <2>2, StowedElsewhere DEF HandleFriendStream, history, TypeOK
  <2>3. CASE m.to = n
    <3>1. saves'[n] = saves[n] + 1 /\ saves[n] \in Nat
      BY <1>9, <2>3 DEF HandleFriendStream, SavesAfter, TypeOK
    <3>2. UNCHANGED <<phase, call>> /\ phase[n] # "down"
      BY <1>9, <2>3 DEF HandleFriendStream, Free
    <3> QED BY <1>0, <3>1, <3>2 DEF StowedAt, Quiet
  <2> QED BY <2>2, <2>3
<1>10. ASSUME NEW m \in Signal, Lose(m) PROVE StowedAt(n)'
  BY <1>0, <1>10, StowedElsewhere DEF Lose
<1>11. CASE UNCHANGED vars
  BY <1>0, <1>11, StowedElsewhere DEF vars
<1> QED BY <1>1, <1>2, <1>3, <1>4, <1>5, <1>6, <1>7, <1>8, <1>9, <1>10, <1>11 DEF Next

\* Whenever no save is due, the file holds the list.
THEOREM FileHoldsList == Spec => []SavedWhenQuiet
<1>1. Init => TypeOK /\ Stowed
  BY InitType, InitStowed
<1>2. TypeOK /\ Stowed /\ [Next]_vars => (TypeOK /\ Stowed)'
  BY NextType, NextStowed
<1>3. Stowed => SavedWhenQuiet
  BY DEF Stowed, StowedAt, Quiet, SavedWhenQuiet
<1> QED BY <1>1, <1>2, <1>3, PTL DEF Spec
-----------------------------------------------------------------------------
(* The handshake of one request, of a to b, stage by stage.                *)

Sig(n, p, type) == [from |-> n, to |-> p, type |-> type]
Reply(yes) == IF yes THEN "ACCEPT" ELSE "REJECT"
Outcome(yes) == IF yes THEN "Confirmed" ELSE "none"

\* What a stage is told by: the calls under way, the signals and the entries.
Sends(n, m) == call[n] \in {[step |-> "save", signal |-> m], [step |-> "write", signal |-> m]}
IdleBut(S) == \A n \in Nodes \ S : call[n] = Idle
OnWire(S) == \A m \in Signal : signals[m] = IF m \in S THEN 1 ELSE 0
Entries(a, b, x, y) ==
    \A n, p \in Nodes : friends[n][p] =
        IF n = a /\ p = b THEN x ELSE IF n = b /\ p = a THEN y ELSE "none"

Asking(a, b) ==
    /\ Sends(a, Sig(a, b, "REQUEST")) /\ IdleBut({a}) /\ OnWire({})
    /\ Entries(a, b, "Pending_Sent", "none")
RequestSent(a, b) ==
    /\ IdleBut({}) /\ OnWire({Sig(a, b, "REQUEST")})
    /\ Entries(a, b, "Pending_Sent", "none")
Awaiting(a, b) ==
    /\ IdleBut({}) /\ OnWire({})
    /\ Entries(a, b, "Pending_Sent", "Pending_Received")
Deciding(a, b) ==
    /\ call[b].step = "decide" /\ call[b].peer = a
    /\ IdleBut({b}) /\ OnWire({})
    /\ Entries(a, b, "Pending_Sent", "Pending_Received")
Answering(a, b, yes) ==
    /\ Sends(b, Sig(b, a, Reply(yes))) /\ IdleBut({b}) /\ OnWire({})
    /\ Entries(a, b, "Pending_Sent", Outcome(yes))
AnswerSent(a, b, yes) ==
    /\ IdleBut({}) /\ OnWire({Sig(b, a, Reply(yes))})
    /\ Entries(a, b, "Pending_Sent", Outcome(yes))
Agreed(a, b, yes) ==
    /\ IdleBut({}) /\ OnWire({})
    /\ Entries(a, b, Outcome(yes), Outcome(yes))

Handshake(a, b) ==
    \/ Asking(a, b) \/ RequestSent(a, b) \/ Awaiting(a, b) \/ Deciding(a, b)
    \/ \E yes \in BOOLEAN : Answering(a, b, yes) \/ AnswerSent(a, b, yes) \/ Agreed(a, b, yes)

Untouched ==
    IdleBut({}) /\ OnWire({}) /\ \A n, p \in Nodes : friends[n][p] = "none"

\* So far one request at most, nothing lost, nobody restarted, and no answer
\* but to a request that was received.
Single == asks <= 1 /\ ~ lost /\ crashes = 0 /\ \A n \in Nodes : stray[n] = {}

HandshakeInv ==
    Single => /\ \A n \in Nodes : phase[n] = "up"
              /\ asks = 0 => Untouched
              /\ asks = 1 => \E a, b \in Nodes : a # b /\ Handshake(a, b)

\* The three ways a call goes on without a look at the list.
SaveBegins(n) ==
    /\ call[n].step = "save"
    /\ call' = [call EXCEPT ![n] = [step |-> "write", signal |-> call[n].signal]]
    /\ UNCHANGED <<friends, signals>>
SaveEnds(n) ==
    /\ call[n].step = "write"
    /\ call' = [call EXCEPT ![n] = Idle]
    /\ signals' = [signals EXCEPT ![call[n].signal] = @ + 1]
    /\ UNCHANGED friends

\* Of the steps that keep to a single handshake, those that change what its
\* stage is told by.
LEMMA SingleSteps ==
    ASSUME TypeOK, [Next]_vars, Single', asks' = asks, \A n \in Nodes : phase[n] = "up"
    PROVE  \/ UNCHANGED <<friends, call, signals>>
           \/ \E n, p \in Nodes : FindRequest(n, p)
           \/ \E n \in Nodes : RespondToFriendRequest(n) \/ SaveBegins(n) \/ SaveEnds(n)
           \/ \E m \in Signal : HandleFriendStream(m)
<1>1. ASSUME NEW n \in Nodes, NEW p \in Nodes, AddFriendByCode(n, p) PROVE FALSE
  BY <1>1 DEF AddFriendByCode, TypeOK
<1>2. ASSUME NEW n \in Nodes, StartWrite(n)
      PROVE  SaveBegins(n) \/ UNCHANGED <<friends, call, signals>>
  BY <1>2 DEF StartWrite, SaveBegins
<1>3. ASSUME NEW n \in Nodes, EndWrite(n)
      PROVE  SaveEnds(n) \/ UNCHANGED <<friends, call, signals>>
  BY <1>3 DEF EndWrite, SaveEnds
<1>4. ASSUME NEW n \in Nodes, Crash(n) \/ Start(n) \/ LoadFriends(n) PROVE FALSE
  <2>1. crashes \in Nat /\ crashes' = 0 /\ phase[n] = "up"
    BY DEF TypeOK, Single
  <2> QED BY <1>4, <2>1 DEF Crash, Start, LoadFriends
<1>5. ASSUME NEW m \in Signal, Lose(m) PROVE FALSE
  BY <1>5 DEF Lose, Single
<1>6. CASE UNCHANGED vars
  BY <1>6 DEF vars
<1> QED BY <1>1, <1>2, <1>3, <1>4, <1>5, <1>6 DEF Next

\* A stage is told by the list, the calls and the signals alone.
LEMMA HandshakeFrame ==
    ASSUME NEW a \in Nodes, NEW b \in Nodes, Handshake(a, b),
           UNCHANGED <<friends, call, signals>>
    PROVE  Handshake(a, b)'
  BY DEF Handshake, Asking, RequestSent, Awaiting, Deciding, Answering, AnswerSent, Agreed,
         Sends, IdleBut, OnWire, Entries

\* Who may answer is b, and only when the request has come.
LEMMA HandshakeFind ==
    ASSUME TypeOK, Single',
           NEW a \in Nodes, NEW b \in Nodes, a # b, Handshake(a, b),
           NEW n \in Nodes, NEW p \in Nodes, FindRequest(n, p)
    PROVE  Handshake(a, b)'
<1>1. friends[n][p] = "Pending_Received" /\ call[n] = Idle
  <2>1. p \notin stray'[n]
    BY DEF Single
  <2> QED BY <2>1 DEF FindRequest, TypeOK
<1>2. n = b /\ p = a /\ Awaiting(a, b)
  <2>1. ASSUME NEW x, NEW y, Entries(a, b, x, y),
               x # "Pending_Received", y # "Pending_Received"
        PROVE  FALSE
    BY <1>1, <2>1 DEF Entries
  <2>2. \A yes \in BOOLEAN : Outcome(yes) # "Pending_Received"
    BY DEF Outcome
  <2>3. Awaiting(a, b) \/ Deciding(a, b)
    BY <2>1, <2>2 DEF Handshake, Asking, RequestSent, Answering, AnswerSent, Agreed
  <2>4. n = b /\ p = a
    BY <1>1, <2>3 DEF Awaiting, Deciding, Entries
  <2>5. ~ Deciding(a, b)
    BY <1>1, <2>4 DEF Deciding, Idle
  <2> QED BY <2>3, <2>4, <2>5
<1>3. /\ \E accept \in BOOLEAN : call' =
            [call EXCEPT ![n] = [step |-> "decide", peer |-> p, accept |-> accept]]
      /\ friends' = friends /\ signals' = signals
  BY DEF FindRequest
<1>4. Deciding(a, b)'
  BY <1>2, <1>3 DEF Awaiting, Deciding, IdleBut, OnWire, Entries, TypeOK
<1> QED BY <1>4 DEF Handshake

\* The answer: the two outcomes of b's entry, and the signal to come.
LEMMA HandshakeRespond ==
    ASSUME TypeOK, NEW a \in Nodes, NEW b \in Nodes, a # b, Handshake(a, b),
           NEW n \in Nodes, RespondToFriendRequest(n)
    PROVE  Handshake(a, b)'
<1>1. call[n].step = "decide"
  BY DEF RespondToFriendRequest
<1>2. n = b /\ Deciding(a, b)
  <2>1. ASSUME NEW S \in SUBSET Nodes, IdleBut(S) PROVE n \in S
    BY <1>1, <2>1 DEF IdleBut, Idle
  <2>2. ~ (RequestSent(a, b) \/ Awaiting(a, b)
             \/ \E yes \in BOOLEAN : AnswerSent(a, b, yes) \/ Agreed(a, b, yes))
    BY <2>1 DEF RequestSent, Awaiting, AnswerSent, Agreed
  <2>3. ~ Asking(a, b)
    <3>1. ASSUME Asking(a, b) PROVE FALSE
      <4>1. n = a
        BY <2>1, <3>1 DEF Asking
      <4> QED BY <1>1, <3>1, <4>1 DEF Asking, Sends
    <3> QED BY <3>1
  <2>4. ASSUME NEW yes \in BOOLEAN, Answering(a, b, yes) PROVE FALSE
    <3>1. n = b
      BY <2>1, <2>4 DEF Answering
    <3> QED BY <1>1, <2>4, <3>1 DEF Answering, Sends
  <2>5. Deciding(a, b)
    BY <2>2, <2>3, <2>4 DEF Handshake
  <2> QED BY <2>1, <2>5 DEF Deciding
<1>3. PICK yes \in BOOLEAN : yes = call[b].accept
  BY <1>1, <1>2, CallShapes DEF TypeOK
<1>4. /\ call' = [call EXCEPT ![b] = [step |-> "save", signal |-> Sig(b, a, Reply(yes))]]
      /\ friends' = [friends EXCEPT ![b][a] = Outcome(yes)]
      /\ signals' = signals
  BY <1>2, <1>3 DEF RespondToFriendRequest, Deciding, Sig, Reply, Outcome
<1>5. Entries(a, b, "Pending_Sent", Outcome(yes))'
  BY <1>2, <1>4 DEF Deciding, Entries, TypeOK, List
<1>6. Answering(a, b, yes)'
  BY <1>2, <1>4, <1>5 DEF Deciding, Answering, Sends, IdleBut, OnWire, TypeOK
<1> QED BY <1>6 DEF Handshake

\* A call between its change and its signal belongs to the stage.
LEMMA Sender ==
    ASSUME NEW a \in Nodes, NEW b \in Nodes, a # b, Handshake(a, b),
           NEW n \in Nodes, call[n].step \in {"save", "write"}
    PROVE  \/ n = a /\ Asking(a, b) /\ call[n].signal = Sig(a, b, "REQUEST")
           \/ \E yes \in BOOLEAN : /\ n = b /\ Answering(a, b, yes)
                                   /\ call[n].signal = Sig(b, a, Reply(yes))
<1>1. ASSUME NEW S \in SUBSET Nodes, IdleBut(S) PROVE n \in S
  BY <1>1 DEF IdleBut, Idle
<1>2. ASSUME NEW m, Sends(n, m) PROVE call[n].signal = m
  BY <1>2 DEF Sends
<1>3. ~ (RequestSent(a, b) \/ Awaiting(a, b)
           \/ \E yes \in BOOLEAN : AnswerSent(a, b, yes) \/ Agreed(a, b, yes))
  BY <1>1 DEF RequestSent, Awaiting, AnswerSent, Agreed
<1>4. ~ Deciding(a, b)
  <2>1. ASSUME Deciding(a, b) PROVE FALSE
    <3>1. n = b
      BY <1>1, <2>1 DEF Deciding
    <3> QED BY <2>1, <3>1 DEF Deciding
  <2> QED BY <2>1
<1>5. Asking(a, b) => n = a /\ call[n].signal = Sig(a, b, "REQUEST")
  BY <1>1, <1>2 DEF Asking
<1>6. ASSUME NEW yes \in BOOLEAN, Answering(a, b, yes)
      PROVE  n = b /\ call[n].signal = Sig(b, a, Reply(yes))
  BY <1>1, <1>2, <1>6 DEF Answering
<1> QED BY <1>3, <1>4, <1>5, <1>6 DEF Handshake

\* Saving delays the signal, and its end sends it.
LEMMA HandshakeSave ==
    ASSUME TypeOK, NEW a \in Nodes, NEW b \in Nodes, a # b, Handshake(a, b),
           NEW n \in Nodes, SaveBegins(n) \/ SaveEnds(n)
    PROVE  Handshake(a, b)'
<1> DEFINE Now(m) == call[n].signal = m
<1>0. call[n].step \in {"save", "write"}
  BY DEF SaveBegins, SaveEnds
<1>1. ASSUME SaveBegins(n), NEW m, NEW S \in SUBSET Nodes, Now(m), IdleBut(S), n \in S,
             OnWire({})
      PROVE  Sends(n, m)' /\ IdleBut(S)' /\ OnWire({})'
  BY <1>1 DEF SaveBegins, Sends, IdleBut, OnWire, TypeOK
<1>2. ASSUME SaveEnds(n), NEW m \in Signal, Now(m), IdleBut({n}), OnWire({})
      PROVE  IdleBut({})' /\ OnWire({m})'
  <2>1. IdleBut({})'
    BY <1>2 DEF SaveEnds, IdleBut, TypeOK
  <2>2. signals' = [signals EXCEPT ![m] = @ + 1]
    BY <1>2 DEF SaveEnds
  <2>3. \A x \in Signal : signals[x] = 0
    BY <1>2 DEF OnWire
  <2>4. OnWire({m})'
    BY <2>2, <2>3 DEF OnWire, TypeOK
  <2> QED BY <2>1, <2>4
<1>3. ASSUME NEW x, NEW y, Entries(a, b, x, y) PROVE Entries(a, b, x, y)'
  BY <1>3 DEF SaveBegins, SaveEnds, Entries
<1>4. Sig(a, b, "REQUEST") \in Signal /\ \A yes \in BOOLEAN : Sig(b, a, Reply(yes)) \in Signal
  BY DEF Sig, Reply, Signal
<1>5. CASE n = a /\ Asking(a, b) /\ Now(Sig(a, b, "REQUEST"))
  <2>1. SaveBegins(n) => Asking(a, b)'
    BY <1>1, <1>3, <1>5 DEF Asking
  <2>2. SaveEnds(n) => RequestSent(a, b)'
    BY <1>2, <1>3, <1>4, <1>5 DEF Asking, RequestSent
  <2> QED BY <2>1, <2>2 DEF Handshake
<1>6. ASSUME NEW yes \in BOOLEAN, n = b, Answering(a, b, yes), Now(Sig(b, a, Reply(yes)))
      PROVE  Handshake(a, b)'
  <2>1. SaveBegins(n) => Answering(a, b, yes)'
    BY <1>1, <1>3, <1>6 DEF Answering
  <2>2. SaveEnds(n) => AnswerSent(a, b, yes)'
    BY <1>2, <1>3, <1>4, <1>6 DEF Answering, AnswerSent
  <2> QED BY <2>1, <2>2 DEF Handshake
<1> QED BY <1>0, <1>5, <1>6, Sender

\* The only signal that can come is the stage's, and it brings the next one.
LEMMA HandshakeReceive ==
    ASSUME TypeOK, NEW a \in Nodes, NEW b \in Nodes, a # b, Handshake(a, b),
           NEW m \in Signal, HandleFriendStream(m)
    PROVE  Handshake(a, b)'
<1>1. /\ signals[m] > 0 /\ call' = call
      /\ signals' = [signals EXCEPT ![m] = @ - 1]
      /\ friends' = [friends EXCEPT ![m.to][m.from] = Received(m.type, @)]
  BY DEF HandleFriendStream
<1>2. ASSUME NEW S, OnWire(S) PROVE m \in S
  BY <1>1, <1>2 DEF OnWire
<1>3. ASSUME OnWire({m}), IdleBut({}) PROVE OnWire({})' /\ IdleBut({})'
  <2>1. \A x \in Signal : signals[x] = IF x = m THEN 1 ELSE 0
    BY <1>3 DEF OnWire
  <2>2. OnWire({})'
    BY <1>1, <2>1 DEF OnWire, TypeOK
  <2> QED BY <1>1, <1>3, <2>2 DEF IdleBut
<1>4. ~ (Asking(a, b) \/ Awaiting(a, b) \/ Deciding(a, b)
           \/ \E yes \in BOOLEAN : Answering(a, b, yes) \/ Agreed(a, b, yes))
  BY <1>2 DEF Asking, Awaiting, Deciding, Answering, Agreed
<1>5. ASSUME RequestSent(a, b) PROVE Awaiting(a, b)'
  <2>1. m = Sig(a, b, "REQUEST")
    BY <1>2, <1>5 DEF RequestSent
  <2>2. m.to = b /\ m.from = a /\ m.type = "REQUEST"
    BY <2>1 DEF Sig
  <2>3. friends[b][a] = "none"
    BY <1>5 DEF RequestSent, Entries
  <2>4. friends' = [friends EXCEPT ![b][a] = "Pending_Received"]
    BY <1>1, <2>2, <2>3 DEF Received
  <2>5. Entries(a, b, "Pending_Sent", "Pending_Received")'
    BY <1>5, <2>4 DEF RequestSent, Entries, TypeOK, List
  <2> QED BY <1>3, <1>5, <2>1, <2>5 DEF RequestSent, Awaiting
<1>6. ASSUME NEW yes \in BOOLEAN, AnswerSent(a, b, yes) PROVE Agreed(a, b, yes)'
  <2>1. m = Sig(b, a, Reply(yes))
    BY <1>2, <1>6 DEF AnswerSent
  <2>2. m.to = a /\ m.from = b /\ m.type = Reply(yes)
    BY <2>1 DEF Sig
  <2>3. friends[a][b] = "Pending_Sent"
    BY <1>6 DEF AnswerSent, Entries
  <2>4. Received(m.type, friends[a][b]) = Outcome(yes)
    BY <2>2, <2>3 DEF Received, Reply, Outcome
  <2>5. friends' = [friends EXCEPT ![a][b] = Outcome(yes)]
    BY <1>1, <2>2, <2>4
  <2>6. Entries(a, b, Outcome(yes), Outcome(yes))'
    BY <1>6, <2>5 DEF AnswerSent, Entries, TypeOK, List
  <2> QED BY <1>3, <1>6, <2>1, <2>6 DEF AnswerSent, Agreed
<1> QED BY <1>4, <1>5, <1>6 DEF Handshake

\* The first request starts a handshake.
LEMMA HandshakeStarts ==
    ASSUME TypeOK, Untouched, NEW n \in Nodes, NEW p \in Nodes, AddFriendByCode(n, p)
    PROVE  n # p /\ Handshake(n, p)'
<1>1. /\ n # p /\ signals' = signals
      /\ call' = [call EXCEPT ![n] = [step |-> "save", signal |-> Sig(n, p, "REQUEST")]]
      /\ friends' = [friends EXCEPT ![n][p] = "Pending_Sent"]
  BY DEF AddFriendByCode, Sig
<1>2. Entries(n, p, "Pending_Sent", "none")'
  BY <1>1 DEF Untouched, Entries, TypeOK, List
<1>3. Asking(n, p)'
  BY <1>1, <1>2 DEF Untouched, Asking, Sends, IdleBut, OnWire, TypeOK
<1> QED BY <1>1, <1>3 DEF Handshake

\* Before it nothing happens but the saves of nobody's change.
LEMMA UntouchedKept ==
    ASSUME TypeOK, [Next]_vars, Single', asks' = asks, Untouched,
           \A n \in Nodes : phase[n] = "up"
    PROVE  Untouched'
<1>1. \A n \in Nodes : call[n].step = "idle" /\ call[n] = Idle
  BY DEF Untouched, IdleBut, Idle
<1>2. \A n, p \in Nodes : ~ FindRequest(n, p)
  BY DEF Untouched, FindRequest
<1>3. \A n \in Nodes : ~ (RespondToFriendRequest(n) \/ SaveBegins(n) \/ SaveEnds(n))
  BY <1>1 DEF RespondToFriendRequest, SaveBegins, SaveEnds
<1>4. \A m \in Signal : ~ HandleFriendStream(m)
  BY DEF Untouched, OnWire, HandleFriendStream
<1>5. UNCHANGED <<friends, call, signals>>
  BY <1>2, <1>3, <1>4, SingleSteps
<1> QED BY <1>5 DEF Untouched, IdleBut, OnWire

\* Histories only grow, and a start needs a crash.
LEMMA SingleBefore ==
    ASSUME TypeOK, [Next]_vars, Single'
    PROVE  /\ Single
           /\ asks' = asks \/ (asks = 0 /\ asks' = 1 /\ \E n, p \in Nodes : AddFriendByCode(n, p))
           /\ (\A n \in Nodes : phase[n] = "up") => \A n \in Nodes : phase'[n] = "up"
<1> USE DEF TypeOK
<1>0. \A n \in Nodes : stray[n] = {}
  BY StrayGrows DEF Single
<1>1. ASSUME NEW n \in Nodes, NEW p \in Nodes, AddFriendByCode(n, p)
      PROVE  asks' = asks + 1 /\ UNCHANGED <<lost, crashes, phase>>
  BY <1>1 DEF AddFriendByCode
<1>2. ASSUME NEW n \in Nodes, NEW p \in Nodes, FindRequest(n, p)
      PROVE  UNCHANGED <<asks, lost, crashes, phase>>
  BY <1>2 DEF FindRequest
<1>3. ASSUME NEW n \in Nodes, RespondToFriendRequest(n) \/ StartWrite(n) \/ EndWrite(n)
      PROVE  UNCHANGED <<asks, lost, crashes, phase>>
  BY <1>3 DEF RespondToFriendRequest, StartWrite, EndWrite, history
<1>4. ASSUME NEW n \in Nodes, Crash(n) PROVE FALSE
  BY <1>4 DEF Crash, Single
<1>5. ASSUME NEW n \in Nodes, Start(n) \/ LoadFriends(n)
      PROVE  UNCHANGED <<asks, lost, crashes>> /\ phase[n] # "up"
  BY <1>5 DEF Start, LoadFriends, history
<1>6. ASSUME NEW m \in Signal, HandleFriendStream(m)
      PROVE  UNCHANGED <<asks, lost, crashes, phase>>
  BY <1>6 DEF HandleFriendStream, history
<1>7. ASSUME NEW m \in Signal, Lose(m) PROVE FALSE
  BY <1>7 DEF Lose, Single
<1>8. ASSUME UNCHANGED vars PROVE UNCHANGED <<asks, lost, crashes, phase>>
  BY <1>8 DEF vars, history
<1>9. \/ UNCHANGED <<asks, lost, crashes, phase>>
      \/ UNCHANGED <<asks, lost, crashes>> /\ \E n \in Nodes : phase[n] # "up"
      \/ /\ asks' = asks + 1 /\ UNCHANGED <<lost, crashes, phase>>
         /\ \E n, p \in Nodes : AddFriendByCode(n, p)
  BY <1>1, <1>2, <1>3, <1>4, <1>5, <1>6, <1>7, <1>8 DEF Next
<1> QED BY <1>0, <1>9 DEF Single

LEMMA NextHandshake ==
    ASSUME TypeOK, [Next]_vars, HandshakeInv
    PROVE  HandshakeInv'
<1> SUFFICES ASSUME Single'
             PROVE  /\ \A n \in Nodes : phase'[n] = "up"
                    /\ asks' = 0 => Untouched'
                    /\ asks' = 1 => \E a, b \in Nodes : a # b /\ Handshake(a, b)'
  BY DEF HandshakeInv
<1>1. /\ Single
      /\ \A n \in Nodes : phase[n] = "up"
      /\ asks = 0 => Untouched
      /\ asks = 1 => \E a, b \in Nodes : a # b /\ Handshake(a, b)
  BY SingleBefore DEF HandshakeInv
<1>2. \A n \in Nodes : phase'[n] = "up"
  BY <1>1, SingleBefore
<1>3. CASE asks' = asks
  <2>1. asks = 0 => Untouched'
    BY <1>1, <1>3, UntouchedKept
  <2>2. ASSUME NEW a \in Nodes, NEW b \in Nodes, a # b, Handshake(a, b)
        PROVE  Handshake(a, b)'
    BY <1>1, <1>3, <2>2, SingleSteps, HandshakeFrame, HandshakeFind, HandshakeRespond,
       HandshakeSave, HandshakeReceive
  <2> QED BY <1>1, <1>2, <1>3, <2>1, <2>2
<1>4. ASSUME asks = 0, asks' = 1, NEW n \in Nodes, NEW p \in Nodes, AddFriendByCode(n, p)
      PROVE  n # p /\ Handshake(n, p)'
  BY <1>1, <1>4, HandshakeStarts
<1> QED BY <1>2, <1>3, <1>4, SingleBefore

\* A settled handshake is one of the two agreements, or waits for its answer.
LEMMA HandshakeSettles ==
    ASSUME TypeOK, HandshakeInv
    PROVE  HandshakeAgrees
<1> SUFFICES ASSUME asks = 1, ~ lost, crashes = 0, \A m \in Signal : signals[m] = 0,
                    \A n \in Nodes : call[n] = Idle /\ stray[n] = {}
             PROVE  \A n, p \in Nodes : n # p =>
                      \/ friends[n][p] = friends[p][n]
                         /\ friends[n][p] \in {"none", "Confirmed"}
                      \/ {friends[n][p], friends[p][n]} = {"Pending_Sent", "Pending_Received"}
  BY DEF HandshakeAgrees
<1>1. PICK a, b \in Nodes : a # b /\ Handshake(a, b)
  BY DEF HandshakeInv, Single
<1>2. ASSUME NEW m \in Signal, OnWire({m}) PROVE FALSE
  BY <1>2 DEF OnWire
<1>3. ~ RequestSent(a, b) /\ \A yes \in BOOLEAN : ~ AnswerSent(a, b, yes)
  BY <1>2 DEF RequestSent, AnswerSent, Sig, Reply, Signal
<1>4. ~ Asking(a, b) /\ ~ Deciding(a, b) /\ \A yes \in BOOLEAN : ~ Answering(a, b, yes)
  BY DEF Asking, Deciding, Answering, Sends, Idle
<1>5. CASE Awaiting(a, b)
  BY <1>1, <1>5 DEF Awaiting, Entries
<1>6. ASSUME NEW yes \in BOOLEAN, Agreed(a, b, yes)
      PROVE  \A n, p \in Nodes : friends[n][p] = friends[p][n]
                                   /\ friends[n][p] \in {"none", "Confirmed"}
  <2>1. Outcome(yes) \in {"none", "Confirmed"}
    BY DEF Outcome
  <2> QED BY <1>1, <1>6, <2>1 DEF Agreed, Entries
<1> QED BY <1>1, <1>3, <1>4, <1>5, <1>6 DEF Handshake

\* One request, its saves and its answer end with both sides agreed, unless a
\* signal was lost, a process ended or a player answered what nobody had asked
\* him, for any number of nodes.
THEOREM OneHandshakeAgrees == Spec => []HandshakeAgrees
<1>1. Init => TypeOK /\ HandshakeInv
  <2>1. Init => Untouched /\ asks = 0 /\ \A n \in Nodes : phase[n] = "up"
    BY DEF Init, Untouched, IdleBut, OnWire, Empty
  <2> QED BY <2>1, InitType DEF HandshakeInv
<1>2. TypeOK /\ HandshakeInv /\ [Next]_vars => (TypeOK /\ HandshakeInv)'
  BY NextType, NextHandshake
<1>3. TypeOK /\ HandshakeInv => HandshakeAgrees
  BY HandshakeSettles
<1> QED BY <1>1, <1>2, <1>3, PTL DEF Spec
=============================================================================
