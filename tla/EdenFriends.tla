----------------------------- MODULE EdenFriends -----------------------------
(***************************************************************************)
(* The friend list of a node (src/core/mainUE.go): requests by friend      *)
(* code, answers, the signals nodes send each other about them, and the    *)
(* file the list is kept in.                                               *)
(*                                                                         *)
(* A list maps peers to the status of the entry; names, codes and times    *)
(* are left out.  Signals travel on a stream each: they may be reordered   *)
(* and lost, and a lost one is not sent again.                             *)
(***************************************************************************)
EXTENDS Integers, FiniteSets

CONSTANTS
    Nodes,
    Crashers,      \* nodes whose process may end and start again
    Lossy,         \* TRUE: signals may be lost
    MaxAsks,       \* bound: friend requests in all
    MaxAnswers,    \* bound: answers in all
    MaxCrashes,    \* bound: crashes in all
    Torn           \* a file that was truncated and not written

\* The status of an entry; "none" when there is no entry.
Status == {"none", "Pending_Sent", "Pending_Received", "Confirmed"}
Signal == [from : Nodes, to : Nodes, type : {"REQUEST", "ACCEPT", "REJECT"}]
List == [Nodes -> Status]
Empty == [p \in Nodes |-> "none"]

ASSUME FriendParameters ==
    /\ Crashers \subseteq Nodes
    /\ Lossy \in BOOLEAN
    /\ {MaxAsks, MaxAnswers, MaxCrashes} \subseteq Nat
    /\ Torn \notin List

\* A call of the game: none, an answer between its two locked sections, or a
\* call that has changed the list and has still to save and to signal.
Idle == [step |-> "idle"]
Call == {Idle}
        \cup [step : {"decide"}, peer : Nodes, accept : BOOLEAN]
        \cup [step : {"save", "write"}, signal : Signal]

VARIABLES
    phase,      \* per node: down, starting (handlers set, list not loaded), up
    friends,    \* MyFriends
    file,       \* what friends_<id>.json holds
    call,       \* the game's call; the game makes one at a time
    saves,      \* stream handlers that have still to call SaveFriends
    writing,    \* a stream handler is inside os.WriteFile
    signals,    \* per signal: how many are on their way
    asked,      \* history: peers a node's player asked or accepted
    stray,      \* history: peers a node answered who had not asked it
    asks,       \* history: requests made
    answers,    \* history: answers given
    crashes,    \* history: crashes
    lost        \* history: a signal was lost

history == <<asked, stray, asks, answers, crashes, lost>>
vars == <<phase, friends, file, call, saves, writing, signals, history>>

-----------------------------------------------------------------------------

\* friendMutex is held: by SaveFriends, while it writes the file.
Locked(n) == writing[n] \/ call[n].step = "write"

Free(n) == phase[n] # "down" /\ ~ Locked(n)

\* AddFriendByCode, up to the save; the code is registered to p.
AddFriendByCode(n, p) ==
    /\ phase[n] = "up" /\ Free(n) /\ call[n] = Idle /\ p # n /\ asks < MaxAsks
    /\ friends' = [friends EXCEPT ![n][p] = "Pending_Sent"]
    /\ call' = [call EXCEPT ![n] =
          [step |-> "save", signal |-> [from |-> n, to |-> p, type |-> "REQUEST"]]]
    /\ asked' = [asked EXCEPT ![n] = @ \cup {p}]
    /\ asks' = asks + 1
    /\ UNCHANGED <<phase, file, saves, writing, signals, stray, answers, crashes, lost>>

\* RespondToFriendRequest, its first locked section: any entry will do, the
\* node's own request and a friend's among them.
FindRequest(n, p) ==
    /\ phase[n] = "up" /\ Free(n) /\ call[n] = Idle /\ answers < MaxAnswers
    /\ friends[n][p] # "none"
    /\ \E accept \in BOOLEAN :
          call' = [call EXCEPT ![n] =
                     [step |-> "decide", peer |-> p, accept |-> accept]]
    /\ answers' = answers + 1
    /\ stray' = IF friends[n][p] = "Pending_Received" THEN stray
                ELSE [stray EXCEPT ![n] = @ \cup {p}]
    /\ UNCHANGED <<phase, friends, file, saves, writing, signals,
                   asked, asks, crashes, lost>>

\* Its second: the entry read before is written back, or the entry deleted.
RespondToFriendRequest(n) ==
    /\ Free(n) /\ call[n].step = "decide"
    /\ LET p == call[n].peer
           yes == call[n].accept
       IN  /\ friends' = [friends EXCEPT ![n][p] =
                             IF yes THEN "Confirmed" ELSE "none"]
           /\ call' = [call EXCEPT ![n] =
                 [step |-> "save",
                  signal |-> [from |-> n, to |-> p,
                              type |-> IF yes THEN "ACCEPT" ELSE "REJECT"]]]
           /\ asked' = IF yes THEN [asked EXCEPT ![n] = @ \cup {p}] ELSE asked
    /\ UNCHANGED <<phase, file, saves, writing, signals,
                   stray, asks, answers, crashes, lost>>

\* Mutants of Received: a second request confirms; a rejection is ignored.
ReceivedConfirming(type, status) ==
    CASE type = "REQUEST" -> IF status = "none" THEN "Pending_Received" ELSE "Confirmed"
      [] type = "ACCEPT"  -> IF status = "none" THEN status ELSE "Confirmed"
      [] type = "REJECT"  -> "none"
ReceivedDeaf(type, status) ==
    CASE type = "REQUEST" -> IF status = "none" THEN "Pending_Received" ELSE status
      [] type = "ACCEPT"  -> IF status = "none" THEN status ELSE "Confirmed"
      [] type = "REJECT"  -> status

\* What a signal makes of the sender's entry.
Received(type, status) ==
    CASE type = "REQUEST" -> IF status = "none" THEN "Pending_Received" ELSE status
      [] type = "ACCEPT"  -> IF status = "none" THEN status ELSE "Confirmed"
      [] type = "REJECT"  -> "none"

\* Mutant of SavesAfter: only a changed list is saved when it grew.
SavesAfterNew(n, before) == saves[n] + IF before = "none" THEN 1 ELSE 0

\* SaveFriends is called after every signal.
SavesAfter(n, before) == saves[n] + 1

\* HandleFriendStream, up to the save.
HandleFriendStream(m) ==
    /\ signals[m] > 0 /\ Free(m.to)
    /\ signals' = [signals EXCEPT ![m] = @ - 1]
    /\ friends' = [friends EXCEPT ![m.to][m.from] = Received(m.type, @)]
    /\ saves' = [saves EXCEPT ![m.to] = SavesAfter(m.to, friends[m.to][m.from])]
    /\ UNCHANGED <<phase, file, call, writing, history>>

\* SaveFriends takes the lock and os.WriteFile truncates the file, for the
\* game's call or for a stream handler.
StartWrite(n) ==
    /\ Free(n)
    /\ \/ /\ call[n].step = "save"
          /\ call' = [call EXCEPT ![n] = [step |-> "write", signal |-> @.signal]]
          /\ UNCHANGED <<saves, writing>>
       \/ /\ saves[n] > 0
          /\ saves' = [saves EXCEPT ![n] = @ - 1]
          /\ writing' = [writing EXCEPT ![n] = TRUE]
          /\ UNCHANGED call
    /\ file' = [file EXCEPT ![n] = Torn]
    /\ UNCHANGED <<phase, friends, signals, history>>

\* The list is in the file; the game's call sends its signal and returns.
EndWrite(n) ==
    /\ phase[n] # "down" /\ Locked(n)
    /\ file' = [file EXCEPT ![n] = friends[n]]
    /\ writing' = [writing EXCEPT ![n] = FALSE]
    /\ IF call[n].step = "write"
       THEN /\ signals' = [signals EXCEPT ![call[n].signal] = @ + 1]
            /\ call' = [call EXCEPT ![n] = Idle]
       ELSE UNCHANGED <<signals, call>>
    /\ UNCHANGED <<phase, friends, saves, history>>

\* SendFriendSignal finds no route to the peer, or the stream breaks.
Lose(m) ==
    /\ Lossy /\ signals[m] > 0
    /\ signals' = [signals EXCEPT ![m] = @ - 1]
    /\ lost' = TRUE
    /\ UNCHANGED <<phase, friends, file, call, saves, writing,
                   asked, stray, asks, answers, crashes>>

\* The process ends: everything but the file is gone.
Crash(n) ==
    /\ n \in Crashers /\ phase[n] # "down" /\ crashes < MaxCrashes
    /\ phase' = [phase EXCEPT ![n] = "down"]
    /\ friends' = [friends EXCEPT ![n] = Empty]
    /\ call' = [call EXCEPT ![n] = Idle]
    /\ saves' = [saves EXCEPT ![n] = 0]
    /\ writing' = [writing EXCEPT ![n] = FALSE]
    /\ crashes' = crashes + 1
    /\ UNCHANGED <<file, signals, asked, stray, asks, answers, lost>>

\* StartEdenNode, up to its stream handlers.
Start(n) ==
    /\ phase[n] = "down"
    /\ phase' = [phase EXCEPT ![n] = "starting"]
    /\ UNCHANGED <<friends, file, call, saves, writing, signals, history>>

\* A truncated file does not unmarshal.
Stored(f) == IF f = Torn THEN Empty ELSE f

\* Mutant of Merged: the list is whatever the file holds.
MergedRaw(list, f) == f

\* The file's entries are put over those of signals handled before.
Merged(list, f) ==
    [p \in Nodes |-> IF Stored(f)[p] # "none" THEN Stored(f)[p] ELSE list[p]]

\* LoadFriends; the node is started.
LoadFriends(n) ==
    /\ phase[n] = "starting" /\ Free(n)
    /\ phase' = [phase EXCEPT ![n] = "up"]
    /\ friends' = [friends EXCEPT ![n] = Merged(@, file[n])]
    /\ UNCHANGED <<file, call, saves, writing, signals, history>>

-----------------------------------------------------------------------------

Init ==
    /\ phase = [n \in Nodes |-> "up"]
    /\ friends = [n \in Nodes |-> Empty]
    /\ file = [n \in Nodes |-> Empty]
    /\ call = [n \in Nodes |-> Idle]
    /\ saves = [n \in Nodes |-> 0]
    /\ writing = [n \in Nodes |-> FALSE]
    /\ signals = [m \in Signal |-> 0]
    /\ asked = [n \in Nodes |-> {}]
    /\ stray = [n \in Nodes |-> {}]
    /\ asks = 0 /\ answers = 0 /\ crashes = 0 /\ lost = FALSE

Next ==
    \/ \E n \in Nodes :
         \/ \E p \in Nodes : AddFriendByCode(n, p) \/ FindRequest(n, p)
         \/ RespondToFriendRequest(n)
         \/ StartWrite(n) \/ EndWrite(n)
         \/ Crash(n) \/ Start(n) \/ LoadFriends(n)
    \/ \E m \in Signal : HandleFriendStream(m) \/ Lose(m)

Spec == Init /\ [][Next]_vars

-----------------------------------------------------------------------------
(* Properties.                                                             *)

TypeOK ==
    /\ phase \in [Nodes -> {"down", "starting", "up"}]
    /\ friends \in [Nodes -> List]
    /\ file \in [Nodes -> List \cup {Torn}]
    /\ call \in [Nodes -> Call]
    /\ saves \in [Nodes -> Nat]
    /\ writing \in [Nodes -> BOOLEAN]
    /\ signals \in [Signal -> Nat]
    /\ asked \in [Nodes -> SUBSET Nodes]
    /\ stray \in [Nodes -> SUBSET Nodes]
    /\ asks \in Nat /\ answers \in Nat /\ crashes \in Nat
    /\ lost \in BOOLEAN

\* One of the two asked the other and answered, by himself, what the other had
\* not asked: an answer is taken for any entry, one's own request too.
AnsweredHimself(n, p) ==
    \/ p \in asked[n] /\ p \in stray[n]
    \/ n \in asked[p] /\ n \in stray[p]

\* Two nodes are friends only after both players asked or accepted, whatever
\* is lost, reordered, read before an unlock and written after it, or left in
\* the file by an earlier run of the process; the one way round it is a player
\* who answers his own request, and it makes no other pair friends.
NeverFriendsUnasked ==
    \A n, p \in Nodes : friends[n][p] = "Confirmed" =>
        \/ p \in asked[n] /\ n \in asked[p]
        \/ AnsweredHimself(n, p)

\* With no save going on or due, the file holds the list: no handler, call or
\* start leaves a change that only the memory knows.
SavedWhenQuiet ==
    \A n \in Nodes :
        (phase[n] = "up" /\ ~ Locked(n) /\ saves[n] = 0 /\ call[n].step # "save")
        => Stored(file[n]) = friends[n]

\* The handshake of one request comes to an agreement: when all of it is
\* done, nothing was lost, nobody restarted and only requests that were
\* received were answered, both are friends, neither has an entry, or the
\* request awaits its answer.
HandshakeAgrees ==
    (/\ asks = 1 /\ ~ lost /\ crashes = 0
     /\ \A m \in Signal : signals[m] = 0
     /\ \A n \in Nodes : call[n] = Idle /\ stray[n] = {})
    => \A n, p \in Nodes : n # p =>
          \/ friends[n][p] = friends[p][n] /\ friends[n][p] \in {"none", "Confirmed"}
          \/ {friends[n][p], friends[p][n]} = {"Pending_Sent", "Pending_Received"}
=============================================================================
