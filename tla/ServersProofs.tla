--------------------------- MODULE ServersProofs ----------------------------
(* What holds of the servers of a process for any set of files, any number *)
(* of ports, writes, requests and signals, and with or without the reload  *)
(* on a signal.                                                            *)
EXTENDS Servers, FiniteSetTheorems, WellFoundedInduction, TLAPS

Closers == {"reload", "stop"}
Records ==
    [source : Sources, version : Nat, print : Nat, of : {"loaded", "retiring", "closed", "left"},
     child : BOOLEAN, active : Nat, closing : SUBSET Closers, onIdle : Closers \cup {"none"},
     expired : BOOLEAN]
Contents == [version : Nat, kind : {"good", "broken", "fails", "none"}]
Definitions == [source : Sources, content : Contents, print : Nat]

(* Types: of the files and the servers, and of the process                 *)
ServersOK ==
    /\ file \in [Sources -> Contents] /\ writes \in Nat
    /\ servers \in Seq(Records) /\ ports \in Nat
    /\ turn \in [step : {"none", "find", "print", "watch"}, left : Seq(Sources), kept : SUBSET Nat,
                 fresh : Seq(Definitions)]
    /\ stale \in Nat
    /\ {watched, changed, due, missed} \subseteq BOOLEAN

ProcessOK ==
    /\ process \in {"starting", "running", "ended"}
    /\ requests \in Nat /\ keptAlive \in Nat
    /\ soft \subseteq Signals /\ second \in [Signals -> Nat] /\ raised \subseteq Signals
    /\ signals \in Nat /\ guarded \in BOOLEAN
    /\ stop \in [phase : {"none", "asked", "closing", "behind"}, signal : Signals, late : BOOLEAN]

TypeOK == ServersOK /\ ProcessOK

(* What is being looked at in a reload is looked at once: the servers that *)
(* stay, what was loaded and what is left to look at are of different      *)
(* files, but for the definition whose fingerprint is still to be read.    *)
Looking == turn.step \in {"find", "print"}
LookedAtOnce ==
    /\ turn.kept \subseteq Loaded
    /\ \A m, n \in DOMAIN turn.left : turn.left[m] = turn.left[n] => m = n
    /\ \A m, n \in DOMAIN turn.fresh : turn.fresh[m].source = turn.fresh[n].source => m = n
    /\ \A i \in turn.kept, n \in DOMAIN turn.fresh : servers[i].source # turn.fresh[n].source
    /\ \A i \in turn.kept, m \in DOMAIN turn.left : servers[i].source # turn.left[m]
    /\ \A n \in DOMAIN turn.fresh, m \in DOMAIN turn.left :
          turn.fresh[n].source = turn.left[m] => turn.step = "print" /\ n = Len(turn.fresh) /\ m = 1
    /\ turn.step = "print" =>
          turn.left # <<>> /\ turn.fresh # <<>> /\ turn.fresh[Len(turn.fresh)].source = turn.left[1]

(* A file has one loaded server, and a child a server that is not closed,  *)
(* which the end of the process stops.                                     *)
EachOnce == \A i, j \in Loaded : servers[i].source = servers[j].source => i = j
ChildrenInUse ==
    \A i \in DOMAIN servers :
        servers[i].child => servers[i].of # "closed" /\ (process = "ended" => servers[i].of = "left")

(* As long as a stop goes on, a second signal of every kind would end the  *)
(* process.                                                                *)
SecondSignalEnds ==
    /\ \A s \in Signals \ StopSignals : second[s] = 0
    /\ (stop.phase # "none" /\ process # "ended") => \A s \in StopSignals : second[s] > 0

IInv ==
    /\ TypeOK
    /\ Looking => LookedAtOnce
    /\ EachOnce
    /\ ChildrenInUse
    /\ SecondSignalEnds
-----------------------------------------------------------------------------
(* The operators of the model                                              *)

(* SetToSeq lists every element once.                                      *)
LEMMA ListedOnce ==
    ASSUME NEW S, IsFiniteSet(S)
    PROVE  /\ SetToSeq(S) \in Seq(S) /\ Cardinality(S) \in Nat /\ Len(SetToSeq(S)) = Cardinality(S)
           /\ \A m, n \in DOMAIN SetToSeq(S) : SetToSeq(S)[m] = SetToSeq(S)[n] => m = n
  <1> DEFINE n == Cardinality(S)
             Lists(f) == f \in [1..n -> S] /\ \A a, b \in DOMAIN f : f[a] = f[b] => a = b
  <1>1. n \in Nat /\ ExistsBijection(1..n, S) BY FS_CardinalityType
  <1>2. \E f : Lists(f) BY <1>1 DEF ExistsBijection, Bijection, Injection, IsInjective
  <1>3. Lists(SetToSeq(S))
    <2>1. \E f \in [1..n -> S] : IsInjective(f) BY <1>2 DEF IsInjective
    <2>2. SetToSeq(S) \in [1..n -> S] /\ IsInjective(SetToSeq(S)) BY <2>1 DEF SetToSeq
    <2> QED BY <2>2 DEF IsInjective
  <1> QED BY <1>1, <1>3

LEMMA AtStartIsFinite == IsFiniteSet(AtStart) /\ IsFiniteSet(Sources)
  BY FS_Subset, ServersAssumption

(* What the closes and the end of the process do to a server: its file and *)
(* its requests are the same, it is not loaded again, and its child only   *)
(* goes on in the same place.                                              *)
Same(old, new) == new.source = old.source /\ new.active = old.active
Goes(old, new) ==
    /\ new.source = old.source
    /\ new.of = "loaded" => old.of = "loaded"
    /\ new.child => old.child /\ (new.of = old.of \/ new.of = "retiring")

LEMMA ClosedGoes ==
    ASSUME NEW s \in Records, NEW by \in Closers
    PROVE  /\ Closed(s, by) \in Records /\ Goes(s, Closed(s, by)) /\ Same(s, Closed(s, by))
           /\ ~Closed(s, by).child
  BY DEF Records, Closed, Goes, Same, Closers

LEMMA CloseGoes ==
    ASSUME NEW s \in Records, NEW by \in Closers
    PROVE  /\ Close(s, by) \in Records /\ Goes(s, Close(s, by)) /\ Same(s, Close(s, by))
           /\ s.child /\ ~Close(s, by).child => s.active = 0
  <1>1. CASE s.active = 0 BY <1>1, ClosedGoes DEF Close
  <1>2. CASE s.active # 0 BY <1>2 DEF Records, Close, Goes, Same, Closers
  <1> QED BY <1>1, <1>2

LEMMA RetiredGoes ==
    ASSUME NEW s \in Records, s.of = "loaded"
    PROVE  LET retired == Close([s EXCEPT !.of = "retiring"], "reload") IN
           /\ retired \in Records /\ Goes(s, retired) /\ Same(s, retired) /\ retired.of # "loaded"
           /\ s.child /\ ~retired.child => s.active = 0
  <1> DEFINE t == [s EXCEPT !.of = "retiring"]
  <1>1. t \in Records /\ t.of = "retiring" /\ Same(s, t) /\ t.child = s.child
    BY DEF Records, Same
  <1>2. /\ Close(t, "reload") \in Records /\ Goes(t, Close(t, "reload")) /\ Same(t, Close(t, "reload"))
        /\ t.child /\ ~Close(t, "reload").child => t.active = 0
    BY <1>1, CloseGoes DEF Closers
  <1> QED BY <1>1, <1>2 DEF Goes, Same

LEMMA TakenGoes ==
    ASSUME NEW s \in Records
    PROVE  LET t == [s EXCEPT !.active = @ + 1] IN t \in Records /\ Goes(s, t) /\ t.child = s.child
  BY DEF Records, Goes

LEMMA DoneGoes ==
    ASSUME NEW s \in Records, s.active > 0
    PROVE  /\ Done(s) \in Records /\ Goes(s, Done(s))
           /\ s.child /\ ~Done(s).child => Done(s).active = 0
  <1> DEFINE t == [s EXCEPT !.active = @ - 1]
  <1>1. t \in Records /\ Goes(s, t) /\ t.child = s.child /\ t.of = s.of
    BY DEF Records, Goes
  <1>2. CASE t.active = 0 /\ t.onIdle \in t.closing
    <2>1. t.onIdle \in Closers BY <1>1, <1>2 DEF Records
    <2>2. Closed(t, t.onIdle) \in Records /\ Goes(t, Closed(t, t.onIdle)) /\ Same(t, Closed(t, t.onIdle))
      BY <1>1, <2>1, ClosedGoes
    <2>3. Done(s) = Closed(t, t.onIdle) BY <1>2 DEF Done
    <2> QED BY <1>1, <1>2, <2>2, <2>3 DEF Goes, Same
  <1>3. CASE ~(t.active = 0 /\ t.onIdle \in t.closing)
    <2>1. Done(s) = t BY <1>3 DEF Done
    <2> QED BY <1>1, <2>1
  <1> QED BY <1>2, <1>3
-----------------------------------------------------------------------------
(* What the handlers do to the servers                                     *)

(* A handler that starts no server: each one goes on as it was, or goes.   *)
AllGo == /\ servers' \in Seq(Records) /\ DOMAIN servers' = DOMAIN servers
         /\ \A i \in DOMAIN servers : Goes(servers[i], servers'[i])

(* No server that has requests loses its child.                            *)
BusyStay ==
    \A i \in DOMAIN servers : servers[i].child /\ ~servers'[i].child /\ servers'[i].active > 0
        => servers'[i].expired

LEMMA OneGoes ==
    ASSUME servers \in Seq(Records), NEW i \in DOMAIN servers, NEW new \in Records,
           Goes(servers[i], new), servers' = [servers EXCEPT ![i] = new]
    PROVE  AllGo
  <1>1. servers' \in Seq(Records) /\ DOMAIN servers' = DOMAIN servers OBVIOUS
  <1>2. \A s : Goes(s, s) BY DEF Goes
  <1> QED BY <1>1, <1>2 DEF AllGo

LEMMA EachGoes ==
    ASSUME servers \in Seq(Records), NEW new, servers' = new, new = [i \in DOMAIN servers |-> new[i]],
           \A i \in DOMAIN servers : new[i] \in Records /\ Goes(servers[i], new[i])
    PROVE  AllGo
  BY DEF AllGo

LEMMA RequestGoes ==
    ASSUME TypeOK, NEW i \in DOMAIN servers, Request(i)
    PROVE  AllGo /\ BusyStay
  <1>1. servers \in Seq(Records) /\ servers[i] \in Records BY DEF TypeOK, ServersOK
  <1> DEFINE new == [servers[i] EXCEPT !.active = @ + 1]
  <1>2. servers' = [servers EXCEPT ![i] = new] BY DEF Request
  <1>3. new \in Records /\ Goes(servers[i], new) /\ new.child = servers[i].child BY <1>1, TakenGoes
  <1> HIDE DEF new
  <1>4. AllGo BY <1>1, <1>2, <1>3, OneGoes
  <1> QED BY <1>1, <1>2, <1>3, <1>4 DEF BusyStay

LEMMA AnswerGoes ==
    ASSUME TypeOK, NEW i \in DOMAIN servers, Answer(i)
    PROVE  AllGo /\ BusyStay
  <1>1. servers \in Seq(Records) /\ servers[i] \in Records /\ servers[i].active > 0
    BY DEF TypeOK, ServersOK, Answer
  <1> DEFINE new == Done(servers[i])
  <1>2. servers' = [servers EXCEPT ![i] = new] BY DEF Answer
  <1>3. /\ new \in Records /\ Goes(servers[i], new)
        /\ servers[i].child /\ ~new.child => new.active = 0
    BY <1>1, DoneGoes
  <1> HIDE DEF new
  <1>4. AllGo BY <1>1, <1>2, <1>3, OneGoes
  <1> QED BY <1>1, <1>2, <1>3, <1>4 DEF BusyStay

LEMMA CloseTimeoutGoes ==
    ASSUME TypeOK, NEW i \in DOMAIN servers, CloseTimeout(i)
    PROVE  AllGo /\ BusyStay
  <1>1. servers \in Seq(Records) /\ servers[i] \in Records BY DEF TypeOK, ServersOK
  <1>2. PICK by \in servers[i].closing :
           servers' = [servers EXCEPT ![i] = [Closed(servers[i], by) EXCEPT !.expired = TRUE]]
    BY DEF CloseTimeout
  <1> DEFINE old == Closed(servers[i], by)
             new == [old EXCEPT !.expired = TRUE]
  <1>3. old \in Records /\ Goes(servers[i], old)
    <2>1. by \in Closers BY <1>1 DEF Records
    <2> QED BY <1>1, <2>1, ClosedGoes
  <1>4. servers' = [servers EXCEPT ![i] = new] BY <1>2
  <1> HIDE DEF old
  <1>5. new \in Records /\ Goes(servers[i], new) /\ new.expired BY <1>3 DEF Records, Goes
  <1> HIDE DEF new
  <1>6. AllGo BY <1>1, <1>4, <1>5, OneGoes
  <1> QED BY <1>1, <1>4, <1>5, <1>6 DEF BusyStay

LEMMA StopBehindGoes ==
    ASSUME TypeOK, servers' = StopBehind
    PROVE  AllGo /\ BusyStay
  <1>1. servers \in Seq(Records) BY DEF TypeOK, ServersOK
  <1> DEFINE new == StopBehind
  <1>2. servers' = new /\ new = [i \in DOMAIN servers |-> new[i]] BY DEF StopBehind
  <1>3. ASSUME NEW i \in DOMAIN servers
        PROVE  /\ new[i] \in Records /\ Goes(servers[i], new[i])
               /\ servers[i].child /\ ~new[i].child => new[i].active = 0
    <2>1. servers[i] \in Records BY <1>1
    <2>2. CASE i \in Loaded
      <3>0. new[i] = Close(servers[i], "stop") BY <2>2 DEF StopBehind
      <3>1. "stop" \in Closers BY DEF Closers
      <3> QED BY <2>1, <3>0, <3>1, CloseGoes DEF Same
    <2>3. CASE i \notin Loaded BY <2>1, <2>3 DEF Goes, StopBehind
    <2> QED BY <2>2, <2>3
  <1> HIDE DEF new
  <1>4. AllGo BY <1>1, <1>2, <1>3, EachGoes
  <1>5. \A i \in DOMAIN servers : new[i].active = 0 => ~(new[i].active > 0) OBVIOUS
  <1> QED BY <1>2, <1>3, <1>4, <1>5 DEF BusyStay

(* What the end of the process does                                        *)
LEMMA ChildrenKilled ==
    ASSUME TypeOK, servers' = KillChildren
    PROVE  /\ AllGo
           /\ \A i \in DOMAIN servers : servers'[i].child =>
                 i \notin Instances /\ servers'[i] = servers[i]
  <1>1. servers \in Seq(Records) BY DEF TypeOK, ServersOK
  <1> DEFINE new == KillChildren
  <1>2. servers' = new /\ new = [i \in DOMAIN servers |-> new[i]] BY DEF KillChildren
  <1>3. ASSUME NEW i \in DOMAIN servers
        PROVE  /\ new[i] \in Records /\ Goes(servers[i], new[i])
               /\ new[i].child => i \notin Instances /\ new[i] = servers[i]
    <2>1. servers[i] \in Records BY <1>1
    <2>2. CASE i \in Instances
      <3>1. new[i] = [servers[i] EXCEPT !.child = FALSE] BY <2>2 DEF KillChildren
      <3> HIDE DEF new
      <3> QED BY <2>1, <3>1 DEF Records, Goes
    <2>3. CASE i \notin Instances BY <2>1, <2>3 DEF Goes, KillChildren
    <2> QED BY <2>2, <2>3
  <1> HIDE DEF new
  <1>4. AllGo BY <1>1, <1>2, <1>3, EachGoes
  <1> QED BY <1>2, <1>3, <1>4
-----------------------------------------------------------------------------
(* The start of the servers of a reload                                    *)

LEMMA LeastOf == ASSUME NEW T \in SUBSET Nat, T # {} PROVE \E n \in T : \A m \in T : n <= m
  <1> DEFINE R == OpToRel(<, Nat)
  <1>1. PICK n \in T : \A m \in T : ~(<<m, n>> \in R)
    <2>1. IsWellFoundedOn(R, Nat) BY NatLessThanWellFounded
    <2> HIDE DEF R
    <2> QED BY <2>1, WFMin
  <1>2. \A m \in T : ~(m < n) BY <1>1 DEF OpToRel
  <1>3. \A m \in Nat : ~(m < n) => n <= m OBVIOUS
  <1> QED BY <1>2, <1>3

(* All of them start, or those before the first that throws, each with a   *)
(* port.                                                                   *)
LEMMA StartingWithPorts ==
    ASSUME TypeOK
    PROVE  Starting \in 0..Len(turn.fresh) /\ Starting <= ports
  <1> DEFINE throwing == {n \in DOMAIN turn.fresh : StartThrows(n)}
  <1>1. turn.fresh \in Seq(Definitions) /\ ports \in Nat /\ DOMAIN turn.fresh = 1..Len(turn.fresh)
        /\ Len(turn.fresh) \in Nat
    BY DEF TypeOK, ServersOK
  <1>2. \A n \in DOMAIN turn.fresh : n \notin throwing => n <= ports BY <1>1 DEF StartThrows
  <1>3. CASE throwing = {}
    <2>1. Starting = Len(turn.fresh) BY <1>3 DEF Starting
    <2>2. Len(turn.fresh) = 0 \/ Len(turn.fresh) \in DOMAIN turn.fresh BY <1>1
    <2> HIDE DEF throwing
    <2> QED BY <1>1, <1>2, <1>3, <2>1, <2>2
  <1>4. CASE throwing # {}
    <2> DEFINE least == CHOOSE n \in throwing : \A m \in throwing : n <= m
    <2>1. Starting = least - 1 BY <1>4 DEF Starting
    <2>2. throwing \in SUBSET Nat BY <1>1
    <2>3. throwing \subseteq DOMAIN turn.fresh OBVIOUS
    <2> HIDE DEF throwing
    <2>4. least \in throwing /\ \A m \in throwing : least <= m BY <1>4, <2>2, LeastOf
    <2> HIDE DEF least
    <2>5. least \in 1..Len(turn.fresh) BY <1>1, <2>3, <2>4
    <2>6. least - 1 = 0 \/ (least - 1 \in DOMAIN turn.fresh /\ least - 1 \notin throwing)
      BY <1>1, <2>4, <2>5
    <2>7. least - 1 <= ports BY <1>1, <1>2, <2>5, <2>6
    <2> QED BY <1>1, <2>1, <2>5, <2>7
  <1> QED BY <1>3, <1>4

LEMMA DefinitionsTyped ==
    ASSUME TypeOK, NEW n \in DOMAIN turn.fresh
    PROVE  /\ turn.fresh[n] \in Definitions
           /\ StartedServer(turn.fresh[n]) \in Records
           /\ StartedServer(turn.fresh[n]).source = turn.fresh[n].source
           /\ StartedServer(turn.fresh[n]).of = "loaded"
  <1>1. turn.fresh[n] \in Definitions BY DEF TypeOK, ServersOK
  <1>2. \A d \in Definitions : /\ StartedServer(d) \in Records
                               /\ StartedServer(d).source = d.source /\ StartedServer(d).of = "loaded"
    BY DEF Definitions, Contents, Records, StartedServer, Server
  <1> QED BY <1>1, <1>2

(* what is retired when a reload has started its servers                   *)
LEMMA ApplyGoes ==
    ASSUME TypeOK
    PROVE  /\ Apply \in Seq(Records) /\ DOMAIN Apply = DOMAIN servers /\ Len(Apply) = Len(servers)
           /\ \A i \in DOMAIN servers :
                 /\ Goes(servers[i], Apply[i])
                 /\ Apply[i].of = "loaded" => i \in turn.kept
                 /\ servers[i].child /\ ~Apply[i].child => servers[i].active = 0 /\ Apply[i].active = 0
  <1>1. servers \in Seq(Records) BY DEF TypeOK, ServersOK
  <1>2. Apply = [i \in DOMAIN servers |-> Apply[i]] BY DEF Apply
  <1>3. ASSUME NEW i \in DOMAIN servers
        PROVE  /\ Apply[i] \in Records /\ Goes(servers[i], Apply[i])
               /\ Apply[i].of = "loaded" => i \in turn.kept
               /\ servers[i].child /\ ~Apply[i].child => servers[i].active = 0 /\ Apply[i].active = 0
    <2>1. servers[i] \in Records BY <1>1
    <2>2. CASE i \in Loaded \ turn.kept
      <3>1. Apply[i] = Close([servers[i] EXCEPT !.of = "retiring"], "reload") BY <2>2 DEF Apply
      <3>2. servers[i].of = "loaded" BY <2>2 DEF Loaded
      <3> QED BY <2>1, <3>1, <3>2, RetiredGoes DEF Same
    <2>3. CASE i \notin Loaded \ turn.kept
      <3>1. Apply[i] = servers[i] BY <2>3 DEF Apply
      <3> QED BY <2>1, <2>3, <3>1 DEF Goes, Loaded
    <2> QED BY <2>2, <2>3
  <1>4. DOMAIN Apply = DOMAIN servers /\ \A i \in DOMAIN servers : Apply[i] \in Records
    BY <1>2, <1>3
  <1>5. Apply \in Seq(Records) /\ Len(Apply) = Len(servers)
    <2>1. DOMAIN servers = 1..Len(servers) /\ Len(servers) \in Nat BY <1>1
    <2> QED BY <1>2, <1>4, <2>1
  <1> QED BY <1>3, <1>4, <1>5

(* Servers that were there, and others behind them                         *)
LEMMA Behind ==
    ASSUME NEW first \in Seq(Records), NEW more \in Seq(Records)
    PROVE  /\ first \o more \in Seq(Records) /\ DOMAIN (first \o more) = 1..(Len(first) + Len(more))
           /\ \A i \in DOMAIN first : i \in DOMAIN (first \o more) /\ (first \o more)[i] = first[i]
           /\ \A i \in DOMAIN (first \o more) : i \notin DOMAIN first =>
                 i - Len(first) \in DOMAIN more /\ (first \o more)[i] = more[i - Len(first)]
  OBVIOUS

Unfinished(started) == [n \in DOMAIN started |-> Closed(started[n], "reload")]

(* The servers that were loaded take the place of those that do not stay;  *)
(* or one throws, and those before it are closed again.                    *)
LEMMA StartIs ==
    ASSUME TypeOK, StartServers
    PROVE  \/ \E started \in Seq(Records) :
                 /\ servers' = Apply \o started /\ Len(started) = Len(turn.fresh)
                 /\ \A n \in DOMAIN started : started[n].source = turn.fresh[n].source /\ started[n].of = "loaded"
           \/ \E more \in Seq(Records) :
                 /\ servers' = servers \o more
                 /\ \A n \in DOMAIN more : more[n].of # "loaded" /\ (more[n].child => more[n].of = "left")
  <1> DEFINE started == [n \in 1..Starting |-> StartedServer(turn.fresh[n])]
  <1>1. /\ Starting \in Nat /\ Starting <= Len(turn.fresh) /\ Len(turn.fresh) \in Nat
        /\ DOMAIN turn.fresh = 1..Len(turn.fresh)
    BY StartingWithPorts DEF TypeOK, ServersOK
  <1>2. \A n \in 1..Starting : n \in DOMAIN turn.fresh BY <1>1
  <1>3. started \in Seq(Records) /\ Len(started) = Starting /\ DOMAIN started = 1..Starting
    <2>1. \A n \in 1..Starting : started[n] \in Records BY <1>2, DefinitionsTyped
    <2> QED BY <1>1, <2>1
  <1>4. CASE Starting = Len(turn.fresh) /\ servers' = Apply \o started
    <2>1. \A n \in DOMAIN started : started[n].source = turn.fresh[n].source /\ started[n].of = "loaded"
      BY <1>2, <1>3, DefinitionsTyped
    <2> HIDE DEF started
    <2> QED BY <1>3, <1>4, <2>1
  <1>5. CASE /\ Starting < Len(turn.fresh)
             /\ servers' = servers \o Unfinished(started)
                   \o (IF Starting + 1 <= ports
                       THEN <<[StartedServer(turn.fresh[Starting + 1]) EXCEPT !.of = "left"]>> ELSE <<>>)
    <2> DEFINE left == [StartedServer(turn.fresh[Starting + 1]) EXCEPT !.of = "left"]
               last == IF Starting + 1 <= ports THEN <<left>> ELSE <<>>
               stopped == Unfinished(started)
    <2>1. stopped \in Seq(Records) /\ \A n \in DOMAIN stopped : stopped[n].of # "loaded" /\ ~stopped[n].child
      <3>1. \A s \in Records : /\ Closed(s, "reload") \in Records /\ Closed(s, "reload").of = "closed"
                               /\ ~Closed(s, "reload").child
        BY DEF Records, Closed
      <3> HIDE DEF started
      <3>2. DOMAIN stopped = 1..Starting /\ \A n \in 1..Starting :
               /\ started[n] \in Records
               /\ stopped[n] = Closed(started[n], "reload")
        BY <1>3 DEF Unfinished
      <3>3. stopped = [n \in 1..Starting |-> Closed(started[n], "reload")] BY <1>3 DEF Unfinished
      <3> HIDE DEF stopped
      <3>4. \A n \in 1..Starting : stopped[n] \in Records BY <3>1, <3>2
      <3>5. stopped \in Seq(Records) BY <1>1, <3>3, <3>4
      <3> QED BY <3>1, <3>2, <3>5
    <2>2. last \in Seq(Records) /\ \A n \in DOMAIN last : last[n].of = "left"
      <3>1. Starting + 1 \in DOMAIN turn.fresh BY <1>1, <1>5
      <3>2. \A s \in Records : LET t == [s EXCEPT !.of = "left"] IN t \in Records /\ t.of = "left"
        BY DEF Records
      <3>3. left \in Records /\ left.of = "left" BY <3>1, <3>2, DefinitionsTyped
      <3> HIDE DEF left
      <3> QED BY <3>3
    <2>3. servers' = servers \o (stopped \o last)
      <3>1. servers' = (servers \o stopped) \o last BY <1>5
      <3>2. servers \in Seq(Records) BY DEF TypeOK, ServersOK
      <3> HIDE DEF stopped, last
      <3> QED BY <2>1, <2>2, <3>1, <3>2
    <2> HIDE DEF stopped, last
    <2> DEFINE more == stopped \o last
    <2>4. more \in Seq(Records) /\ \A n \in DOMAIN more :
             more[n].of # "loaded" /\ (more[n].child => more[n].of = "left")
      <3> HIDE DEF more
      <3>1. \A n \in DOMAIN more : \/ n \in DOMAIN stopped /\ more[n] = stopped[n]
                                   \/ n - Len(stopped) \in DOMAIN last /\ more[n] = last[n - Len(stopped)]
        <4>1. more = stopped \o last BY DEF more
        <4>2. /\ \A i \in DOMAIN stopped : more[i] = stopped[i]
              /\ \A i \in DOMAIN more : i \notin DOMAIN stopped =>
                    i - Len(stopped) \in DOMAIN last /\ more[i] = last[i - Len(stopped)]
          BY <2>1, <2>2, <4>1, Behind
        <4> QED BY <4>2
      <3>2. more \in Seq(Records) BY <2>1, <2>2 DEF more
      <3> QED BY <2>1, <2>2, <3>1, <3>2
    <2> QED BY <2>3, <2>4
  <1> QED BY <1>4, <1>5 DEF StartServers, Unfinished

LEMMA GoesKeep ==
    ASSUME TypeOK, EachOnce, ChildrenInUse, AllGo
    PROVE  /\ EachOnce'
           /\ \A i \in DOMAIN servers' : servers'[i].child => servers'[i].of # "closed"
  <1>1. DOMAIN servers' = DOMAIN servers /\ \A i \in DOMAIN servers : Goes(servers[i], servers'[i])
    BY DEF AllGo
  <1>2. \A i \in Loaded' : i \in Loaded /\ servers'[i].source = servers[i].source
    BY <1>1 DEF Loaded, Goes
  <1> QED BY <1>1, <1>2 DEF EachOnce, ChildrenInUse, Goes

LEMMA StartKeeps ==
    ASSUME TypeOK, LookedAtOnce, EachOnce, ChildrenInUse, StartServers
    PROVE  /\ servers' \in Seq(Records) /\ EachOnce' /\ BusyStay
           /\ \A i \in DOMAIN servers' : servers'[i].child => servers'[i].of # "closed"
  <1>1. servers \in Seq(Records) BY DEF TypeOK, ServersOK
  <1>2. CASE \E started \in Seq(Records) :
                 /\ servers' = Apply \o started /\ Len(started) = Len(turn.fresh)
                 /\ \A n \in DOMAIN started : started[n].source = turn.fresh[n].source /\ started[n].of = "loaded"
    <2>1. PICK started \in Seq(Records) :
             /\ servers' = Apply \o started /\ Len(started) = Len(turn.fresh)
             /\ \A n \in DOMAIN started : started[n].source = turn.fresh[n].source /\ started[n].of = "loaded"
      BY <1>2
    <2>2. Apply \in Seq(Records) /\ DOMAIN Apply = DOMAIN servers /\ Len(Apply) = Len(servers)
      BY ApplyGoes
    <2>3. /\ servers' \in Seq(Records)
          /\ \A i \in DOMAIN servers : i \in DOMAIN servers' /\ servers'[i] = Apply[i]
          /\ \A i \in DOMAIN servers' : i \notin DOMAIN servers =>
                i - Len(servers) \in DOMAIN started /\ servers'[i] = started[i - Len(servers)]
      BY <2>1, <2>2, Behind
    <2>4. DOMAIN started = DOMAIN turn.fresh BY <2>1 DEF TypeOK, ServersOK
    <2> DEFINE Stays(i) == i \in turn.kept /\ servers'[i].source = servers[i].source
               IsNew(i) == /\ i \notin DOMAIN servers /\ i - Len(servers) \in DOMAIN turn.fresh
                           /\ servers'[i].source = turn.fresh[i - Len(servers)].source
    <2>5. \A i \in Loaded' : Stays(i) \/ IsNew(i)
      <3>1. \A i \in DOMAIN servers : servers'[i].of = "loaded" => Stays(i)
        BY <2>3, ApplyGoes DEF Goes
      <3>2. \A i \in DOMAIN servers' : i \notin DOMAIN servers => IsNew(i) BY <2>1, <2>3, <2>4
      <3> QED BY <3>1, <3>2 DEF Loaded
    <2>6. turn.kept \subseteq Loaded /\ Loaded \subseteq DOMAIN servers BY DEF LookedAtOnce, Loaded
    <2>7. ASSUME NEW i \in Loaded', NEW j \in Loaded', servers'[i].source = servers'[j].source PROVE i = j
      <3>1. CASE Stays(i) /\ Stays(j) BY <2>6, <2>7, <3>1 DEF EachOnce
      <3>2. CASE Stays(i) /\ IsNew(j) BY <2>7, <3>2 DEF LookedAtOnce
      <3>3. CASE IsNew(i) /\ Stays(j) BY <2>7, <3>3 DEF LookedAtOnce
      <3>4. CASE IsNew(i) /\ IsNew(j)
        <4>1. i - Len(servers) = j - Len(servers) BY <2>7, <3>4 DEF LookedAtOnce
        <4>2. i \in Nat /\ j \in Nat /\ Len(servers) \in Nat BY <1>1, <2>3 DEF Loaded
        <4> QED BY <4>1, <4>2
      <3> QED BY <2>5, <3>1, <3>2, <3>3, <3>4
    <2>8. EachOnce' BY <2>7 DEF EachOnce
    <2>9. BusyStay BY <2>3, ApplyGoes DEF BusyStay
    <2>10. ASSUME NEW i \in DOMAIN servers', servers'[i].child PROVE servers'[i].of # "closed"
      <3>1. CASE i \in DOMAIN servers BY <2>3, <2>10, <3>1, ApplyGoes DEF Goes, ChildrenInUse
      <3>2. CASE i \notin DOMAIN servers
        <4>1. servers'[i] = started[i - Len(servers)] /\ i - Len(servers) \in DOMAIN started
          BY <2>3, <3>2
        <4> QED BY <2>1, <4>1
      <3> QED BY <3>1, <3>2
    <2> QED BY <2>3, <2>8, <2>9, <2>10
  <1>3. CASE \E more \in Seq(Records) :
                 /\ servers' = servers \o more
                 /\ \A n \in DOMAIN more : more[n].of # "loaded" /\ (more[n].child => more[n].of = "left")
    <2>1. PICK more \in Seq(Records) :
             /\ servers' = servers \o more
             /\ \A n \in DOMAIN more : more[n].of # "loaded" /\ (more[n].child => more[n].of = "left")
      BY <1>3
    <2>2. /\ servers' \in Seq(Records)
          /\ \A i \in DOMAIN servers : i \in DOMAIN servers' /\ servers'[i] = servers[i]
          /\ \A i \in DOMAIN servers' : i \notin DOMAIN servers =>
                i - Len(servers) \in DOMAIN more /\ servers'[i] = more[i - Len(servers)]
      BY <1>1, <2>1, Behind
    <2>3. \A i \in Loaded' : i \in Loaded /\ servers'[i] = servers[i] BY <2>1, <2>2 DEF Loaded
    <2>4. EachOnce' BY <2>3 DEF EachOnce
    <2>5. BusyStay BY <2>2 DEF BusyStay
    <2>6. \A i \in DOMAIN servers' : servers'[i].child => servers'[i].of # "closed"
      BY <2>1, <2>2 DEF ChildrenInUse
    <2> QED BY <2>2, <2>4, <2>5, <2>6
  <1> QED BY <1>2, <1>3, StartIs
-----------------------------------------------------------------------------
(* The turn of a reload                                                    *)

Turns == [step : {"none", "find", "print", "watch"}, left : Seq(Sources), kept : SUBSET Nat,
          fresh : Seq(Definitions)]

LEMMA TurnTyped == TypeOK => /\ turn \in Turns /\ turn.left \in Seq(Sources) /\ turn.fresh \in Seq(Definitions)
                             /\ turn.kept \in SUBSET Nat
                             /\ DOMAIN turn.left = 1..Len(turn.left) /\ Len(turn.left) \in Nat
                             /\ DOMAIN turn.fresh = 1..Len(turn.fresh) /\ Len(turn.fresh) \in Nat
  BY DEF TypeOK, ServersOK, Turns

LEMMA QuietTyped == Quiet \in Turns /\ Quiet.step = "none"
  BY DEF Quiet, Turns

LEMMA FindSources ==
    LET found == Find(SetToSeq(Sources)) IN
    /\ found \in Turns /\ found.step = "find" /\ found.kept = {} /\ found.fresh = <<>>
    /\ \A m, n \in DOMAIN found.left : found.left[m] = found.left[n] => m = n
  <1>1. SetToSeq(Sources) \in Seq(Sources)
        /\ \A m, n \in DOMAIN SetToSeq(Sources) : SetToSeq(Sources)[m] = SetToSeq(Sources)[n] => m = n
    BY ListedOnce, AtStartIsFinite
  <1>2. ASSUME NEW s \in Seq(Sources)
        PROVE  LET found == Find(s) IN
               /\ found \in Turns /\ found.step = "find" /\ found.kept = {} /\ found.fresh = <<>>
               /\ found.left = s
    BY <1>2 DEF Find, Turns
  <1> QED BY <1>1, <1>2

LEMMA ReloadBegins ==
    ASSUME turn' = Find(SetToSeq(Sources)), UNCHANGED servers
    PROVE  turn' \in Turns /\ LookedAtOnce'
  <1>1. /\ turn' \in Turns /\ turn'.step = "find" /\ turn'.kept = {} /\ turn'.fresh = <<>>
        /\ \A m, n \in DOMAIN turn'.left : turn'.left[m] = turn'.left[n] => m = n
    BY FindSources
  <1>2. turn'.step # "print" /\ DOMAIN turn'.fresh = {} BY <1>1
  <1> QED BY <1>1, <1>2 DEF LookedAtOnce

(* the tail of what is left to look at                                     *)
LEMMA LeftTaken ==
    ASSUME NEW s \in Seq(Sources), s # <<>>
    PROVE  /\ Tail(s) \in Seq(Sources) /\ Head(s) = s[1] /\ 1 \in DOMAIN s /\ Head(s) \in Sources
           /\ \A m \in DOMAIN Tail(s) : m + 1 \in DOMAIN s /\ m + 1 # 1 /\ Tail(s)[m] = s[m + 1]
           /\ \A m, n \in DOMAIN Tail(s) : m + 1 = n + 1 => m = n
  OBVIOUS

LEMMA FindStays ==
    ASSUME TypeOK, LookedAtOnce, turn.step = "find", turn.left # <<>>, UNCHANGED servers,
           turn' = [turn EXCEPT !.left = Tail(@), !.kept = @ \cup RunningFor(Head(turn.left))]
    PROVE  turn' \in Turns /\ LookedAtOnce'
  <1> DEFINE running == RunningFor(Head(turn.left))
  <1>1. /\ turn.left \in Seq(Sources) /\ turn \in Turns
        /\ running \subseteq Loaded /\ Loaded \subseteq Nat
        /\ \A i \in running : servers[i].source = Head(turn.left)
    BY TurnTyped DEF RunningFor, Loaded, TypeOK, ServersOK
  <1>2. /\ Tail(turn.left) \in Seq(Sources) /\ Head(turn.left) = turn.left[1] /\ 1 \in DOMAIN turn.left
        /\ \A m \in DOMAIN Tail(turn.left) :
              m + 1 \in DOMAIN turn.left /\ m + 1 # 1 /\ Tail(turn.left)[m] = turn.left[m + 1]
        /\ \A m, n \in DOMAIN Tail(turn.left) : m + 1 = n + 1 => m = n
    BY <1>1, LeftTaken
  <1> HIDE DEF running
  <1>3. /\ turn' \in Turns /\ turn'.step = "find" /\ turn'.left = Tail(turn.left)
        /\ turn'.kept = turn.kept \cup running /\ turn'.fresh = turn.fresh
    BY <1>1, <1>2 DEF Turns, running
  <1>4. Loaded' = Loaded BY DEF Loaded
  <1>5. turn'.kept \subseteq Loaded' BY <1>1, <1>3, <1>4 DEF LookedAtOnce
  <1>6. \A m, n \in DOMAIN turn'.left : turn'.left[m] = turn'.left[n] => m = n
    BY <1>2, <1>3 DEF LookedAtOnce
  <1>7. \A n \in DOMAIN turn.fresh, m \in DOMAIN turn.left : turn.fresh[n].source # turn.left[m]
    BY DEF LookedAtOnce
  <1>8. \A i \in turn'.kept, n \in DOMAIN turn'.fresh : servers'[i].source # turn'.fresh[n].source
    BY <1>1, <1>2, <1>3, <1>7 DEF LookedAtOnce
  <1>9. \A i \in turn'.kept, m \in DOMAIN turn'.left : servers'[i].source # turn'.left[m]
    BY <1>1, <1>2, <1>3 DEF LookedAtOnce
  <1>10. \A n \in DOMAIN turn'.fresh, m \in DOMAIN turn'.left : turn'.fresh[n].source # turn'.left[m]
    BY <1>2, <1>3, <1>7
  <1> QED BY <1>3, <1>5, <1>6, <1>8, <1>9, <1>10 DEF LookedAtOnce

LEMMA FindGone ==
    ASSUME TypeOK, LookedAtOnce, turn.step = "find", turn.left # <<>>, UNCHANGED servers,
           turn' = [turn EXCEPT !.left = Tail(@)]
    PROVE  turn' \in Turns /\ LookedAtOnce'
  <1>1. turn.left \in Seq(Sources) /\ turn \in Turns BY TurnTyped
  <1>2. /\ Tail(turn.left) \in Seq(Sources)
        /\ \A m \in DOMAIN Tail(turn.left) :
              m + 1 \in DOMAIN turn.left /\ m + 1 # 1 /\ Tail(turn.left)[m] = turn.left[m + 1]
        /\ \A m, n \in DOMAIN Tail(turn.left) : m + 1 = n + 1 => m = n
    BY <1>1, LeftTaken
  <1>3. /\ turn' \in Turns /\ turn'.step = "find" /\ turn'.left = Tail(turn.left)
        /\ turn'.kept = turn.kept /\ turn'.fresh = turn.fresh
    BY <1>1, <1>2 DEF Turns
  <1>4. Loaded' = Loaded BY DEF Loaded
  <1> QED BY <1>2, <1>3, <1>4 DEF LookedAtOnce

LEMMA FindLoads ==
    ASSUME TypeOK, LookedAtOnce, turn.step = "find", turn.left # <<>>, UNCHANGED servers,
           turn' = [turn EXCEPT !.step = "print",
                                !.fresh = Append(@, Candidate(Head(turn.left), file[Head(turn.left)], 0))]
    PROVE  turn' \in Turns /\ LookedAtOnce'
  <1> DEFINE last == Candidate(Head(turn.left), file[Head(turn.left)], 0)
             n == Len(turn.fresh) + 1
  <1>1. /\ turn.left \in Seq(Sources) /\ turn \in Turns /\ turn.fresh \in Seq(Definitions)
        /\ Head(turn.left) = turn.left[1] /\ 1 \in DOMAIN turn.left /\ Head(turn.left) \in Sources
    BY TurnTyped, LeftTaken
  <1>2. last \in Definitions /\ last.source = turn.left[1]
    BY <1>1 DEF Candidate, Definitions, TypeOK, ServersOK
  <1> HIDE DEF last
  <1>3. /\ turn' \in Turns /\ turn'.step = "print" /\ turn'.left = turn.left
        /\ turn'.kept = turn.kept /\ turn'.fresh = Append(turn.fresh, last)
    <2>1. turn' = [turn EXCEPT !.step = "print", !.fresh = Append(turn.fresh, last)]
      BY <1>1 DEF Turns, last
    <2>2. Append(turn.fresh, last) \in Seq(Definitions) BY <1>1, <1>2
    <2> QED BY <1>1, <2>1, <2>2 DEF Turns
  <1>4. /\ Len(turn'.fresh) = n /\ n \in DOMAIN turn'.fresh /\ turn'.fresh[n] = last /\ turn'.fresh # <<>>
        /\ \A k \in DOMAIN turn'.fresh : k = n \/ (k \in DOMAIN turn.fresh /\ turn'.fresh[k] = turn.fresh[k])
    BY <1>1, <1>2, <1>3
  <1> HIDE DEF n
  <1>5. Loaded' = Loaded BY DEF Loaded
  <1>6. \A k \in DOMAIN turn.fresh, m \in DOMAIN turn.left : turn.fresh[k].source # turn.left[m]
    BY DEF LookedAtOnce
  <1>7. \A k, m \in DOMAIN turn'.fresh : turn'.fresh[k].source = turn'.fresh[m].source => k = m
    BY <1>1, <1>2, <1>4, <1>6 DEF LookedAtOnce
  <1>8. \A i \in turn'.kept, k \in DOMAIN turn'.fresh : servers'[i].source # turn'.fresh[k].source
    BY <1>1, <1>2, <1>3, <1>4 DEF LookedAtOnce
  <1>9. \A k \in DOMAIN turn'.fresh, m \in DOMAIN turn'.left :
           turn'.fresh[k].source = turn'.left[m] => k = Len(turn'.fresh) /\ m = 1
    BY <1>1, <1>2, <1>3, <1>4, <1>6 DEF LookedAtOnce
  <1> QED BY <1>1, <1>2, <1>3, <1>4, <1>5, <1>7, <1>8, <1>9 DEF LookedAtOnce

LEMMA FingerprintLooks ==
    ASSUME TypeOK, LookedAtOnce, Fingerprint
    PROVE  turn' \in Turns /\ LookedAtOnce'
  <1> DEFINE n == Len(turn.fresh)
             print == ReadFingerprint(Head(turn.left))
             fresh == [turn.fresh EXCEPT ![n].print = print]
  <1>1. /\ turn.left \in Seq(Sources) /\ turn \in Turns /\ turn.fresh \in Seq(Definitions)
        /\ turn.left # <<>> /\ turn.step = "print" /\ UNCHANGED servers
    BY TurnTyped DEF Fingerprint, LookedAtOnce
  <1>2. /\ Tail(turn.left) \in Seq(Sources) /\ Head(turn.left) = turn.left[1] /\ 1 \in DOMAIN turn.left
        /\ Head(turn.left) \in Sources
        /\ \A m \in DOMAIN Tail(turn.left) :
              m + 1 \in DOMAIN turn.left /\ m + 1 # 1 /\ Tail(turn.left)[m] = turn.left[m + 1]
        /\ \A m, k \in DOMAIN Tail(turn.left) : m + 1 = k + 1 => m = k
    BY <1>1, LeftTaken
  <1>3. print \in Nat BY <1>2 DEF ReadFingerprint, TypeOK, ServersOK, Contents
  <1>4. /\ fresh \in Seq(Definitions) /\ DOMAIN fresh = DOMAIN turn.fresh
        /\ \A k \in DOMAIN fresh : fresh[k].source = turn.fresh[k].source
    <2> HIDE DEF print
    <2>1. \A d \in Definitions : LET e == [d EXCEPT !.print = print] IN
             e \in Definitions /\ e.source = d.source
      BY <1>3 DEF Definitions
    <2>2. DOMAIN fresh = DOMAIN turn.fresh /\ \A k \in DOMAIN fresh :
             fresh[k] = IF k = n THEN [turn.fresh[n] EXCEPT !.print = print] ELSE turn.fresh[k]
      OBVIOUS
    <2>3. fresh = [k \in DOMAIN turn.fresh |-> fresh[k]] OBVIOUS
    <2> HIDE DEF fresh, n
    <2>4. \A k \in DOMAIN turn.fresh : turn.fresh[k] \in Definitions BY <1>1
    <2>5. \A k \in DOMAIN fresh : fresh[k] \in Definitions /\ fresh[k].source = turn.fresh[k].source
      BY <2>1, <2>2, <2>4
    <2>6. fresh \in Seq(Definitions)
      <3>1. DOMAIN turn.fresh = 1..Len(turn.fresh) /\ Len(turn.fresh) \in Nat BY <1>1
      <3> QED BY <2>2, <2>3, <2>5, <3>1
    <2> QED BY <2>2, <2>5, <2>6
  <1> HIDE DEF print, fresh, n
  <1>5. /\ turn' \in Turns /\ turn'.step = "find" /\ turn'.left = Tail(turn.left)
        /\ turn'.kept = turn.kept /\ turn'.fresh = fresh
    <2>1. turn' = [turn EXCEPT !.step = "find", !.left = Tail(turn.left), !.fresh = fresh]
      BY <1>1 DEF Fingerprint, fresh, n, print, Turns
    <2> QED BY <1>1, <1>2, <1>4, <2>1 DEF Turns
  <1>6. Loaded' = Loaded BY <1>1 DEF Loaded
  <1>7. \A k \in DOMAIN turn'.fresh, m \in DOMAIN turn'.left : turn'.fresh[k].source # turn'.left[m]
    BY <1>2, <1>4, <1>5 DEF LookedAtOnce
  <1> QED BY <1>1, <1>2, <1>4, <1>5, <1>6, <1>7 DEF LookedAtOnce

LEMMA FindLooks ==
    ASSUME TypeOK, LookedAtOnce, FindCandidate
    PROVE  turn' \in Turns /\ (Looking' => LookedAtOnce')
  <1>1. turn.step = "find" /\ turn.left # <<>> /\ UNCHANGED servers BY DEF FindCandidate
  <1>2. \/ turn' = [turn EXCEPT !.left = Tail(@), !.kept = @ \cup RunningFor(Head(turn.left))]
        \/ turn' = [turn EXCEPT !.left = Tail(@)]
        \/ turn' = [turn EXCEPT !.step = "watch"]
        \/ turn' = [turn EXCEPT !.step = "print",
                                !.fresh = Append(@, Candidate(Head(turn.left), file[Head(turn.left)], 0))]
    BY DEF FindCandidate, Fails
  <1>3. CASE turn' = [turn EXCEPT !.step = "watch"]
    BY <1>3, TurnTyped DEF Turns, Looking
  <1> QED BY <1>1, <1>2, <1>3, FindStays, FindGone, FindLoads
-----------------------------------------------------------------------------
(* Every step                                                              *)

LEMMA KilledKeep ==
    ASSUME TypeOK, EachOnce, ChildrenInUse, servers' = KillChildren
    PROVE  servers' \in Seq(Records) /\ EachOnce' /\ ChildrenInUse'
  <1>1. AllGo /\ \A i \in DOMAIN servers : servers'[i].child => i \notin Instances /\ servers'[i] = servers[i]
    BY ChildrenKilled
  <1>2. servers' \in Seq(Records) /\ DOMAIN servers' = DOMAIN servers BY <1>1 DEF AllGo
  <1>3. \A i \in DOMAIN servers : servers[i].of \in {"loaded", "retiring", "closed", "left"}
    <2>1. \A i \in DOMAIN servers : servers[i] \in Records BY DEF TypeOK, ServersOK
    <2> QED BY <2>1 DEF Records
  <1>4. ASSUME NEW i \in DOMAIN servers', servers'[i].child
        PROVE  servers'[i].of = "left"
    BY <1>1, <1>2, <1>3, <1>4 DEF ChildrenInUse, Instances, Loaded, Retiring
  <1>5. EachOnce' BY <1>1, GoesKeep
  <1> QED BY <1>2, <1>4, <1>5 DEF ChildrenInUse

LEMMA ServersKept ==
    ASSUME IInv, [Next]_vars
    PROVE  servers' \in Seq(Records) /\ EachOnce' /\ ChildrenInUse'
  <1> USE DEF fileVars, reloadVars, clientVars, exitVars
  <1>0. TypeOK /\ EachOnce /\ ChildrenInUse /\ (Looking => LookedAtOnce) BY DEF IInv
  <1>1. ASSUME UNCHANGED servers, process' = "ended" => process = "ended"
        PROVE  servers' \in Seq(Records) /\ EachOnce' /\ ChildrenInUse'
    BY <1>0, <1>1 DEF EachOnce, Loaded, ChildrenInUse, TypeOK, ServersOK
  <1>2. ASSUME AllGo, UNCHANGED process, Free
        PROVE  servers' \in Seq(Records) /\ EachOnce' /\ ChildrenInUse'
    <2>1. EachOnce' /\ \A i \in DOMAIN servers' : servers'[i].child => servers'[i].of # "closed"
      BY <1>0, <1>2, GoesKeep
    <2>2. process' # "ended" /\ servers' \in Seq(Records) BY <1>2 DEF Free, AllGo
    <2> QED BY <2>1, <2>2 DEF ChildrenInUse
  <1>3. CASE UNCHANGED vars BY <1>1, <1>3 DEF vars
  <1>4. CASE Start \/ Noticed \/ DebounceFires \/ HangUp BY <1>1, <1>4 DEF Start, Noticed, DebounceFires, HangUp
  <1>5. CASE Reload
    <2>1. CASE FindCandidate \/ Fingerprint \/ Watch BY <1>1, <2>1 DEF FindCandidate, Fingerprint, Watch
    <2>2. CASE StartServers
      <3>1. LookedAtOnce /\ process = "running" /\ UNCHANGED process BY <1>0, <2>2 DEF StartServers, Looking
      <3>2. /\ servers' \in Seq(Records) /\ EachOnce'
            /\ \A i \in DOMAIN servers' : servers'[i].child => servers'[i].of # "closed"
        BY <1>0, <2>2, <3>1, StartKeeps
      <3> QED BY <3>1, <3>2 DEF ChildrenInUse
    <2> QED BY <1>5, <2>1, <2>2 DEF Reload
  <1>6. ASSUME NEW source \in Sources, Write(source) PROVE servers' \in Seq(Records) /\ EachOnce' /\ ChildrenInUse'
    BY <1>1, <1>6 DEF Write
  <1>7. ASSUME NEW i \in DOMAIN servers, Request(i) \/ Answer(i) \/ CloseTimeout(i)
        PROVE  servers' \in Seq(Records) /\ EachOnce' /\ ChildrenInUse'
    <2>1. AllGo BY <1>0, <1>7, RequestGoes, AnswerGoes, CloseTimeoutGoes
    <2>2. Free /\ UNCHANGED process BY <1>7 DEF Request, Answer, CloseTimeout
    <2> QED BY <1>2, <2>1, <2>2
  <1>8. ASSUME NEW signal \in Signals, Signal(signal) \/ StopSoftly(signal)
        PROVE  servers' \in Seq(Records) /\ EachOnce' /\ ChildrenInUse'
    BY <1>1, <1>8 DEF Signal, StopSoftly
  <1>9. ASSUME NEW signal \in Signals, StopAtOnce(signal)
        PROVE  servers' \in Seq(Records) /\ EachOnce' /\ ChildrenInUse'
    BY <1>0, <1>9, KilledKeep DEF StopAtOnce
  <1>10. CASE Exception BY <1>0, <1>10, KilledKeep DEF Exception
  <1>11. CASE Stop
    <2>1. CASE StopListening \/ SweepIdle BY <1>1, <2>1 DEF StopListening, SweepIdle
    <2>2. CASE ConnectionsClosed \/ StopTimeout
      <3>1. Free /\ UNCHANGED process /\ servers' = StopBehind BY <2>2 DEF ConnectionsClosed, StopTimeout
      <3> QED BY <1>0, <1>2, <3>1, StopBehindGoes
    <2>3. CASE StopOver BY <1>0, <2>3, KilledKeep DEF StopOver
    <2> QED BY <1>11, <2>1, <2>2, <2>3 DEF Stop
  <1> QED BY <1>3, <1>4, <1>5, <1>6, <1>7, <1>8, <1>9, <1>10, <1>11 DEF Next

LEMMA TurnKept ==
    ASSUME IInv, [Next]_vars
    PROVE  turn' \in Turns /\ (Looking' => LookedAtOnce')
  <1> USE DEF fileVars, reloadVars, clientVars, exitVars
  <1>0. TypeOK /\ (Looking => LookedAtOnce) /\ turn \in Turns BY TurnTyped DEF IInv
  <1>1. ASSUME UNCHANGED turn, UNCHANGED servers \/ Free
        PROVE  turn' \in Turns /\ (Looking' => LookedAtOnce')
    <2>1. CASE Free BY <1>0, <1>1, <2>1 DEF Free, Looking
    <2>2. CASE UNCHANGED servers BY <1>0, <1>1, <2>2 DEF Looking, LookedAtOnce, Loaded
    <2> QED BY <1>1, <2>1, <2>2
  <1>2. CASE UNCHANGED vars BY <1>1, <1>2 DEF vars
  <1>3. CASE Start \/ Noticed BY <1>1, <1>3 DEF Start, Noticed
  <1>4. CASE DebounceFires \/ HangUp BY <1>4, ReloadBegins DEF DebounceFires, HangUp
  <1>5. CASE Reload
    <2>1. CASE FindCandidate BY <1>0, <2>1, FindLooks DEF FindCandidate, Looking
    <2>2. CASE Fingerprint BY <1>0, <2>2, FingerprintLooks DEF Fingerprint, Looking
    <2>3. CASE StartServers BY <1>0, <2>3 DEF StartServers, Turns, Looking
    <2>4. CASE Watch BY <2>4, QuietTyped DEF Watch, Looking
    <2> QED BY <1>5, <2>1, <2>2, <2>3, <2>4 DEF Reload
  <1>6. ASSUME NEW source \in Sources, Write(source) PROVE turn' \in Turns /\ (Looking' => LookedAtOnce')
    BY <1>1, <1>6 DEF Write
  <1>7. ASSUME NEW i \in DOMAIN servers, Request(i) \/ Answer(i) \/ CloseTimeout(i)
        PROVE  turn' \in Turns /\ (Looking' => LookedAtOnce')
    BY <1>1, <1>7 DEF Request, Answer, CloseTimeout
  <1>8. ASSUME NEW signal \in Signals, Signal(signal) \/ StopSoftly(signal) \/ StopAtOnce(signal)
        PROVE  turn' \in Turns /\ (Looking' => LookedAtOnce')
    BY <1>1, <1>8 DEF Signal, StopSoftly, StopAtOnce
  <1>9. CASE Exception BY <1>1, <1>9 DEF Exception
  <1>10. CASE Stop
    BY <1>1, <1>10 DEF Stop, StopListening, SweepIdle, ConnectionsClosed, StopTimeout, StopOver
  <1> QED BY <1>2, <1>3, <1>4, <1>5, <1>6, <1>7, <1>8, <1>9, <1>10 DEF Next

FilesOK ==
    /\ file \in [Sources -> Contents] /\ writes \in Nat /\ ports \in Nat /\ stale \in Nat
    /\ {watched, changed, due, missed} \subseteq BOOLEAN

LEMMA FilesKept ==
    ASSUME TypeOK, [Next]_vars
    PROVE  FilesOK'
  <1> USE DEF fileVars, reloadVars, clientVars, exitVars
  <1>0. FilesOK BY DEF TypeOK, ServersOK, FilesOK
  <1>1. ASSUME UNCHANGED <<file, writes, ports, stale, watched, changed, due, missed>> PROVE FilesOK'
    BY <1>0, <1>1 DEF FilesOK
  <1>2. CASE UNCHANGED vars BY <1>1, <1>2 DEF vars
  <1>3. CASE Start \/ Noticed BY <1>0, <1>3 DEF Start, Noticed, FilesOK
  <1>4. CASE DebounceFires
    <2>1. stale \in Nat BY <1>0 DEF FilesOK
    <2>2. stale' = stale \/ (stale > 0 /\ stale' = stale - 1) BY <1>4 DEF DebounceFires
    <2>3. stale' \in Nat BY <2>1, <2>2
    <2>4. due' = FALSE \/ due' = due BY <1>4 DEF DebounceFires
    <2>5. UNCHANGED <<file, writes, ports, watched, changed, missed>> BY <1>4 DEF DebounceFires
    <2> QED BY <1>0, <2>3, <2>4, <2>5 DEF FilesOK
  <1>5. CASE HangUp BY <1>1, <1>5 DEF HangUp
  <1>6. CASE FindCandidate \/ Fingerprint BY <1>1, <1>6 DEF FindCandidate, Fingerprint
  <1>7. CASE StartServers
    <2>1. Starting \in Nat /\ Starting <= ports BY StartingWithPorts DEF TypeOK, ServersOK
    <2>2. ports \in Nat BY <1>0 DEF FilesOK
    <2>3. \/ ports' = ports - Starting
          \/ ports' = ports - Starting - (IF Starting + 1 <= ports THEN 1 ELSE 0)
      BY <1>7 DEF StartServers
    <2>4. ports' \in Nat BY <2>1, <2>2, <2>3
    <2>5. UNCHANGED <<file, writes, stale, watched, changed, due, missed>> BY <1>7 DEF StartServers
    <2> QED BY <1>0, <2>4, <2>5 DEF FilesOK
  <1>8. CASE Watch
    <2>1. stale \in Nat BY <1>0 DEF FilesOK
    <2>2. stale' = stale \/ stale' = stale + 1 BY <1>8 DEF Watch
    <2>3. stale' \in Nat BY <2>1, <2>2
    <2>4. watched' = TRUE /\ changed' = FALSE /\ due' = FALSE /\ UNCHANGED <<file, writes, ports, missed>>
      BY <1>8 DEF Watch
    <2> QED BY <1>0, <2>3, <2>4 DEF FilesOK
  <1>9. ASSUME NEW source \in Sources, Write(source) PROVE FilesOK'
    <2>1. PICK kind \in Kinds :
             file' = [file EXCEPT ![source] =
                         IF kind = "none" THEN Gone ELSE [version |-> writes + 2, kind |-> kind]]
      BY <1>9 DEF Write
    <2>2. writes \in Nat /\ file \in [Sources -> Contents] BY <1>0 DEF FilesOK
    <2>3. kind \in {"good", "broken", "fails", "none"} BY ServersAssumption
    <2>4. Gone \in Contents /\ [version |-> writes + 2, kind |-> kind] \in Contents
      BY <2>2, <2>3 DEF Gone, Contents
    <2>5. file' \in [Sources -> Contents] BY <2>1, <2>2, <2>4
    <2>6. writes' \in Nat BY <1>9, <2>2 DEF Write
    <2>7. {watched', changed', due', missed'} \subseteq BOOLEAN /\ UNCHANGED <<ports, stale>>
      BY <1>0, <1>9 DEF Write, FilesOK
    <2> QED BY <1>0, <2>5, <2>6, <2>7 DEF FilesOK
  <1>10. ASSUME NEW i \in DOMAIN servers, Request(i) \/ Answer(i) \/ CloseTimeout(i) PROVE FilesOK'
    BY <1>1, <1>10 DEF Request, Answer, CloseTimeout
  <1>11. ASSUME NEW signal \in Signals, Signal(signal) \/ StopSoftly(signal) \/ StopAtOnce(signal)
         PROVE  FilesOK'
    BY <1>1, <1>11 DEF Signal, StopSoftly, StopAtOnce
  <1>12. CASE Exception BY <1>1, <1>12 DEF Exception
  <1>13. CASE Stop
    BY <1>1, <1>13 DEF Stop, StopListening, SweepIdle, ConnectionsClosed, StopTimeout, StopOver
  <1> QED
    BY <1>2, <1>3, <1>4, <1>5, <1>6, <1>7, <1>8, <1>9, <1>10, <1>11, <1>12, <1>13 DEF Next, Reload

ClientsOK == requests \in Nat /\ keptAlive \in Nat /\ signals \in Nat
ListenersOK == soft \subseteq Signals /\ raised \subseteq Signals /\ second \in [Signals -> Nat]
PhaseOK ==
    /\ process \in {"starting", "running", "ended"} /\ guarded \in BOOLEAN
    /\ stop \in [phase : {"none", "asked", "closing", "behind"}, signal : Signals, late : BOOLEAN]

LEMMA ClientsKept == ASSUME TypeOK, [Next]_vars PROVE ClientsOK'
  <1> USE DEF fileVars, reloadVars, clientVars, exitVars
  <1>0. ClientsOK BY DEF TypeOK, ProcessOK, ClientsOK
  <1>1. ASSUME UNCHANGED <<requests, keptAlive, signals>> PROVE ClientsOK' BY <1>0, <1>1 DEF ClientsOK
  <1>2. CASE UNCHANGED vars BY <1>1, <1>2 DEF vars
  <1>3. CASE Start \/ Noticed \/ DebounceFires \/ HangUp
    BY <1>1, <1>3 DEF Start, Noticed, DebounceFires, HangUp
  <1>4. CASE Reload BY <1>1, <1>4 DEF Reload, FindCandidate, Fingerprint, StartServers, Watch
  <1>5. ASSUME NEW source \in Sources, Write(source) PROVE ClientsOK' BY <1>1, <1>5 DEF Write
  <1>6. ASSUME NEW i \in DOMAIN servers, CloseTimeout(i) PROVE ClientsOK' BY <1>1, <1>6 DEF CloseTimeout
  <1>7. ASSUME NEW i \in DOMAIN servers, Request(i) PROVE ClientsOK'
    <2>1. UNCHANGED signals /\ requests' = requests + 1 BY <1>7 DEF Request
    <2>2. keptAlive' = keptAlive \/ (keptAlive > 0 /\ keptAlive' = keptAlive - 1)
      BY <1>7, Zenon DEF Request
    <2> QED BY <1>0, <2>1, <2>2 DEF ClientsOK
  <1>8. ASSUME NEW i \in DOMAIN servers, Answer(i) PROVE ClientsOK'
    <2>1. UNCHANGED <<signals, requests>> /\ (keptAlive' = keptAlive \/ keptAlive' = keptAlive + 1)
      BY <1>8 DEF Answer
    <2> QED BY <1>0, <2>1 DEF ClientsOK
  <1>9. ASSUME NEW signal \in Signals, Signal(signal) PROVE ClientsOK'
    BY <1>0, <1>9 DEF Signal, ClientsOK
  <1>10. ASSUME NEW signal \in Signals, StopSoftly(signal) \/ StopAtOnce(signal) PROVE ClientsOK'
    BY <1>1, <1>10 DEF StopSoftly, StopAtOnce
  <1>11. CASE Exception BY <1>0, <1>11 DEF Exception, ClientsOK
  <1>12. CASE Stop
    BY <1>0, <1>12 DEF Stop, StopListening, SweepIdle, ConnectionsClosed, StopTimeout, StopOver, ClientsOK
  <1> QED
    BY <1>2, <1>3, <1>4, <1>5, <1>6, <1>7, <1>8, <1>9, <1>10, <1>11, <1>12 DEF Next

LEMMA StopSignalsAre == {"INT", "TERM"} \subseteq StopSignals /\ StopSignals \subseteq Signals
  BY DEF StopSignals, Signals

LEMMA PhaseKept == ASSUME TypeOK, [Next]_vars PROVE PhaseOK'
  <1> USE DEF fileVars, reloadVars, clientVars, exitVars
  <1> DEFINE Stops == [phase : {"none", "asked", "closing", "behind"}, signal : Signals, late : BOOLEAN]
             Processes == {"starting", "running", "ended"}
  <1>0. process \in Processes /\ guarded \in BOOLEAN /\ stop \in Stops BY DEF TypeOK, ProcessOK
  <1>1. ASSUME process' = process \/ process' \in {"running", "ended"},
               guarded' = guarded \/ guarded' \in BOOLEAN, stop' = stop \/ stop' \in Stops
        PROVE  PhaseOK'
    <2>1. process' \in Processes BY <1>0, <1>1
    <2>2. guarded' \in BOOLEAN BY <1>0, <1>1
    <2>3. stop' \in Stops BY <1>0, <1>1
    <2> QED BY <2>1, <2>2, <2>3 DEF PhaseOK
  <1>2. /\ [stop EXCEPT !.phase = "closing"] \in Stops /\ [stop EXCEPT !.phase = "behind"] \in Stops
        /\ [stop EXCEPT !.phase = "behind", !.late = TRUE] \in Stops
        /\ [stop EXCEPT !.phase = "none"] \in Stops
    BY <1>0
  <1>3. \A signal \in Signals : StopAsked(signal) \in Stops BY DEF StopAsked
  <1> HIDE DEF Stops, Processes
  <1>4. CASE UNCHANGED vars BY <1>1, <1>4 DEF vars
  <1>5. CASE Start \/ Noticed \/ DebounceFires \/ HangUp
    BY <1>1, <1>5 DEF Start, Noticed, DebounceFires, HangUp
  <1>6. CASE Reload BY <1>1, <1>6 DEF Reload, FindCandidate, Fingerprint, StartServers, Watch
  <1>7. ASSUME NEW source \in Sources, Write(source) PROVE PhaseOK' BY <1>1, <1>7 DEF Write
  <1>8. ASSUME NEW i \in DOMAIN servers, Request(i) \/ Answer(i) \/ CloseTimeout(i) PROVE PhaseOK'
    BY <1>1, <1>8 DEF Request, Answer, CloseTimeout
  <1>9. ASSUME NEW signal \in Signals, Signal(signal) \/ StopSoftly(signal) \/ StopAtOnce(signal)
        PROVE  PhaseOK'
    BY <1>1, <1>3, <1>9 DEF Signal, StopSoftly, StopAtOnce
  <1>10. CASE Exception BY <1>1, <1>10 DEF Exception, Raise
  <1>11. CASE Stop
    BY <1>1, <1>2, <1>11
    DEF Stop, StopListening, SweepIdle, ConnectionsClosed, StopTimeout, StopOver, Raise
  <1> QED BY <1>4, <1>5, <1>6, <1>7, <1>8, <1>9, <1>10, <1>11 DEF Next

LEMMA ListenersKept == ASSUME TypeOK, [Next]_vars PROVE ListenersOK'
  <1> USE DEF fileVars, reloadVars, clientVars, exitVars
  <1>0. ListenersOK BY DEF TypeOK, ProcessOK, ListenersOK
  <1>1. ASSUME soft' \subseteq Signals, raised' \subseteq Signals, second' \in [Signals -> Nat]
        PROVE  ListenersOK'
    BY <1>1 DEF ListenersOK
  <1>2. ASSUME UNCHANGED <<soft, raised, second>> PROVE ListenersOK' BY <1>0, <1>2 DEF ListenersOK
  <1>3. CASE UNCHANGED vars BY <1>2, <1>3 DEF vars
  <1>4. CASE Start BY <1>0, <1>4, StopSignalsAre DEF Start, ListenersOK
  <1>5. CASE Noticed \/ DebounceFires BY <1>2, <1>5 DEF Noticed, DebounceFires
  <1>6. CASE Reload BY <1>2, <1>6 DEF Reload, FindCandidate, Fingerprint, StartServers, Watch
  <1>7. ASSUME NEW source \in Sources, Write(source) PROVE ListenersOK' BY <1>2, <1>7 DEF Write
  <1>8. ASSUME NEW i \in DOMAIN servers, Request(i) \/ Answer(i) \/ CloseTimeout(i) PROVE ListenersOK'
    BY <1>2, <1>8 DEF Request, Answer, CloseTimeout
  <1>9. ASSUME NEW signal \in Signals, Signal(signal) PROVE ListenersOK'
    BY <1>0, <1>9 DEF Signal, ListenersOK
  <1>10. ASSUME NEW signal \in Signals, StopSoftly(signal) PROVE ListenersOK'
    <2>1. \A s \in Signals : second[s] + (IF s \in StopSignals THEN 1 ELSE 0) \in Nat
      BY <1>0 DEF ListenersOK
    <2>2. second' \in [Signals -> Nat] BY <1>10, <2>1 DEF StopSoftly
    <2>3. soft' \subseteq Signals /\ raised' \subseteq Signals BY <1>0, <1>10 DEF StopSoftly, ListenersOK
    <2> QED BY <1>1, <2>2, <2>3
  <1>11. ASSUME NEW signal \in Signals, StopAtOnce(signal) PROVE ListenersOK'
    <2>1. \A s \in Signals :
             (IF s = signal THEN 0 ELSE second[s]) + (IF signal \in soft /\ s \in StopSignals THEN 1 ELSE 0) \in Nat
      BY <1>0 DEF ListenersOK
    <2>2. second' \in [Signals -> Nat] BY <1>11, <2>1 DEF StopAtOnce
    <2>3. soft' \subseteq Signals /\ raised' \subseteq Signals BY <1>0, <1>11 DEF StopAtOnce, ListenersOK
    <2> QED BY <1>1, <2>2, <2>3
  <1>12. CASE HangUp BY <1>0, <1>12 DEF HangUp, ListenersOK
  <1>13. CASE Exception
    <2>1. "INT" \in Signals BY DEF Signals
    <2> QED BY <1>0, <1>13, <2>1 DEF Exception, Raise, ListenersOK
  <1>14. CASE Stop
    <2>1. CASE StopListening \/ SweepIdle \/ ConnectionsClosed \/ StopTimeout
      BY <1>2, <2>1 DEF StopListening, SweepIdle, ConnectionsClosed, StopTimeout
    <2>2. CASE StopOver
      <3>1. \A s \in Signals :
               (IF s \in StopSignals /\ second[s] > 0 THEN second[s] - 1 ELSE second[s]) \in Nat
        BY <1>0 DEF ListenersOK
      <3>2. second' \in [Signals -> Nat] BY <2>2, <3>1 DEF StopOver
      <3>3. stop.signal \in Signals BY DEF TypeOK, ProcessOK
      <3>4. soft' \subseteq Signals /\ raised' \subseteq Signals
        BY <1>0, <2>2, <3>3 DEF StopOver, Raise, ListenersOK
      <3> QED BY <1>1, <3>2, <3>4
    <2> QED BY <1>14, <2>1, <2>2 DEF Stop
  <1> QED
    BY <1>3, <1>4, <1>5, <1>6, <1>7, <1>8, <1>9, <1>10, <1>11, <1>12, <1>13, <1>14 DEF Next

LEMMA TypeKept == ASSUME IInv, [Next]_vars PROVE TypeOK'
  <1>1. TypeOK BY DEF IInv
  <1>2. servers' \in Seq(Records) /\ turn' \in Turns BY ServersKept, TurnKept
  <1>3. FilesOK' /\ ClientsOK' /\ PhaseOK' /\ ListenersOK'
    BY <1>1, FilesKept, ClientsKept, PhaseKept, ListenersKept
  <1> QED
    BY <1>2, <1>3 DEF TypeOK, ServersOK, ProcessOK, FilesOK, ClientsOK, PhaseOK, ListenersOK, Turns

LEMMA SecondKept == ASSUME IInv, [Next]_vars PROVE SecondSignalEnds'
  <1> USE DEF fileVars, reloadVars, clientVars, exitVars
  <1>0. SecondSignalEnds /\ second \in [Signals -> Nat] BY DEF IInv, TypeOK, ProcessOK
  <1>1. ASSUME UNCHANGED second,
               stop'.phase # "none" /\ process' # "ended" => stop.phase # "none" /\ process # "ended"
        PROVE  SecondSignalEnds'
    BY <1>0, <1>1 DEF SecondSignalEnds
  <1>2. ASSUME UNCHANGED <<second, stop>>, process' = process \/ process' = "ended" \/ process # "ended"
        PROVE  SecondSignalEnds'
    BY <1>0, <1>2 DEF SecondSignalEnds
  <1>3. CASE UNCHANGED vars BY <1>2, <1>3 DEF vars
  <1>4. CASE Start \/ Noticed \/ DebounceFires \/ HangUp
    BY <1>2, <1>4 DEF Start, Noticed, DebounceFires, HangUp
  <1>5. CASE Reload BY <1>2, <1>5 DEF Reload, FindCandidate, Fingerprint, StartServers, Watch
  <1>6. ASSUME NEW source \in Sources, Write(source) PROVE SecondSignalEnds' BY <1>2, <1>6 DEF Write
  <1>7. ASSUME NEW i \in DOMAIN servers, Request(i) \/ Answer(i) \/ CloseTimeout(i)
        PROVE  SecondSignalEnds'
    BY <1>2, <1>7 DEF Request, Answer, CloseTimeout
  <1>8. ASSUME NEW signal \in Signals, Signal(signal) PROVE SecondSignalEnds' BY <1>2, <1>8 DEF Signal
  <1>9. ASSUME NEW signal \in Signals, StopSoftly(signal) PROVE SecondSignalEnds'
    <2>1. \A s \in Signals : second'[s] = second[s] + (IF s \in StopSignals THEN 1 ELSE 0)
      BY <1>9 DEF StopSoftly
    <2>2. \A s \in Signals : second[s] \in Nat BY <1>0
    <2>3. \A s \in StopSignals : second'[s] > 0 BY <2>1, <2>2, StopSignalsAre
    <2>4. \A s \in Signals \ StopSignals : second'[s] = 0 BY <1>0, <2>1, <2>2 DEF SecondSignalEnds
    <2> QED BY <2>3, <2>4 DEF SecondSignalEnds
  <1>10. ASSUME NEW signal \in Signals, StopAtOnce(signal) PROVE SecondSignalEnds'
    <2> DEFINE again == signal \in soft
    <2>1. /\ \A s \in Signals : second'[s] = (IF s = signal THEN 0 ELSE second[s])
                                   + (IF again /\ s \in StopSignals THEN 1 ELSE 0)
          /\ second[signal] > 0 /\ UNCHANGED stop /\ Free /\ soft' = soft \ {signal}
          /\ HasListener(signal, soft', second') \/ process' = "ended"
      BY <1>10 DEF StopAtOnce
    <2>2. \A s \in Signals : second[s] \in Nat BY <1>0
    <2>3. signal \in StopSignals BY <1>0, <2>1, <2>2 DEF SecondSignalEnds
    <2>4. \A s \in Signals \ StopSignals : second'[s] = 0 BY <1>0, <2>1, <2>2, <2>3 DEF SecondSignalEnds
    <2>5. CASE again
      <3>1. \A s \in StopSignals : second'[s] > 0
        <4>1. \A s \in StopSignals : second'[s] = (IF s = signal THEN 0 ELSE second[s]) + 1
          BY <2>1, <2>5, StopSignalsAre
        <4> QED BY <2>2, <4>1, StopSignalsAre
      <3> QED BY <2>4, <3>1 DEF SecondSignalEnds
    <2>6. CASE ~again
      <3>1. second'[signal] = 0 BY <2>1, <2>6
      <3>2. ~(signal = "HUP" /\ ReloadOnSighup) BY <2>3 DEF StopSignals
      <3>3. ~HasListener(signal, soft', second') BY <2>1, <3>1, <3>2 DEF HasListener
      <3>4. process' = "ended" BY <2>1, <3>3
      <3> QED BY <2>4, <3>4 DEF SecondSignalEnds
    <2> QED BY <2>5, <2>6
  <1>11. CASE Exception
    <2>1. UNCHANGED <<second, stop>> /\ Free BY <1>11 DEF Exception
    <2> QED BY <1>2, <2>1 DEF Free
  <1>12. CASE Stop
    <2>1. CASE StopListening \/ SweepIdle \/ ConnectionsClosed \/ StopTimeout
      <3>1. UNCHANGED <<second, process>> /\ stop.phase # "none"
        BY <2>1 DEF StopListening, SweepIdle, ConnectionsClosed, StopTimeout
      <3> QED BY <1>1, <3>1
    <2>2. CASE StopOver
      <3>1. \A s \in Signals : second'[s] =
               IF s \in StopSignals /\ second[s] > 0 THEN second[s] - 1 ELSE second[s]
        BY <2>2 DEF StopOver
      <3>2. \A s \in Signals \ StopSignals : second'[s] = 0 BY <1>0, <3>1 DEF SecondSignalEnds
      <3>3. stop'.phase = "none" BY <2>2 DEF StopOver, IInv, TypeOK, ProcessOK
      <3> QED BY <3>2, <3>3 DEF SecondSignalEnds
    <2> QED BY <1>12, <2>1, <2>2 DEF Stop
  <1> QED
    BY <1>3, <1>4, <1>5, <1>6, <1>7, <1>8, <1>9, <1>10, <1>11, <1>12 DEF Next

-----------------------------------------------------------------------------
(* The first load, and the theorems                                        *)

LEMMA IInvInitially == Init => IInv
  <1> SUFFICES ASSUME Init PROVE IInv OBVIOUS
  <1> DEFINE there == SetToSeq(AtStart)
  <1>1. /\ there \in Seq(AtStart) /\ Len(there) = Cardinality(AtStart) /\ Cardinality(AtStart) \in Nat
        /\ \A m, n \in DOMAIN there : there[m] = there[n] => m = n
    BY ListedOnce, AtStartIsFinite
  <1>2. AtStart \subseteq Sources /\ Cardinality(AtStart) <= Ports /\ Ports \in Nat BY ServersAssumption
  <1>3. file = [s \in Sources |-> IF s \in AtStart THEN Good(1) ELSE Gone] BY DEF Init
  <1>4. file \in [Sources -> Contents] BY <1>3 DEF Good, Gone, Contents
  <1>5. servers = [i \in DOMAIN there |-> Server(there[i], file[there[i]], 1)] /\ ports = Ports - Len(there)
    BY DEF Init
  <1> HIDE DEF there
  <1>6. DOMAIN there = 1..Len(there) /\ \A i \in DOMAIN there : there[i] \in Sources BY <1>1, <1>2
  <1>7. \A s \in Sources : LET server == Server(s, file[s], 1) IN
           server \in Records /\ server.source = s /\ server.of = "loaded"
    <2>1. \A s \in Sources : file[s].version \in Nat BY <1>4 DEF Contents
    <2> QED BY <2>1 DEF Server, Records
  <1>8. \A i \in DOMAIN there : servers[i] \in Records /\ servers[i].source = there[i] /\ servers[i].of = "loaded"
    BY <1>5, <1>6, <1>7
  <1>9. servers \in Seq(Records) /\ DOMAIN servers = DOMAIN there
    <2>1. DOMAIN servers = DOMAIN there /\ servers = [i \in 1..Len(there) |-> servers[i]] BY <1>5, <1>6
    <2>2. Len(there) \in Nat BY <1>1
    <2> QED BY <1>6, <1>8, <2>1, <2>2
  <1>10. ports \in Nat BY <1>1, <1>2, <1>5
  <1>11. turn \in Turns /\ turn.step = "none" BY QuietTyped DEF Init
  <1>12. FilesOK
    <2>1. writes = 0 /\ stale = 0 /\ watched = FALSE /\ changed = FALSE /\ due = FALSE /\ missed = FALSE
      BY DEF Init
    <2> QED BY <1>4, <1>10, <2>1 DEF FilesOK
  <1>13. ClientsOK /\ ListenersOK /\ PhaseOK
    <2>1. requests = 0 /\ keptAlive = 0 /\ signals = 0 /\ soft = {} /\ raised = {} BY DEF Init
    <2>2. second = [signal \in Signals |-> 0] /\ process = "starting" /\ guarded = FALSE
          /\ stop = [phase |-> "none", signal |-> "TERM", late |-> FALSE]
      BY DEF Init
    <2> QED BY <2>1, <2>2 DEF ClientsOK, ListenersOK, PhaseOK, Signals
  <1>14. TypeOK
    BY <1>9, <1>11, <1>12, <1>13
    DEF TypeOK, ServersOK, ProcessOK, FilesOK, ClientsOK, PhaseOK, ListenersOK, Turns
  <1>15. EachOnce BY <1>1, <1>8, <1>9 DEF EachOnce, Loaded
  <1>16. ChildrenInUse
    <2>1. process # "ended" BY DEF Init
    <2> QED BY <1>8, <1>9, <2>1 DEF ChildrenInUse
  <1>17. SecondSignalEnds
    <2>1. second = [signal \in Signals |-> 0] /\ stop = [phase |-> "none", signal |-> "TERM", late |-> FALSE]
      BY DEF Init
    <2> QED BY <2>1 DEF SecondSignalEnds
  <1> QED BY <1>11, <1>14, <1>15, <1>16, <1>17 DEF IInv, Looking

LEMMA Invariant == Spec => []IInv
  <1>1. IInv /\ [Next]_vars => IInv'
    BY TypeKept, ServersKept, TurnKept, SecondKept DEF IInv
  <1> QED BY <1>1, IInvInitially, PTL DEF Spec

(* Every variable keeps its type, for any files, ports, requests and       *)
(* signals.                                                                *)
THEOREM TypeCorrect == Spec => []TypeOK
  BY Invariant, PTL DEF IInv

(* A process of a server belongs to one that the stop of the process asks  *)
(* for, and an entry has one loaded server, whatever is written into the   *)
(* files while they are loaded again and whatever signals come meanwhile:  *)
(* no reload starts a second server next to one that runs, and no close    *)
(* or end of the process leaves a child, but of a server that failed after *)
(* its process was spawned.                                                *)
THEOREM ChildrenStayKnown == Spec => []ChildrenAreKnown
  <1>1. IInv => ChildrenAreKnown
    <2> SUFFICES ASSUME IInv PROVE ChildrenAreKnown OBVIOUS
    <2>1. ASSUME NEW i \in DOMAIN servers, servers[i].child
          PROVE  servers[i].of = "left" \/ (i \in Loaded \cup Retiring /\ process # "ended")
      <3>1. servers[i] \in Records BY DEF IInv, TypeOK, ServersOK
      <3>2. servers[i].of \in {"loaded", "retiring", "closed", "left"} BY <3>1 DEF Records
      <3> QED BY <2>1, <3>2 DEF IInv, ChildrenInUse, Loaded, Retiring
    <2> QED BY <2>1 DEF ChildrenAreKnown, IInv, EachOnce
  <1> QED BY <1>1, Invariant, PTL

(* What ends children without waiting for their requests is seen: a        *)
(* listener of a second signal, the one of exceptions or the end of the    *)
(* process.                                                                *)
LEMMA KillsAreSeen ==
    ASSUME IInv, \/ \E signal \in Signals : StopAtOnce(signal)
                 \/ Exception
                 \/ StopOver
    PROVE  <<second, guarded, process>>' # <<second, guarded, process>>
  <1>1. SecondSignalEnds /\ second \in [Signals -> Nat] BY DEF IInv, TypeOK, ProcessOK
  <1>2. ASSUME NEW signal \in Signals, StopAtOnce(signal) PROVE second' # second
    <2>1. /\ \A s \in Signals : second'[s] = (IF s = signal THEN 0 ELSE second[s])
                                   + (IF signal \in soft /\ s \in StopSignals THEN 1 ELSE 0)
          /\ second[signal] > 0
      BY <1>2 DEF StopAtOnce
    <2>2. PICK s \in StopSignals : s # signal /\ s \in Signals BY StopSignalsAre
    <2>3. \A t \in Signals : second[t] \in Nat BY <1>1
    <2>4. CASE signal \in soft
      <3>1. second'[s] = second[s] + 1 BY <2>1, <2>2, <2>4
      <3>2. second[s] + 1 # second[s] BY <2>2, <2>3
      <3> QED BY <3>1, <3>2
    <2>5. CASE signal \notin soft
      <3>1. second'[signal] = 0 /\ second[signal] # 0 BY <2>1, <2>3, <2>5
      <3> QED BY <3>1
    <2> QED BY <2>4, <2>5
  <1>3. ASSUME Exception PROVE guarded' # guarded \/ process' # process
    <2>1. process = "running" BY <1>3 DEF Exception, Free
    <2>2. CASE guarded BY <1>3, <2>2, Zenon DEF Exception
    <2>3. CASE ~guarded BY <1>3, <2>1, <2>3 DEF Exception
    <2> QED BY <2>2, <2>3
  <1>4. ASSUME StopOver PROVE second' # second
    <2>1. stop.phase = "behind" /\ process = "running" BY <1>4 DEF StopOver, Free
    <2>2. second["INT"] > 0 /\ "INT" \in StopSignals /\ "INT" \in Signals
      BY <1>1, <2>1, StopSignalsAre DEF SecondSignalEnds
    <2>3. second'["INT"] = second["INT"] - 1 BY <1>4, <2>2 DEF StopOver
    <2>4. second["INT"] - 1 # second["INT"] BY <1>1, <2>2
    <2> QED BY <2>3, <2>4
  <1> QED BY <1>2, <1>3, <1>4

(* A reload stops the process of a server only once the requests that the  *)
(* server took are answered, or after the timeout of its close; nothing    *)
(* else but the end of the process does, for any number of servers,        *)
(* reloads and stops that close them at the same time.                     *)
THEOREM RequestsAreServed == Spec => TakenRequestsAreServed
  <1> DEFINE Served == \A i \in DOMAIN servers :
                 servers[i].child /\ ~servers'[i].child /\ servers'[i].active > 0
                     => servers'[i].expired \/ <<second, guarded, process>>' # <<second, guarded, process>>
  <1>1. IInv /\ [Next]_vars => Served
    <2> USE DEF fileVars, reloadVars, clientVars, exitVars
    <2> SUFFICES ASSUME IInv, [Next]_vars PROVE Served OBVIOUS
    <2>0. TypeOK /\ EachOnce /\ ChildrenInUse /\ (Looking => LookedAtOnce) BY DEF IInv
    <2>1. ASSUME BusyStay PROVE Served BY <2>1 DEF BusyStay
    <2>2. ASSUME UNCHANGED servers PROVE Served BY <2>2
    <2>3. ASSUME <<second, guarded, process>>' # <<second, guarded, process>> PROVE Served BY <2>3
    <2> HIDE DEF Served
    <2>4. CASE UNCHANGED vars BY <2>2, <2>4 DEF vars
    <2>5. CASE Start \/ Noticed \/ DebounceFires \/ HangUp
      BY <2>2, <2>5 DEF Start, Noticed, DebounceFires, HangUp
    <2>6. CASE FindCandidate \/ Fingerprint \/ Watch BY <2>2, <2>6 DEF FindCandidate, Fingerprint, Watch
    <2>7. CASE StartServers BY <2>0, <2>1, <2>7, StartKeeps DEF StartServers, Looking
    <2>8. ASSUME NEW source \in Sources, Write(source) PROVE Served BY <2>2, <2>8 DEF Write
    <2>9. ASSUME NEW i \in DOMAIN servers, Request(i) \/ Answer(i) \/ CloseTimeout(i) PROVE Served
      BY <2>0, <2>1, <2>9, RequestGoes, AnswerGoes, CloseTimeoutGoes
    <2>10. ASSUME NEW signal \in Signals, Signal(signal) \/ StopSoftly(signal) PROVE Served
      BY <2>2, <2>10 DEF Signal, StopSoftly
    <2>11. ASSUME NEW signal \in Signals, StopAtOnce(signal) PROVE Served BY <2>3, <2>11, KillsAreSeen
    <2>12. CASE Exception BY <2>3, <2>12, KillsAreSeen
    <2>13. CASE StopListening \/ SweepIdle BY <2>2, <2>13 DEF StopListening, SweepIdle
    <2>14. CASE ConnectionsClosed \/ StopTimeout
      BY <2>0, <2>1, <2>14, StopBehindGoes DEF ConnectionsClosed, StopTimeout
    <2>15. CASE StopOver BY <2>3, <2>15, KillsAreSeen
    <2> QED
      BY <2>4, <2>5, <2>6, <2>7, <2>8, <2>9, <2>10, <2>11, <2>12, <2>13, <2>14, <2>15
      DEF Next, Reload, Stop
  <1>2. IInv /\ [Next]_vars => [Served]_vars BY <1>1
  <1> QED BY <1>2, Invariant, PTL DEF Spec, TakenRequestsAreServed
=============================================================================
