---------------------------- MODULE PartsProofs ----------------------------
(***************************************************************************)
(* Three parts that outlive a process of the server: the target of a proxy *)
(* server in its file, the folders of lambda processes, and the service of *)
(* the system that runs the server.                                        *)
(***************************************************************************)
EXTENDS TargetStore, QueueProofs

CONSTANTS Pids, Folders, Configurations, Platforms, NoConfiguration, MaxCommands, MaxTroubles
VARIABLES running, disk, lambdas, tracked, hooked, removing, left,
          platform, configuration, files, known, enabled, runs, command, todo, before, outcome,
          commands, troubles

Machine == INSTANCE LambdaFolders
OS == INSTANCE Service
-----------------------------------------------------------------------------
(***************************************************************************)
(* The target of a proxy server for any addresses, times and reloads.      *)
(*                                                                         *)
(* TargetIsKept is about the file when no write waits.  While writes do,   *)
(* the last one that waits is what the file ends with (Written); that is   *)
(* so as only the store that serves has writes (OneSaves).  The agents are *)
(* told apart by their numbers, which no two stores share (Numbered), so a *)
(* store that was replaced retires none but its own.                       *)
(***************************************************************************)
Targets == Target \cup {None}
Store == [current : Targets, saving : Seq(Targets), writing : BOOLEAN]

TypeOK ==
    /\ now \in Nat /\ made \in Nat
    /\ up \in BOOLEAN /\ uncertain \in BOOLEAN /\ late \in BOOLEAN
    /\ stores \in Seq(Store) /\ serving \in 1..Len(stores)
    /\ file \in Targets \cup {Torn} /\ last \in Targets
    /\ bodies \subseteq [store : 1..Len(stores), url : Urls]

(* a file has no agents                                                    *)
Unnumbered ==
    /\ file.agent = 0 /\ last.agent = 0
    /\ \A s \in 1..Len(stores) : \A i \in 1..Len(stores[s].saving) : stores[s].saving[i].agent = 0

Down ==
    ~up => stores = <<NewStore(None)>> /\ serving = 1 /\ agents = {} /\ bodies = {}

(* a store that is not served by has no writes                             *)
OneSaves ==
    /\ \A s \in 1..Len(stores) : stores[s].writing => stores[s].saving # <<>>
    /\ ~uncertain => \A s \in 1..Len(stores) \ {serving} : stores[s].saving = <<>>

(* the file is or ends with the target that was registered last            *)
Written ==
    LET saving == stores[serving].saving
        end == IF saving = <<>> THEN file ELSE saving[Len(saving)]
    IN  ~uncertain => Unexpired(end) = Unexpired(last)

Registered == up /\ ~uncertain => Unexpired(Stored(Current)) = Unexpired(last)

Numbered ==
    /\ \A s \in 1..Len(stores) : stores[s].current.agent <= made
    /\ \A s, t \in 1..Len(stores) :
          stores[s].current.agent = stores[t].current.agent => s = t \/ stores[s].current.agent = 0

Connected ==
    /\ up => Agents(Current) \subseteq agents
    /\ up /\ ~late => agents = Agents(Current)

IInv ==
    /\ TypeOK /\ Unnumbered /\ Down /\ OneSaves /\ Written /\ Registered /\ Numbered /\ Connected
-----------------------------------------------------------------------------
(* What a configuration has: a time to live, and addresses.                *)
Configured == Ttl \in Nat /\ "none" \notin Urls /\ "torn" \notin Urls

(* Targets                                                                 *)

LEMMA TargetsTyped ==
    /\ None \in Targets /\ None.agent = 0 /\ None.expiresAt = 0 /\ Stored(None) = None
    /\ \A t \in Targets : /\ t.agent \in Nat /\ t.setAt \in Nat /\ t.expiresAt \in Nat
                          /\ Stored(t) \in Targets /\ Stored(t).agent = 0
                          /\ Stored(t).expiresAt = t.expiresAt
                          /\ t.agent = 0 => Stored(t) = t
                          /\ t # None => t \in Target /\ t.url \in Urls
  BY DEF Targets, Target, None, Stored

LEMMA TornIsNone ==
    ASSUME Configured
    PROVE  /\ Torn \notin Targets /\ Torn.agent = 0 /\ Unexpired(Torn) = Torn
  BY DEF Configured, Torn, None, Targets, Target, Unexpired, IsExpired

LEMMA UnexpiredFacts ==
    /\ Unexpired(None) = None
    /\ \A t \in Targets : /\ Unexpired(t) \in {t, None} /\ Unexpired(t) \in Targets
                          /\ Unexpired(Unexpired(t)) = Unexpired(t)
                          /\ Unexpired(Stored(t)) = Stored(Unexpired(t))
  <1>1. Unexpired(None) = None BY DEF Unexpired, IsExpired, None
  <1>2. ASSUME NEW t \in Targets
        PROVE  /\ Unexpired(t) \in {t, None} /\ Unexpired(t) \in Targets
               /\ Unexpired(Unexpired(t)) = Unexpired(t)
    BY <1>1, TargetsTyped DEF Unexpired
  <1>3. ASSUME NEW t \in Targets PROVE Unexpired(Stored(t)) = Stored(Unexpired(t))
    <2>1. Stored(t).expiresAt = t.expiresAt BY TargetsTyped
    <2>2. IsExpired(Stored(t)) <=> IsExpired(t) BY <2>1 DEF IsExpired
    <2> QED BY <2>2, TargetsTyped DEF Unexpired
  <1> QED BY <1>1, <1>2, <1>3

(* what is the same now is the same later                                  *)
After(t, time) == IF t.expiresAt # 0 /\ t.expiresAt <= time THEN None ELSE t

LEMMA LaterExpired ==
    ASSUME NEW time \in Nat, NEW x \in Targets \cup {Torn}, NEW y \in Targets \cup {Torn},
           After(x, time) = After(y, time)
    PROVE  After(x, time + 1) = After(y, time + 1)
  <1>1. x.expiresAt \in Nat /\ y.expiresAt \in Nat
    BY DEF Targets, Target, None, Torn
  <1> DEFINE Was(z) == z.expiresAt # 0 /\ z.expiresAt <= time
             Is(z) == z.expiresAt # 0 /\ z.expiresAt <= time + 1
  <1>2. \A z \in {x, y} : Was(z) => Is(z) BY <1>1
  <1>3. ~Is(None) /\ ~Was(None) BY DEF None
  <1>4. (IF Was(x) THEN None ELSE x) = (IF Was(y) THEN None ELSE y) BY DEF After
  <1> HIDE DEF Was, Is
  <1>5. (IF Is(x) THEN None ELSE x) = (IF Is(y) THEN None ELSE y) BY <1>2, <1>3, <1>4
  <1> QED BY <1>5 DEF Is, After

(* Stores                                                                  *)

LEMMA StoresTyped ==
    ASSUME TypeOK
    PROVE  /\ Len(stores) \in Nat
           /\ \A s \in 1..Len(stores) : /\ stores[s] \in Store /\ stores[s].current \in Targets
                                        /\ stores[s].saving \in Seq(Targets)
                                        /\ stores[s].writing \in BOOLEAN
           /\ DOMAIN stores = 1..Len(stores)
           /\ Current \in Targets
  <1>1. stores \in Seq(Store) BY DEF TypeOK
  <1>2. Len(stores) \in Nat /\ DOMAIN stores = 1..Len(stores) BY <1>1
  <1>3. \A s \in 1..Len(stores) : stores[s] \in Store BY <1>1
  <1>4. \A s \in 1..Len(stores) : /\ stores[s].current \in Targets
                                  /\ stores[s].saving \in Seq(Targets)
                                  /\ stores[s].writing \in BOOLEAN
    BY <1>3 DEF Store
  <1>5. serving \in 1..Len(stores) BY DEF TypeOK
  <1> QED BY <1>2, <1>3, <1>4, <1>5 DEF Current

LEMMA NewStoreTyped ==
    ASSUME NEW t \in Targets
    PROVE  /\ NewStore(t) \in Store /\ NewStore(t).current = t
           /\ NewStore(t).saving = <<>> /\ NewStore(t).writing = FALSE
  BY DEF NewStore, Store

(* what a write that is queued makes of a store                            *)
LEMMA SaveFacts ==
    ASSUME NEW store \in Store, NEW t \in Targets
    PROVE  /\ Save(store, t) \in Store
           /\ Save(store, t).current = store.current /\ Save(store, t).writing = store.writing
           /\ LET saving == Save(store, t).saving
              IN  /\ saving # <<>> /\ Len(saving) \in Nat /\ saving[Len(saving)] = Stored(t)
                  /\ \A i \in 1..Len(saving) : \/ saving[i] = Stored(t)
                                               \/ /\ i \in 1..Len(store.saving)
                                                  /\ saving[i] = store.saving[i]
  <1> DEFINE old == store.saving
             new == Append(old, Stored(t))
  <1>1. old \in Seq(Targets) /\ Stored(t) \in Targets BY TargetsTyped DEF Store
  <1>2. /\ Save(store, t).saving = new
        /\ Save(store, t).current = store.current /\ Save(store, t).writing = store.writing
        /\ Save(store, t) = [current |-> store.current, saving |-> new, writing |-> store.writing]
    <2>1. Save(store, t) = [store EXCEPT !.saving = new] BY DEF Save
    <2> HIDE DEF new
    <2>2. [store EXCEPT !.saving = new]
            = [current |-> store.current, saving |-> new, writing |-> store.writing]
      BY DEF Store
    <2> QED BY <2>1, <2>2
  <1> HIDE DEF old
  <1>3. /\ new \in Seq(Targets) /\ Len(old) \in Nat /\ Len(new) = Len(old) + 1
        /\ new[Len(old) + 1] = Stored(t) /\ \A i \in 1..Len(old) : new[i] = old[i]
    BY <1>1, QueueAppended
  <1> HIDE DEF new
  <1>4. Save(store, t) \in Store BY <1>2, <1>3 DEF Store
  <1>5. new # <<>>
    <2>1. Len(<<>>) = 0 OBVIOUS
    <2> QED BY <1>3, <2>1
  <1>6. \A i \in 1..Len(new) : i = Len(old) + 1 \/ i \in 1..Len(old) BY <1>3
  <1> QED BY <1>2, <1>3, <1>4, <1>5, <1>6 DEF old

(* Replace: the target of one store, and a write of it or none             *)
LEMMA ReplaceFacts ==
    ASSUME TypeOK, NEW s \in 1..Len(stores), NEW next \in Targets, NEW saves \in BOOLEAN,
           Replace(s, next, saves)
    PROVE  /\ stores' \in Seq(Store) /\ Len(stores') = Len(stores)
           /\ \A t \in 1..Len(stores) : t # s => stores'[t] = stores[t]
           /\ stores'[s].current = next /\ stores'[s].writing = stores[s].writing
           /\ ~saves => stores'[s].saving = stores[s].saving
           /\ saves => LET saving == stores'[s].saving
                       IN  /\ saving # <<>> /\ Len(saving) \in Nat
                           /\ saving[Len(saving)] = Stored(next)
                           /\ \A i \in 1..Len(saving) :
                                 \/ saving[i] = Stored(next)
                                 \/ /\ i \in 1..Len(stores[s].saving)
                                    /\ saving[i] = stores[s].saving[i]
           /\ agents' = IF stores[s].current.agent = next.agent
                        THEN agents ELSE (agents \ {stores[s].current.agent}) \cup Agents(next)
  <1> DEFINE new == [stores[s] EXCEPT !.current = next]
             store == IF saves THEN Save(new, next) ELSE new
  <1>1. stores \in Seq(Store) /\ stores[s] \in Store BY StoresTyped DEF TypeOK
  <1>2. /\ new \in Store /\ new.current = next /\ new.writing = stores[s].writing
        /\ new.saving = stores[s].saving
    BY <1>1 DEF Store
  <1>3. stores' = [stores EXCEPT ![s] = store] BY DEF Replace
  <1> HIDE DEF new
  <1>4. store \in Store BY <1>2, SaveFacts
  <1>5. /\ ~saves => store = new
        /\ saves => store = Save(new, next)
    OBVIOUS
  <1> HIDE DEF store
  <1>6. /\ stores' \in Seq(Store) /\ Len(stores') = Len(stores) /\ stores'[s] = store
        /\ \A t \in 1..Len(stores) : t # s => stores'[t] = stores[t]
    BY <1>1, <1>3, <1>4
  <1>7. agents' = IF stores[s].current.agent = next.agent
                  THEN agents ELSE (agents \ {stores[s].current.agent}) \cup Agents(next)
    <2>1. agents' = RetireAgent(stores[s].current, next) \cup
                    (Agents(next) \ Agents(stores[s].current))
      BY DEF Replace
    <2>2. CASE stores[s].current.agent = next.agent BY <2>1, <2>2 DEF RetireAgent, Agents
    <2>3. CASE stores[s].current.agent # next.agent BY <2>1, <2>3 DEF RetireAgent, Agents
    <2> QED BY <2>2, <2>3
  <1>8. CASE saves
    <2>1. store = Save(new, next) BY <1>5, <1>8
    <2> QED BY <1>2, <1>6, <1>7, <1>8, <2>1, SaveFacts
  <1>9. CASE ~saves BY <1>2, <1>5, <1>6, <1>7, <1>9
  <1> QED BY <1>8, <1>9
-----------------------------------------------------------------------------
(* The steps                                                               *)

LEMMA Initially == Init => IInv
  <1> SUFFICES ASSUME Init PROVE IInv OBVIOUS
  <1> DEFINE one == NewStore(None)
  <1>1. one \in Store /\ one.current = None /\ one.saving = <<>> /\ one.writing = FALSE
    BY TargetsTyped, NewStoreTyped
  <1>2. /\ now = 1 /\ up = TRUE /\ stores = <<one>> /\ serving = 1 /\ file = None /\ made = 0
        /\ agents = {} /\ bodies = {} /\ last = None /\ uncertain = FALSE /\ late = FALSE
    BY DEF Init
  <1> HIDE DEF one
  <1>3. /\ stores \in Seq(Store) /\ Len(stores) = 1 /\ stores[1] = one
        /\ \A s \in 1..Len(stores) : s = 1
    BY <1>1, <1>2
  <1>4. TypeOK
    <2>1. now \in Nat /\ made \in Nat /\ up \in BOOLEAN /\ uncertain \in BOOLEAN /\ late \in BOOLEAN
      BY <1>2
    <2>2. serving \in 1..Len(stores) BY <1>2, <1>3
    <2>3. file \in Targets /\ last \in Targets BY <1>2, TargetsTyped
    <2> QED BY <1>2, <1>3, <2>1, <2>2, <2>3 DEF TypeOK
  <1>5. Unnumbered BY <1>1, <1>2, <1>3, TargetsTyped DEF Unnumbered
  <1>6. Down /\ OneSaves BY <1>1, <1>2, <1>3 DEF Down, OneSaves
  <1>7. Written BY <1>1, <1>2, <1>3 DEF Written
  <1>8. Registered BY <1>1, <1>2, <1>3, TargetsTyped DEF Registered, Current
  <1>9. Numbered /\ Connected
    BY <1>1, <1>2, <1>3, TargetsTyped DEF Numbered, Connected, Agents, Current
  <1> QED BY <1>4, <1>5, <1>6, <1>7, <1>8, <1>9 DEF IInv

(* a step about limits, or bodies that are read                            *)
LEMMA QuietKeeps ==
    ASSUME IInv, UNCHANGED <<now, up, stores, serving, file, made, agents, last, uncertain, late>>,
           bodies' \subseteq [store : 1..Len(stores), url : Urls], ~up => bodies' = {}
    PROVE  IInv'
  <1> USE DEF IInv
  <1>1. TypeOK' BY DEF TypeOK
  <1>2. Unnumbered' BY DEF Unnumbered
  <1>3. Down' /\ OneSaves' BY DEF Down, OneSaves
  <1>4. Written' BY DEF Written, Unexpired, IsExpired
  <1>5. Registered' BY DEF Registered, Unexpired, IsExpired, Current
  <1>6. Numbered' /\ Connected' BY DEF Numbered, Connected, Current
  <1> QED BY <1>1, <1>2, <1>3, <1>4, <1>5, <1>6

(* A store takes another target.  One that is kept is what the service was *)
(* told last; one that is only dropped or refreshed is the store's that    *)
(* serves.                                                                 *)
LEMMA ReplaceKeeps ==
    ASSUME IInv, up, NEW s \in 1..Len(stores), NEW next \in Targets, NEW saves \in BOOLEAN,
           Replace(s, next, saves), UNCHANGED <<now, up, serving, file>>,
           bodies' \subseteq [store : 1..Len(stores), url : Urls],
           made' \in {made, made + 1},
           \/ next.agent \in {0, stores[s].current.agent}
           \/ next.agent = made + 1 /\ made' = made + 1,
           late' = (late \/ s # serving),
           \/ /\ saves /\ last' = Stored(next) /\ uncertain' \in BOOLEAN
              /\ ~uncertain' => s = serving /\ (~uncertain \/ Idle)
           \/ /\ ~saves /\ s = serving /\ UNCHANGED <<last, uncertain>>
              /\ Unexpired(Stored(next)) = Unexpired(Stored(Current))
    PROVE  IInv'
  <1> USE DEF IInv
  <1> DEFINE new == stores'[s].saving
             n == Len(stores)
  <1>1. /\ stores' \in Seq(Store) /\ Len(stores') = n
        /\ \A t \in 1..n : t # s => stores'[t] = stores[t]
        /\ stores'[s].current = next /\ stores'[s].writing = stores[s].writing
        /\ ~saves => new = stores[s].saving
        /\ saves => /\ new # <<>> /\ Len(new) \in Nat /\ new[Len(new)] = Stored(next)
                    /\ \A i \in 1..Len(new) :
                          \/ new[i] = Stored(next)
                          \/ i \in 1..Len(stores[s].saving) /\ new[i] = stores[s].saving[i]
        /\ agents' = IF stores[s].current.agent = next.agent
                     THEN agents ELSE (agents \ {stores[s].current.agent}) \cup Agents(next)
    BY ReplaceFacts
  <1>2. serving \in 1..n /\ n \in Nat /\ DOMAIN stores = 1..n
        /\ \A t \in 1..n : stores[t].current \in Targets
    BY StoresTyped DEF TypeOK
  <1>3. Stored(next) \in Targets /\ Stored(next).agent = 0 /\ next.agent \in Nat BY TargetsTyped
  <1>4. \A t \in 1..n : stores[t].current.agent \in Nat BY <1>2, TargetsTyped
  <1>5. serving' = serving /\ now' = now /\ Len(stores') = n BY <1>1
  <1> HIDE DEF n, new
  <1>6. TypeOK' BY <1>1, <1>2, <1>3, <1>5 DEF TypeOK, n
  <1>7. Unnumbered'
    <2>1. last'.agent = 0 /\ file'.agent = 0 BY <1>3 DEF Unnumbered
    <2>2. ASSUME NEW t \in 1..n, NEW i \in 1..Len(stores'[t].saving)
          PROVE  stores'[t].saving[i].agent = 0
      <3>1. CASE t # s
        <4>1. stores'[t] = stores[t] BY <1>1, <3>1
        <4> QED BY <4>1, <2>2 DEF Unnumbered, n
      <3>2. CASE t = s
        <4>1. i \in 1..Len(new) /\ stores'[t].saving = new BY <2>2, <3>2 DEF new
        <4>2. \A j \in 1..Len(stores[s].saving) : stores[s].saving[j].agent = 0 BY DEF Unnumbered
        <4>3. CASE saves BY <1>1, <1>3, <4>1, <4>2, <4>3
        <4>4. CASE ~saves BY <1>1, <4>1, <4>2, <4>4
        <4> QED BY <4>3, <4>4
      <3> QED BY <3>1, <3>2
    <2> QED BY <1>5, <2>1, <2>2 DEF Unnumbered
  <1>8. Down' BY DEF Down
  <1>9. ASSUME ~uncertain' PROVE \A t \in 1..n \ {serving} : stores'[t].saving = <<>>
    <2>1. s = serving /\ (~uncertain \/ Idle) BY <1>9
    <2>2. \A t \in 1..n \ {serving} : stores[t].saving = <<>>
      BY <1>2, <2>1 DEF OneSaves, Idle, n
    <2> QED BY <1>1, <2>1, <2>2
  <1>10. OneSaves'
    <2>1. ASSUME NEW t \in 1..n, stores'[t].writing PROVE stores'[t].saving # <<>>
      <3>1. CASE t # s
        <4>1. stores'[t] = stores[t] BY <1>1, <3>1
        <4> QED BY <2>1, <4>1 DEF OneSaves, n
      <3>2. CASE t = s
        <4>1. stores[s].saving # <<>> BY <1>1, <2>1, <3>2 DEF OneSaves
        <4>2. new # <<>> BY <1>1, <4>1
        <4> QED BY <3>2, <4>2 DEF new
      <3> QED BY <3>1, <3>2
    <2> QED BY <1>5, <1>9, <2>1 DEF OneSaves
  <1>11. ASSUME ~uncertain'
         PROVE  Unexpired(IF stores'[serving].saving = <<>> THEN file
                          ELSE stores'[serving].saving[Len(stores'[serving].saving)]) = Unexpired(last')
    <2>1. s = serving BY <1>11
    <2>2. CASE saves
      <3>1. stores'[serving].saving = new /\ new # <<>> /\ new[Len(new)] = Stored(next)
        BY <1>1, <2>1, <2>2 DEF new
      <3>2. last' = Stored(next) BY <2>2
      <3> QED BY <3>1, <3>2
    <2>3. CASE ~saves
      <3>1. stores'[serving].saving = stores[serving].saving BY <1>1, <2>1, <2>3 DEF new
      <3>2. ~uncertain /\ last' = last BY <1>11, <2>3
      <3> QED BY <3>1, <3>2 DEF Written
    <2> QED BY <2>2, <2>3
  <1>12. Written' BY <1>5, <1>11 DEF Written, Unexpired, IsExpired
  <1>13. ASSUME ~uncertain' PROVE Unexpired(Stored(stores'[serving].current)) = Unexpired(last')
    <2>1. s = serving /\ stores'[serving].current = next BY <1>1, <1>13
    <2>2. CASE saves BY <2>1, <2>2
    <2>3. CASE ~saves
      <3>1. ~uncertain /\ last' = last BY <1>13, <2>3
      <3> QED BY <2>1, <2>3, <3>1 DEF Registered
    <2> QED BY <2>2, <2>3
  <1>14. Registered' BY <1>5, <1>13 DEF Registered, Current, Unexpired, IsExpired, Stored
  <1>15. Numbered'
    <2>1. made \in Nat /\ \A t \in 1..n : stores[t].current.agent <= made
      BY DEF Numbered, TypeOK, n
    <2>2. ASSUME NEW t \in 1..n PROVE stores'[t].current.agent <= made'
      <3>1. CASE t = s BY <1>1, <1>4, <2>1, <3>1
      <3>2. CASE t # s
        <4>1. stores'[t] = stores[t] BY <1>1, <3>2
        <4> QED BY <1>4, <2>1, <4>1
      <3> QED BY <3>1, <3>2
    <2>3. ASSUME NEW t \in 1..n, t # s, next.agent # 0 PROVE next.agent # stores[t].current.agent
      <3>1. CASE next.agent = stores[s].current.agent BY <2>3, <3>1 DEF Numbered, n
      <3>2. CASE next.agent = made + 1 BY <1>4, <2>1, <3>2
      <3> QED BY <2>3, <3>1, <3>2
    <2>4. ASSUME NEW t \in 1..n, NEW u \in 1..n, t # u,
                 stores'[t].current.agent = stores'[u].current.agent
          PROVE  stores'[t].current.agent = 0
      <3>1. CASE t = s
        <4>1. stores'[u] = stores[u] BY <1>1, <2>4, <3>1
        <4> QED BY <1>1, <2>3, <2>4, <3>1, <4>1
      <3>2. CASE u = s
        <4>1. stores'[t] = stores[t] BY <1>1, <2>4, <3>2
        <4> QED BY <1>1, <2>3, <2>4, <3>2, <4>1
      <3>3. CASE t # s /\ u # s
        <4>1. stores'[t] = stores[t] /\ stores'[u] = stores[u] BY <1>1, <3>3
        <4> QED BY <2>4, <4>1 DEF Numbered, n
      <3> QED BY <3>1, <3>2, <3>3
    <2> QED BY <1>5, <2>2, <2>4 DEF Numbered
  <1>16. Connected'
    <2>1. /\ Agents(stores[serving].current) \subseteq agents
          /\ ~late => agents = Agents(stores[serving].current)
      BY DEF Connected, Current
    <2>2. CASE s = serving
      <3>1. stores'[serving].current = next BY <1>1, <2>2
      <3>2. Agents(next) \subseteq agents' /\ (~late => agents' = Agents(next))
        <4>1. CASE stores[s].current.agent = next.agent
          BY <1>1, <2>1, <2>2, <4>1 DEF Agents
        <4>2. CASE stores[s].current.agent # next.agent
          BY <1>1, <2>1, <2>2, <4>2 DEF Agents
        <4> QED BY <4>1, <4>2
      <3> QED BY <1>5, <2>2, <3>1, <3>2 DEF Connected, Current
    <2>3. CASE s # serving
      <3>1. stores'[serving] = stores[serving] /\ late' BY <1>1, <1>2, <2>3
      <3>2. Agents(stores[serving].current) \subseteq agents'
        <4>1. stores[s].current.agent \notin Agents(stores[serving].current)
          BY <1>2, <2>3 DEF Numbered, Agents, n
        <4> QED BY <1>1, <2>1, <4>1
      <3> QED BY <1>5, <3>1, <3>2 DEF Connected, Current
    <2> QED BY <2>2, <2>3
  <1> QED BY <1>6, <1>7, <1>8, <1>10, <1>12, <1>14, <1>15, <1>16

(* time passes                                                             *)
LEMMA TickKeeps == ASSUME IInv, Tick PROVE IInv'
  <1> USE DEF IInv
  <1>1. /\ now' = now + 1 /\ now \in Nat
        /\ UNCHANGED <<up, stores, serving, file, made, agents, bodies, last, uncertain, late>>
    BY DEF Tick, ghosts, TypeOK
  <1>2. /\ stores[serving].saving \in Seq(Targets) /\ stores[serving].current \in Targets
        /\ file \in Targets \cup {Torn} /\ last \in Targets
    BY StoresTyped DEF TypeOK
  <1>3. TypeOK' BY <1>1 DEF TypeOK
  <1>4. Unnumbered' BY <1>1 DEF Unnumbered
  <1>5. Down' /\ OneSaves' BY <1>1 DEF Down, OneSaves
  <1>6. Written'
    <2> DEFINE saving == stores[serving].saving
               x == IF saving = <<>> THEN file ELSE saving[Len(saving)]
    <2>1. x \in Targets \cup {Torn}
      <3>1. saving # <<>> => saving[Len(saving)] \in Targets BY <1>2
      <3> QED BY <1>2, <3>1
    <2>2. ~uncertain => After(x, now) = After(last, now) BY DEF Written, Unexpired, IsExpired, After
    <2>3. ~uncertain => After(x, now + 1) = After(last, now + 1)
      BY <1>1, <1>2, <2>1, <2>2, LaterExpired
    <2> QED BY <1>1, <2>3 DEF Written, Unexpired, IsExpired, After
  <1>7. Registered'
    <2> DEFINE x == Stored(stores[serving].current)
    <2>1. x \in Targets BY <1>2, TargetsTyped
    <2>2. up /\ ~uncertain => After(x, now) = After(last, now)
      BY DEF Registered, Current, Unexpired, IsExpired, After
    <2>3. up /\ ~uncertain => After(x, now + 1) = After(last, now + 1)
      BY <1>1, <1>2, <2>1, <2>2, LaterExpired
    <2> QED BY <1>1, <2>3 DEF Registered, Current, Stored, Unexpired, IsExpired, After
  <1>8. Numbered' /\ Connected' BY <1>1 DEF Numbered, Connected, Current
  <1> QED BY <1>3, <1>4, <1>5, <1>6, <1>7, <1>8

-----------------------------------------------------------------------------
(* The file                                                                *)

(* one store changes what it writes, not its target                        *)
LEMMA WritesKeep ==
    ASSUME IInv, up, NEW s \in 1..Len(stores), stores' \in Seq(Store), Len(stores') = Len(stores),
           \A t \in 1..Len(stores) : t # s => stores'[t] = stores[t],
           stores'[s].current = stores[s].current,
           \A i \in 1..Len(stores'[s].saving) : stores'[s].saving[i].agent = 0,
           stores[s].saving = <<>> => stores'[s].saving = <<>>,
           stores'[s].writing => stores'[s].saving # <<>>,
           file' \in Targets \cup {Torn}, file'.agent = 0,
           UNCHANGED <<now, up, serving, made, agents, bodies, last, late>>,
           uncertain' \in BOOLEAN, ~uncertain' => ~uncertain,
           ~uncertain' => Written'
    PROVE  IInv'
  <1> USE DEF IInv
  <1> DEFINE n == Len(stores)
  <1>1. serving \in 1..n /\ \A t \in 1..n : stores'[t].current = stores[t].current
    BY DEF TypeOK
  <1>2. Len(stores') = n OBVIOUS
  <1> HIDE DEF n
  <1>3. TypeOK' BY DEF TypeOK
  <1>4. Unnumbered'
    <2>1. ASSUME NEW t \in 1..n, NEW i \in 1..Len(stores'[t].saving)
          PROVE  stores'[t].saving[i].agent = 0
      <3>1. CASE t # s
        <4>1. stores'[t] = stores[t] BY <3>1 DEF n
        <4> QED BY <2>1, <4>1 DEF Unnumbered, n
      <3>2. CASE t = s BY <2>1, <3>2
      <3> QED BY <3>1, <3>2
    <2> QED BY <1>2, <2>1 DEF Unnumbered
  <1>5. Down' BY DEF Down
  <1>6. OneSaves'
    <2>1. ASSUME NEW t \in 1..n
          PROVE  /\ stores'[t].writing => stores'[t].saving # <<>>
                 /\ ~uncertain' /\ t # serving => stores'[t].saving = <<>>
      <3>1. CASE t # s
        <4>1. stores'[t] = stores[t] BY <3>1 DEF n
        <4> QED BY <4>1 DEF OneSaves, n
      <3>2. CASE t = s BY <3>2 DEF OneSaves, n
      <3> QED BY <3>1, <3>2
    <2> QED BY <1>2, <2>1 DEF OneSaves
  <1>7. Written' BY DEF Written
  <1>8. Registered'
    <2>1. up' /\ ~uncertain' => up /\ ~uncertain OBVIOUS
    <2>2. Current' = Current BY <1>1 DEF Current
    <2> QED BY <2>1, <2>2 DEF Registered, Stored, Unexpired, IsExpired
  <1>9. Numbered' BY <1>1, <1>2 DEF Numbered, n
  <1>10. Connected' BY <1>1 DEF Connected, Current
  <1> QED BY <1>3, <1>4, <1>5, <1>6, <1>7, <1>8, <1>9, <1>10

(* the file is opened for a write of the store that serves                 *)
LEMMA BeginWriteKeeps ==
    ASSUME Configured, IInv, NEW s \in 1..Len(stores), BeginWrite(s) PROVE IInv'
  <1> USE DEF IInv
  <1>1. /\ up /\ stores[s].saving # <<>> /\ file' = Torn
        /\ stores' = [stores EXCEPT ![s].writing = TRUE]
        /\ UNCHANGED <<now, up, serving, made, agents, bodies, last, uncertain, late>>
    BY DEF BeginWrite, ghosts
  <1>2. stores \in Seq(Store) /\ stores[s] \in Store BY StoresTyped DEF TypeOK
  <1> DEFINE new == [stores[s] EXCEPT !.writing = TRUE]
  <1>3. /\ new \in Store /\ new.current = stores[s].current /\ new.saving = stores[s].saving
    BY <1>2 DEF Store
  <1>4. stores' = [stores EXCEPT ![s] = new] BY <1>1
  <1> HIDE DEF new
  <1>5. /\ stores' \in Seq(Store) /\ Len(stores') = Len(stores) /\ stores'[s] = new
        /\ \A t \in 1..Len(stores) : t # s => stores'[t] = stores[t]
    BY <1>2, <1>3, <1>4
  <1>6. ~uncertain' => Written'
    <2> SUFFICES ASSUME ~uncertain PROVE Written' BY <1>1
    <2>1. s = serving BY <1>1 DEF OneSaves
    <2>2. stores'[serving].saving = stores[serving].saving BY <1>3, <1>5, <2>1
    <2>3. Unexpired(stores[serving].saving[Len(stores[serving].saving)]) = Unexpired(last)
      BY <1>1, <2>1 DEF Written
    <2> QED BY <1>1, <2>1, <2>2, <2>3 DEF Written, Unexpired, IsExpired
  <1>7. \A i \in 1..Len(new.saving) : new.saving[i].agent = 0 BY <1>3 DEF Unnumbered
  <1>8. uncertain' \in BOOLEAN /\ file' \in Targets \cup {Torn} /\ file'.agent = 0
    BY <1>1, TornIsNone DEF TypeOK
  <1> QED BY <1>1, <1>3, <1>5, <1>6, <1>7, <1>8, WritesKeep

(* a write is over, or failed                                              *)
LEMMA DequeueFacts ==
    ASSUME TypeOK, NEW s \in 1..Len(stores), stores[s].saving # <<>>, Dequeue(s)
    PROVE  /\ stores' \in Seq(Store) /\ Len(stores') = Len(stores)
           /\ \A t \in 1..Len(stores) : t # s => stores'[t] = stores[t]
           /\ stores'[s].current = stores[s].current /\ stores'[s].writing = FALSE
           /\ LET old == stores[s].saving
                  new == stores'[s].saving
              IN  /\ Len(old) \in Nat \ {0} /\ Len(new) = Len(old) - 1 /\ old[1] \in Targets
                  /\ \A i \in 1..(Len(old) - 1) : new[i] = old[i + 1]
  <1> DEFINE old == stores[s].saving
             tail == Tail(old)
             new == [stores[s] EXCEPT !.saving = tail, !.writing = FALSE]
  <1>1. stores \in Seq(Store) /\ stores[s] \in Store /\ old \in Seq(Targets)
    BY StoresTyped DEF TypeOK
  <1>2. old # <<>> OBVIOUS
  <1> HIDE DEF old
  <1>3. /\ tail \in Seq(Targets) /\ Len(old) \in Nat \ {0} /\ Len(tail) = Len(old) - 1
        /\ Head(old) = old[1] /\ Head(old) \in Targets
        /\ \A i \in 1..(Len(old) - 1) : tail[i] = old[i + 1]
    BY <1>1, <1>2, QueueTaken
  <1>4. stores' = [stores EXCEPT ![s] = new] BY DEF Dequeue, old
  <1> HIDE DEF tail
  <1>5. /\ new \in Store /\ new.current = stores[s].current /\ new.saving = tail
        /\ new.writing = FALSE
    BY <1>1, <1>3 DEF Store
  <1> HIDE DEF new
  <1>6. /\ stores' \in Seq(Store) /\ Len(stores') = Len(stores) /\ stores'[s] = new
        /\ \A t \in 1..Len(stores) : t # s => stores'[t] = stores[t]
    BY <1>1, <1>4, <1>5
  <1> QED BY <1>3, <1>5, <1>6 DEF old

LEMMA EndWriteKeeps ==
    ASSUME Configured, IInv, NEW s \in 1..Len(stores), EndWrite(s) \/ FailWrite(s) PROVE IInv'
  <1> USE DEF IInv
  <1> DEFINE old == stores[s].saving
             new == stores'[s].saving
  <1>1. /\ up /\ old # <<>> /\ Dequeue(s)
        /\ UNCHANGED <<now, up, serving, made, agents, bodies, last, late>>
        /\ \/ uncertain' = uncertain /\ file' \in {old[1]} \cup {f \in {Torn} : Others(s)}
           \/ uncertain' = TRUE /\ file' = file
    BY DEF EndWrite, FailWrite, ghosts
  <1>2. /\ stores' \in Seq(Store) /\ Len(stores') = Len(stores)
        /\ \A t \in 1..Len(stores) : t # s => stores'[t] = stores[t]
        /\ stores'[s].current = stores[s].current /\ stores'[s].writing = FALSE
        /\ Len(old) \in Nat \ {0} /\ Len(new) = Len(old) - 1 /\ old[1] \in Targets
        /\ \A i \in 1..(Len(old) - 1) : new[i] = old[i + 1]
    BY <1>1, DequeueFacts
  <1>3. \A i \in 1..Len(old) : old[i].agent = 0 BY DEF Unnumbered
  <1>4. DOMAIN stores = 1..Len(stores) BY StoresTyped
  <1>5. ~uncertain' => Written'
    <2> SUFFICES ASSUME ~uncertain' PROVE Written' OBVIOUS
    <2>1. ~uncertain /\ s = serving BY <1>1 DEF OneSaves
    <2>2. ~Others(s) BY <1>4, <2>1 DEF OneSaves, Others
    <2>3. file' = old[1] BY <1>1, <2>2
    <2>4. Unexpired(old[Len(old)]) = Unexpired(last) BY <1>1, <2>1 DEF Written
    <2>5. (IF new = <<>> THEN file' ELSE new[Len(new)]) = old[Len(old)]
      <3>1. new \in Seq(Targets)
        <4>1. stores'[s] \in Store BY <1>2
        <4> QED BY <4>1 DEF Store
      <3> HIDE DEF new, old
      <3>2. CASE new = <<>>
        <4>1. Len(new) = 0 BY <3>2
        <4>2. Len(old) = 1 BY <1>2, <4>1
        <4> QED BY <2>3, <3>2, <4>2
      <3>3. CASE new # <<>>
        <4>1. Len(new) # 0 BY <3>1, <3>3
        <4>2. Len(old) - 1 \in 1..(Len(old) - 1) /\ (Len(old) - 1) + 1 = Len(old) BY <1>2, <4>1
        <4>3. new[Len(old) - 1] = old[Len(old)] BY <1>2, <4>2
        <4> QED BY <1>2, <3>3, <4>3
      <3> QED BY <3>2, <3>3
    <2>6. serving' = serving /\ last' = last /\ now' = now BY <1>1
    <2>7. Unexpired(IF new = <<>> THEN file' ELSE new[Len(new)]) = Unexpired(last) BY <2>4, <2>5
    <2> QED BY <2>1, <2>6, <2>7 DEF Written, Unexpired, IsExpired
  <1>6. \A i \in 1..Len(new) : new[i].agent = 0
    <2> HIDE DEF new, old
    <2>1. \A i \in 1..(Len(old) - 1) : i + 1 \in 1..Len(old) BY <1>2
    <2> QED BY <1>2, <1>3, <2>1
  <1>7. file' \in Targets \cup {Torn} /\ file'.agent = 0 /\ uncertain' \in BOOLEAN
    <2>1. 1 \in 1..Len(old) BY <1>2
    <2>2. file' \in {old[1], Torn, file} BY <1>1
    <2>3. old[1].agent = 0 BY <1>3, <2>1
    <2>4. file.agent = 0 /\ file \in Targets \cup {Torn} BY DEF Unnumbered, TypeOK
    <2> QED BY <1>1, <1>2, <2>2, <2>3, <2>4, TornIsNone DEF TypeOK
  <1>8. ~uncertain' => ~uncertain BY <1>1
  <1> QED BY <1>1, <1>2, <1>5, <1>6, <1>7, <1>8, WritesKeep
-----------------------------------------------------------------------------
(* Requests                                                                *)

LEMMA GetKeeps ==
    ASSUME IInv, up, Get, UNCHANGED <<now, up, serving, file, made, last, uncertain, late>>,
           bodies' \subseteq [store : 1..Len(stores), url : Urls]
    PROVE  IInv'
  <1> DEFINE next == Unexpired(Current)
  <1>1. Current \in Targets BY StoresTyped DEF IInv
  <1>2. next \in Targets /\ next \in {Current, None} /\ Unexpired(next) = next
    BY <1>1, UnexpiredFacts
  <1>3. Unexpired(Stored(next)) = Unexpired(Stored(Current))
    <2>1. Unexpired(Stored(next)) = Stored(Unexpired(next)) BY <1>2, UnexpiredFacts
    <2>2. Unexpired(Stored(Current)) = Stored(next) BY <1>1, UnexpiredFacts
    <2> QED BY <1>2, <2>1, <2>2
  <1>4. Replace(serving, next, FALSE) BY DEF Get
  <1>5. next.agent \in {0, stores[serving].current.agent} BY <1>2, TargetsTyped DEF Current
  <1> HIDE DEF next
  <1>6. serving \in 1..Len(stores) /\ late \in BOOLEAN BY DEF IInv, TypeOK
  <1>7. late' = (late \/ serving # serving) BY <1>6
  <1> QED BY <1>2, <1>3, <1>4, <1>5, <1>6, <1>7, ReplaceKeeps

LEMMA ControlKeeps == ASSUME IInv, Serve \/ Control PROVE IInv'
  <1>1. /\ up /\ bodies \subseteq [store : 1..Len(stores), url : Urls]
        /\ serving \in 1..Len(stores) /\ late \in BOOLEAN /\ uncertain \in BOOLEAN
    BY DEF Serve, Control, IInv, TypeOK
  <1>2. CASE Serve BY <1>1, <1>2, GetKeeps DEF Serve, ghosts
  <1>3. CASE Control
    <2>1. UNCHANGED <<now, up, serving, file, made, uncertain, late>> BY <1>3 DEF Control
    <2>2. \/ UNCHANGED <<stores, agents, bodies, last>>
          \/ Get /\ UNCHANGED <<bodies, last>>
          \/ /\ Replace(serving, None, TRUE) /\ last' = None /\ UNCHANGED bodies
          \/ /\ \E url \in Urls : bodies' = bodies \cup {[store |-> serving, url |-> url]}
             /\ UNCHANGED <<stores, agents, last>>
      BY <1>3 DEF Control
    <2>3. CASE UNCHANGED <<stores, agents, bodies, last>> BY <1>1, <2>1, <2>3, QuietKeeps
    <2>4. CASE Get /\ UNCHANGED <<bodies, last>> BY <1>1, <2>1, <2>4, GetKeeps
    <2>5. CASE Replace(serving, None, TRUE) /\ last' = None /\ UNCHANGED bodies
      <3>1. late' = (late \/ serving # serving) BY <1>1, <2>1
      <3>2. None \in Targets /\ None.agent \in {0, stores[serving].current.agent} BY TargetsTyped
      <3>3. last' = Stored(None) BY <2>5, TargetsTyped
      <3>4. uncertain' \in BOOLEAN /\ (~uncertain' => serving = serving /\ (~uncertain \/ Idle))
        BY <1>1, <2>1
      <3> QED BY <1>1, <2>1, <2>5, <3>1, <3>2, <3>3, <3>4, ReplaceKeeps
    <2>6. CASE /\ \E url \in Urls : bodies' = bodies \cup {[store |-> serving, url |-> url]}
               /\ UNCHANGED <<stores, agents, last>>
      <3>1. bodies' \subseteq [store : 1..Len(stores), url : Urls] BY <1>1, <2>6
      <3> QED BY <1>1, <2>1, <2>6, <3>1, QuietKeeps
    <2> QED BY <2>2, <2>3, <2>4, <2>5, <2>6
  <1> QED BY <1>2, <1>3

(* the body of a PUT is there, or its client left                          *)
LEMMA PutKeeps ==
    ASSUME Configured, IInv, NEW put \in bodies, Put(put) \/ Left(put) PROVE IInv'
  <1> DEFINE s == put.store
             url == put.url
  <1>1. /\ up /\ UNCHANGED <<now, up, serving, file>>
        /\ bodies \subseteq [store : 1..Len(stores), url : Urls] /\ bodies' = bodies \ {put}
    BY DEF Put, Left, IInv, TypeOK, ghosts
  <1>2. s \in 1..Len(stores) /\ url \in Urls BY <1>1
  <1>3. bodies' \subseteq [store : 1..Len(stores), url : Urls] BY <1>1
  <1>4. \/ UNCHANGED <<stores, agents, made, last, uncertain, late>>
        \/ /\ Set(s, url)
           /\ late' = (late \/ s # serving)
           /\ uncertain' = (s # serving \/ (uncertain /\ ~Idle))
    BY DEF Put, Left, ghosts
  <1>5. CASE UNCHANGED <<stores, agents, made, last, uncertain, late>>
    BY <1>1, <1>3, <1>5, QuietKeeps
  <1>6. CASE /\ Set(s, url)
             /\ late' = (late \/ s # serving)
             /\ uncertain' = (s # serving \/ (uncertain /\ ~Idle))
    <2> DEFINE current == stores[s].current
               expiresAt == IF Ttl = 0 THEN 0 ELSE now + Ttl
               next == IF current.url = url
                       THEN [current EXCEPT !.setAt = made + 1, !.expiresAt = expiresAt]
                       ELSE CreateProxyTarget(url, made + 1, expiresAt)
    <2>1. Replace(s, next, TRUE) /\ made' = made + 1 /\ last' = Stored(next)
      BY <1>6 DEF Set
    <2>2. now \in Nat /\ made \in Nat /\ expiresAt \in Nat BY DEF IInv, TypeOK, Configured
    <2>3. current \in Targets BY <1>2, StoresTyped DEF IInv
    <2> HIDE DEF expiresAt, current, s, url
    <2>4. made + 1 \in Nat BY <2>2
    <2>5. next \in Target /\ (next.agent = current.agent \/ next.agent = made + 1)
      <3>1. CASE current.url = url
        <4>1. current \in Target
          <5>1. None.url = "none" BY DEF None
          <5> QED BY <1>2, <2>3, <3>1, <5>1 DEF Configured, Targets
        <4>2. next = [current EXCEPT !.setAt = made + 1, !.expiresAt = expiresAt] BY <3>1
        <4> HIDE DEF next
        <4> QED BY <2>2, <2>4, <4>1, <4>2 DEF Target
      <3>2. CASE current.url # url
        <4>1. next = [url |-> url, agent |-> made + 1, setAt |-> made + 1, expiresAt |-> expiresAt]
          BY <3>2 DEF CreateProxyTarget
        <4> HIDE DEF next
        <4> QED BY <1>2, <2>2, <2>4, <4>1 DEF Target
      <3> QED BY <3>1, <3>2
    <2>6. next \in Targets BY <2>5 DEF Targets
    <2> HIDE DEF next
    <2>7. \/ next.agent \in {0, stores[s].current.agent}
          \/ next.agent = made + 1 /\ made' = made + 1
      BY <2>1, <2>5 DEF current
    <2>8. uncertain' \in BOOLEAN /\ (~uncertain' => s = serving /\ (~uncertain \/ Idle)) BY <1>6
    <2> QED BY <1>1, <1>2, <1>3, <1>6, <2>1, <2>6, <2>7, <2>8, ReplaceKeeps
  <1> QED BY <1>4, <1>5, <1>6
-----------------------------------------------------------------------------
(* The process                                                             *)

(* a target with an agent of its own                                       *)
LEMMA Renumbered ==
    ASSUME TypeOK, NEW t \in Targets, t # None
    PROVE  LET new == CreateProxyTarget(t.url, t.setAt, t.expiresAt)
           IN  new \in Targets /\ new # None /\ new.agent = made + 1 /\ Stored(new) = Stored(t)
  <1> DEFINE new == CreateProxyTarget(t.url, t.setAt, t.expiresAt)
  <1>1. t \in Target /\ made \in Nat BY DEF Targets, TypeOK
  <1>2. new = [url |-> t.url, agent |-> made + 1, setAt |-> t.setAt, expiresAt |-> t.expiresAt]
    BY DEF CreateProxyTarget
  <1> HIDE DEF new
  <1>3. made + 1 \in Nat /\ made + 1 # 0 BY <1>1
  <1>4. new \in Target /\ new.agent = made + 1 BY <1>1, <1>2, <1>3 DEF Target
  <1>5. new # None BY <1>3, <1>4, TargetsTyped
  <1>6. Stored(new) = Stored(t)
    <2>1. Stored(new) = [url |-> t.url, agent |-> 0, setAt |-> t.setAt, expiresAt |-> t.expiresAt]
      BY <1>2 DEF Stored
    <2>2. Stored(t) = [url |-> t.url, agent |-> 0, setAt |-> t.setAt, expiresAt |-> t.expiresAt]
      BY <1>1 DEF Stored, Target
    <2> QED BY <2>1, <2>2
  <1> QED BY <1>4, <1>5, <1>6 DEF new, Targets

(* what a file gives back                                                  *)
LEMMA RestoreFacts ==
    ASSUME Configured, TypeOK, Unnumbered
    PROVE  /\ Restore \in Targets
           /\ Restore = None \/ Restore.agent = made + 1
           /\ Unexpired(file) = Unexpired(last) => Unexpired(Stored(Restore)) = Unexpired(last)
  <1>1. file \in Targets \cup {Torn} /\ last \in Targets BY DEF TypeOK
  <1>2. file.agent = 0 BY DEF Unnumbered
  <1>3. CASE file = Torn
    <2>1. Restore = None BY <1>3 DEF Restore
    <2>2. Unexpired(last) \in Targets BY <1>1, UnexpiredFacts
    <2>3. Unexpired(file) # Unexpired(last) BY <1>3, <2>2, TornIsNone
    <2> QED BY <2>1, <2>3, TargetsTyped
  <1>4. CASE file # Torn /\ (file = None \/ IsExpired(file))
    <2>1. Restore = None BY <1>4 DEF Restore
    <2>2. Unexpired(file) = None BY <1>4, UnexpiredFacts DEF Unexpired
    <2>3. Unexpired(Stored(None)) = None BY TargetsTyped, UnexpiredFacts
    <2> QED BY <2>1, <2>2, <2>3, TargetsTyped
  <1>5. CASE file # Torn /\ file # None /\ ~IsExpired(file)
    <2>1. Restore = CreateProxyTarget(file.url, file.setAt, file.expiresAt) BY <1>5 DEF Restore
    <2>2. file \in Targets /\ file # None BY <1>1, <1>5
    <2>3. Restore \in Targets /\ Restore.agent = made + 1 /\ Stored(Restore) = Stored(file)
      BY <2>1, <2>2, Renumbered
    <2>4. Stored(file) = file BY <1>2, <2>2, TargetsTyped
    <2> QED BY <2>3, <2>4
  <1> QED BY <1>3, <1>4, <1>5

LEMMA RestartKeeps == ASSUME Configured, IInv, Restart PROVE IInv'
  <1> USE DEF IInv
  <1> DEFINE one == NewStore(Restore)
  <1>1. /\ ~up /\ up' = TRUE /\ stores' = <<one>>
        /\ made' = IF Restore = None THEN made ELSE made + 1
        /\ agents' = Agents(stores'[1].current)
        /\ UNCHANGED <<now, serving, file, bodies, last, uncertain, late>>
    BY DEF Restart, ghosts
  <1>2. /\ Restore \in Targets /\ (Restore = None \/ Restore.agent = made + 1)
        /\ Unexpired(file) = Unexpired(last) => Unexpired(Stored(Restore)) = Unexpired(last)
    BY RestoreFacts
  <1>3. one \in Store /\ one.current = Restore /\ one.saving = <<>> /\ one.writing = FALSE
    BY <1>2, NewStoreTyped
  <1> HIDE DEF one
  <1>4. /\ stores' \in Seq(Store) /\ Len(stores') = 1 /\ stores'[1] = one
        /\ \A s \in 1..Len(stores') : s = 1
    BY <1>1, <1>3
  <1>5. serving' = 1 /\ bodies' = {} /\ stores = <<NewStore(None)>> /\ serving = 1 BY <1>1 DEF Down
  <1>6. made' \in Nat /\ Restore.agent <= made'
    <2>1. made \in Nat BY DEF TypeOK
    <2>2. CASE Restore = None BY <1>1, <2>1, <2>2, TargetsTyped
    <2>3. CASE Restore # None BY <1>1, <1>2, <2>1, <2>3
    <2> QED BY <2>2, <2>3
  <1>7. TypeOK' BY <1>1, <1>4, <1>5, <1>6 DEF TypeOK
  <1>8. Unnumbered' BY <1>1, <1>3, <1>4 DEF Unnumbered
  <1>9. Down' /\ OneSaves' BY <1>1, <1>3, <1>4 DEF Down, OneSaves
  <1>10. ~uncertain => Unexpired(file) = Unexpired(last)
    <2>1. stores[serving].saving = <<>> BY <1>5, TargetsTyped, NewStoreTyped
    <2> QED BY <2>1 DEF Written
  <1>11. Written' BY <1>1, <1>3, <1>4, <1>5, <1>10 DEF Written, Unexpired, IsExpired
  <1>12. Registered'
    <2>1. Current' = Restore BY <1>3, <1>4, <1>5 DEF Current
    <2> QED BY <1>1, <1>2, <1>10, <2>1 DEF Registered, Unexpired, IsExpired, Stored
  <1>13. Numbered' BY <1>3, <1>4, <1>6 DEF Numbered
  <1>14. Connected' BY <1>1, <1>4, <1>5 DEF Connected, Current, Agents
  <1> QED BY <1>7, <1>8, <1>9, <1>11, <1>12, <1>13, <1>14

LEMMA CrashKeeps == ASSUME IInv, Crash PROVE IInv'
  <1> USE DEF IInv
  <1> DEFINE one == NewStore(None)
  <1>1. /\ up /\ up' = FALSE /\ stores' = <<one>> /\ serving' = 1 /\ agents' = {} /\ bodies' = {}
        /\ late' = FALSE /\ uncertain' = (uncertain \/ ~Idle)
        /\ UNCHANGED <<now, file, made, last>>
    BY DEF Crash
  <1>2. one \in Store /\ one.current = None /\ one.saving = <<>> /\ one.writing = FALSE
    BY TargetsTyped, NewStoreTyped
  <1>3. stores' = <<NewStore(None)>> BY <1>1
  <1> HIDE DEF one
  <1>4. /\ stores' \in Seq(Store) /\ Len(stores') = 1 /\ stores'[1] = one
        /\ \A s \in 1..Len(stores') : s = 1
    BY <1>1, <1>2
  <1>5. TypeOK'
    <2>1. serving' \in 1..Len(stores') BY <1>1, <1>4
    <2>2. uncertain' \in BOOLEAN /\ late' \in BOOLEAN /\ up' \in BOOLEAN BY <1>1
    <2>3. bodies' \subseteq [store : 1..Len(stores'), url : Urls] BY <1>1
    <2> QED BY <1>1, <1>4, <2>1, <2>2, <2>3 DEF TypeOK
  <1>6. Unnumbered' BY <1>1, <1>2, <1>4 DEF Unnumbered
  <1>7. Down' BY <1>1, <1>3 DEF Down, NewStore, None
  <1>8. OneSaves' BY <1>2, <1>4 DEF OneSaves
  <1>9. ~uncertain' => Unexpired(file) = Unexpired(last)
    <2> SUFFICES ASSUME ~uncertain' PROVE Unexpired(file) = Unexpired(last) OBVIOUS
    <2>1. ~uncertain /\ Idle BY <1>1
    <2>2. serving \in DOMAIN stores BY StoresTyped DEF TypeOK
    <2>3. stores[serving].saving = <<>> BY <2>1, <2>2 DEF Idle
    <2> QED BY <2>1, <2>3 DEF Written
  <1>10. Written' BY <1>1, <1>2, <1>4, <1>9 DEF Written, Unexpired, IsExpired
  <1>11. Registered' /\ Connected' BY <1>1 DEF Registered, Connected
  <1>12. Numbered'
    <2>1. made' \in Nat BY <1>1 DEF TypeOK
    <2> QED BY <1>2, <1>4, <2>1, TargetsTyped DEF Numbered
  <1> QED BY <1>5, <1>6, <1>7, <1>8, <1>10, <1>11, <1>12

(* Another store takes over what the one that serves has, or what the file *)
(* gives back when that has no target.                                     *)
LEMMA ReloadKeeps == ASSUME Configured, IInv, Reload PROVE IInv'
  <1> USE DEF IInv
  <1> DEFINE n == Len(stores)
             old == stores[serving]
             seed == Unexpired(Current)
             current == IF seed = None THEN Restore
                        ELSE CreateProxyTarget(seed.url, seed.setAt, seed.expiresAt)
             new == NewStore(current)
             next == IF seed = None THEN new ELSE Save(new, current)
             kept == [old EXCEPT !.current = seed]
             rest == [stores EXCEPT ![serving] = kept]
  <1>1. PICK works \in BOOLEAN :
          /\ up /\ made' = (IF current = None THEN made ELSE made + 1)
          /\ stores' = Append(rest, next)
          /\ serving' = (IF works THEN n + 1 ELSE serving)
          /\ agents' = (IF works THEN RetireAgent(Current, None) \cup Agents(current)
                        ELSE RetireAgent(Current, seed))
          /\ uncertain' = (uncertain \/ ~Idle \/ ~works)
          /\ UNCHANGED <<now, up, file, bodies, last, late>>
    BY DEF Reload
  <1>2. /\ stores \in Seq(Store) /\ serving \in 1..n /\ n \in Nat /\ DOMAIN stores = 1..n
        /\ old \in Store /\ Current \in Targets /\ Current = old.current
        /\ made \in Nat
    BY StoresTyped DEF TypeOK, Current
  <1>3. seed \in Targets /\ seed \in {Current, None} /\ Unexpired(seed) = seed
    BY <1>2, UnexpiredFacts
  <1>4. /\ Restore \in Targets
        /\ Restore = None \/ Restore.agent = made + 1
        /\ Unexpired(file) = Unexpired(last) => Unexpired(Stored(Restore)) = Unexpired(last)
    BY RestoreFacts
  <1> HIDE DEF seed
  <1>5. /\ current \in Targets
        /\ current = None \/ current.agent = made + 1
        /\ seed # None => Stored(current) = Stored(seed)
    BY <1>3, <1>4, Renumbered
  <1> HIDE DEF current
  <1>6. /\ new \in Store /\ new.current = current /\ new.saving = <<>> /\ new.writing = FALSE
    BY <1>5, NewStoreTyped
  <1> HIDE DEF new
  <1>7. /\ next \in Store /\ next.current = current /\ next.writing = FALSE
        /\ seed = None => next.saving = <<>>
        /\ seed # None => /\ next.saving # <<>>
                          /\ next.saving[Len(next.saving)] = Stored(current)
        /\ \A i \in 1..Len(next.saving) : next.saving[i] = Stored(current)
    <2>1. CASE seed = None
      <3>1. next = new BY <2>1
      <3>2. Len(next.saving) = 0 BY <1>6, <3>1
      <3> QED BY <1>6, <2>1, <3>1, <3>2
    <2>2. CASE seed # None
      <3>1. next = Save(new, current) BY <2>2
      <3> HIDE DEF next
      <3>2. Len(new.saving) = 0 BY <1>6
      <3> QED BY <1>5, <1>6, <2>2, <3>1, <3>2, SaveFacts
    <2> QED BY <2>1, <2>2
  <1> HIDE DEF next
  <1>8. /\ kept \in Store /\ kept.current = seed /\ kept.saving = old.saving
        /\ kept.writing = old.writing
    BY <1>2, <1>3 DEF Store
  <1> HIDE DEF kept
  <1>9. /\ rest \in Seq(Store) /\ Len(rest) = n /\ rest[serving] = kept
        /\ \A s \in 1..n : s # serving => rest[s] = stores[s]
    BY <1>2, <1>8
  <1> HIDE DEF rest
  <1>10. /\ stores' \in Seq(Store) /\ Len(stores') = n + 1 /\ stores'[n + 1] = next
         /\ stores'[serving] = kept
         /\ \A s \in 1..n : s # serving => stores'[s] = stores[s]
    BY <1>1, <1>2, <1>7, <1>9, QueueAppended
  <1>11. \A s \in 1..Len(stores') : s = n + 1 \/ s \in 1..n BY <1>2, <1>10
  <1>12. /\ \A s \in 1..n : /\ stores'[s].saving = stores[s].saving
                            /\ stores'[s].writing = stores[s].writing
                            /\ stores'[s].current \in {stores[s].current, None}
    BY <1>2, <1>3, <1>8, <1>10
  <1> HIDE DEF n, old
  <1>13. TypeOK'
    <2>1. serving' \in 1..Len(stores') BY <1>1, <1>2, <1>10
    <2>2. made' \in Nat BY <1>1, <1>2
    <2>3. 1..n \subseteq 1..Len(stores') BY <1>2, <1>10
    <2>4. bodies' \subseteq [store : 1..Len(stores'), url : Urls]
      <3>1. bodies \subseteq [store : 1..n, url : Urls] BY DEF TypeOK, n
      <3> QED BY <1>1, <2>3, <3>1
    <2>5. uncertain' \in BOOLEAN BY <1>1
    <2> QED BY <1>1, <1>10, <2>1, <2>2, <2>4, <2>5 DEF TypeOK
  <1>14. Unnumbered'
    <2>1. ASSUME NEW s \in 1..Len(stores'), NEW i \in 1..Len(stores'[s].saving)
          PROVE  stores'[s].saving[i].agent = 0
      <3>1. CASE s = n + 1
        <4>1. stores'[s].saving = next.saving BY <1>10, <3>1
        <4> QED BY <1>5, <1>7, <2>1, <4>1, TargetsTyped
      <3>2. CASE s \in 1..n BY <1>12, <2>1, <3>2 DEF Unnumbered, n
      <3> QED BY <1>11, <3>1, <3>2
    <2> QED BY <1>1, <2>1 DEF Unnumbered
  <1>15. Down' BY <1>1 DEF Down
  <1>16. \A s \in 1..n : Idle => stores[s].saving = <<>> BY <1>2 DEF Idle
  <1>17. OneSaves'
    <2>1. ASSUME NEW s \in 1..Len(stores')
          PROVE  /\ stores'[s].writing => stores'[s].saving # <<>>
                 /\ ~uncertain' /\ s # serving' => stores'[s].saving = <<>>
      <3>1. CASE s = n + 1 BY <1>1, <1>7, <1>10, <3>1
      <3>2. CASE s \in 1..n BY <1>1, <1>12, <1>16, <3>2 DEF OneSaves, n
      <3> QED BY <1>11, <3>1, <3>2
    <2> QED BY <2>1 DEF OneSaves
  <1>18. ASSUME ~uncertain'
         PROVE  /\ serving' = n + 1 /\ stores'[serving'] = next
                /\ Unexpired(IF next.saving = <<>> THEN file
                             ELSE next.saving[Len(next.saving)]) = Unexpired(last)
                /\ Unexpired(Stored(current)) = Unexpired(last)
    <2>1. serving' = n + 1 /\ ~uncertain /\ Idle BY <1>1, <1>18
    <2>2. Unexpired(file) = Unexpired(last)
      <3>1. stores[serving].saving = <<>> BY <1>2, <1>16, <2>1
      <3> QED BY <2>1, <3>1 DEF Written
    <2>3. CASE seed = None
      <3>1. current = Restore BY <2>3 DEF current
      <3> QED BY <1>4, <1>7, <1>10, <2>1, <2>2, <2>3, <3>1
    <2>4. CASE seed # None
      <3>1. Unexpired(Stored(Current)) = Unexpired(last) BY <1>1, <2>1 DEF Registered
      <3>2. seed = Current BY <1>3, <2>4
      <3> QED BY <1>5, <1>7, <1>10, <2>1, <2>4, <3>1, <3>2
    <2> QED BY <2>3, <2>4
  <1>19. now' = now /\ file' = file /\ last' = last BY <1>1
  <1>20. Written' BY <1>18, <1>19 DEF Written, Unexpired, IsExpired
  <1>21. Registered'
    <2>1. ~uncertain' => Current' = current BY <1>7, <1>18 DEF Current
    <2> QED BY <1>18, <1>19, <2>1 DEF Registered, Unexpired, IsExpired, Stored
  <1>22. Numbered'
    <2>1. made' \in {made, made + 1} /\ current.agent <= made'
      <3>1. CASE current = None BY <1>1, <1>2, <3>1, TargetsTyped
      <3>2. CASE current # None BY <1>1, <1>2, <1>5, <3>2
      <3> QED BY <3>1, <3>2
    <2>2. \A s \in 1..n : /\ stores[s].current.agent \in Nat
                          /\ stores[s].current.agent <= made
                          /\ stores'[s].current.agent \in {stores[s].current.agent, 0}
      BY <1>12, StoresTyped, TargetsTyped DEF Numbered, n
    <2>3. \A s \in 1..Len(stores') : stores'[s].current.agent <= made'
      <3>1. ASSUME NEW s \in 1..n PROVE stores'[s].current.agent <= made'
        BY <1>2, <2>1, <2>2, <3>1
      <3>2. stores'[n + 1].current.agent <= made' BY <1>7, <1>10, <2>1
      <3> QED BY <1>11, <3>1, <3>2
    <2>4. ASSUME NEW s \in 1..n, NEW t \in 1..n, s # t,
                 stores'[s].current.agent = stores'[t].current.agent
          PROVE  stores'[s].current.agent = 0
      BY <2>2, <2>4 DEF Numbered, n
    <2>5. ASSUME NEW s \in 1..n, stores'[s].current.agent = current.agent
          PROVE  current.agent = 0
      <3>1. CASE current = None BY <3>1, TargetsTyped
      <3>2. CASE current # None
        <4>1. current.agent = made + 1 BY <1>5, <3>2
        <4> QED BY <1>2, <2>2, <2>5, <4>1
      <3> QED BY <3>1, <3>2
    <2>6. ASSUME NEW s \in 1..Len(stores'), NEW t \in 1..Len(stores'), s # t,
                 stores'[s].current.agent = stores'[t].current.agent
          PROVE  stores'[s].current.agent = 0
      <3>1. CASE s = n + 1
        <4>1. t \in 1..n /\ stores'[s].current = current BY <1>7, <1>10, <1>11, <2>6, <3>1
        <4> QED BY <2>5, <2>6, <4>1
      <3>2. CASE t = n + 1
        <4>1. s \in 1..n /\ stores'[t].current = current BY <1>7, <1>10, <1>11, <2>6, <3>2
        <4> QED BY <2>5, <2>6, <4>1
      <3>3. CASE s \in 1..n /\ t \in 1..n BY <2>4, <2>6, <3>3
      <3> QED BY <1>11, <3>1, <3>2, <3>3
    <2> QED BY <2>3, <2>6 DEF Numbered
  <1>23. Connected'
    <2>1. /\ Agents(Current) \subseteq agents
          /\ ~late => agents = Agents(Current)
      BY <1>1 DEF Connected
    <2>2. late' = late BY <1>1
    <2>3. CASE works
      <3>1. Current' = current BY <1>1, <1>7, <1>10, <2>3 DEF Current
      <3>2. agents' = RetireAgent(Current, None) \cup Agents(current) BY <1>1, <2>3
      <3>3. ~late => RetireAgent(Current, None) = {}
        BY <2>1, TargetsTyped DEF RetireAgent, Agents
      <3> QED BY <2>2, <3>1, <3>2, <3>3 DEF Connected, Agents
    <2>4. CASE ~works
      <3>1. Current' = seed BY <1>1, <1>8, <1>10, <2>4 DEF Current
      <3>2. agents' = RetireAgent(Current, seed) BY <1>1, <2>4
      <3>3. CASE seed = Current
        <4>1. agents' = agents BY <3>2, <3>3 DEF RetireAgent
        <4> QED BY <2>1, <2>2, <3>1, <3>3, <4>1 DEF Connected, Agents
      <3>4. CASE seed = None
        <4>1. Agents(seed) = {} BY <3>4, TargetsTyped DEF Agents
        <4>2. ~late => agents' = {} BY <2>1, <3>2, <3>4, TargetsTyped DEF RetireAgent, Agents
        <4> QED BY <2>2, <3>1, <4>1, <4>2 DEF Connected, Agents
      <3> QED BY <1>3, <3>3, <3>4
    <2> QED BY <2>3, <2>4
  <1> QED BY <1>13, <1>14, <1>15, <1>17, <1>20, <1>21, <1>22, <1>23
-----------------------------------------------------------------------------

LEMMA Keeps == Configured /\ IInv /\ [Next]_vars => IInv'
  <1> SUFFICES ASSUME Configured, IInv, [Next]_vars PROVE IInv' OBVIOUS
  <1>1. DOMAIN stores = 1..Len(stores) BY StoresTyped DEF IInv
  <1>2. CASE Serve \/ Control BY <1>2, ControlKeeps
  <1>3. CASE Reload BY <1>3, ReloadKeeps
  <1>4. CASE Crash BY <1>4, CrashKeeps
  <1>5. CASE Restart BY <1>5, RestartKeeps
  <1>6. CASE Tick BY <1>6, TickKeeps
  <1>7. CASE \E put \in bodies : Put(put) \/ Left(put) BY <1>7, PutKeeps
  <1>8. CASE \E s \in DOMAIN stores : BeginWrite(s) \/ EndWrite(s) \/ FailWrite(s)
    BY <1>1, <1>8, BeginWriteKeeps, EndWriteKeeps
  <1>9. CASE UNCHANGED vars
    <2>1. /\ UNCHANGED <<now, up, stores, serving, file, made, agents, last, uncertain, late>>
          /\ bodies' = bodies
      BY <1>9 DEF vars, ghosts
    <2>2. bodies \subseteq [store : 1..Len(stores), url : Urls] /\ (~up => bodies = {})
      BY DEF IInv, TypeOK, Down
    <2> QED BY <2>1, <2>2, QuietKeeps
  <1> QED BY <1>2, <1>3, <1>4, <1>5, <1>6, <1>7, <1>8, <1>9 DEF Next

LEMMA KeepsTarget == IInv => TargetIsKept
  <1> SUFFICES ASSUME IInv PROVE TargetIsKept OBVIOUS
  <1> USE DEF IInv
  <1>1. ASSUME ~uncertain, up => Idle PROVE Unexpired(file) = Unexpired(last)
    <2>1. stores[serving].saving = <<>>
      <3>1. CASE up
        <4>1. serving \in DOMAIN stores BY StoresTyped DEF TypeOK
        <4> QED BY <1>1, <3>1, <4>1 DEF Idle
      <3>2. CASE ~up
        <4>1. stores[serving] = NewStore(None) BY <3>2 DEF Down
        <4> QED BY <4>1, TargetsTyped, NewStoreTyped
      <3> QED BY <3>1, <3>2
    <2> QED BY <1>1, <2>1 DEF Written
  <1> QED BY <1>1 DEF TargetIsKept, Registered, Connected

(* For any addresses, time to live, limits, reloads, crashes and writes    *)
(* that fail, a proxy server passes requests to the target that was        *)
(* registered last, its file ends with it, and no other target keeps its   *)
(* connections (create-target-store.ts:55, 68).                            *)
THEOREM TargetKept == Configured /\ Spec => []TargetIsKept
  <1>1. Init => IInv BY Initially
  <1>2. Configured /\ IInv /\ [Next]_vars => IInv' BY Keeps
  <1>3. IInv => TargetIsKept BY KeepsTarget
  <1> SUFFICES ASSUME Configured PROVE Spec => []TargetIsKept OBVIOUS
  <1>4. IInv /\ [Next]_vars => IInv' BY <1>2
  <1> QED BY <1>1, <1>3, <1>4, PTL DEF Spec
-----------------------------------------------------------------------------
(***************************************************************************)
(* The folders of lambda processes for any number of servers and folders.  *)
(*                                                                         *)
(* FoldersAreKept is not inductive: a removal that is under way must not   *)
(* be one of a folder that is in use, which needs to know that a folder is *)
(* tracked by the server in its name alone, and the exit listener of a     *)
(* server must be there exactly when the server tracks something.          *)
(***************************************************************************)
Named == Pids \X Folders

FoldersTyped ==
    /\ running \subseteq Pids
    /\ removing \subseteq Named
    /\ tracked \in [Pids -> SUBSET Named]
    /\ hooked \in [Pids -> BOOLEAN]

(* a folder is tracked by the server it is named after                     *)
TrackedByOwner == \A p \in Pids : \A f \in tracked[p] : f[1] = p

(* trackLambdaFolder hooks the exit with the first folder of a server and  *)
(* takes the listener away with the last                                   *)
HookedWhenTracking == \A p \in Pids : tracked[p] # {} => hooked[p]

(* What is being removed is not tracked any more, and it is removed by a   *)
(* server that runs.                                                       *)
RemovedWhenClosed == \A f \in removing : f[1] \in running /\ f \notin tracked[f[1]]

InUse == \A p \in running : tracked[p] \subseteq lambdas \cap disk
Accounted == disk \subseteq (UNION {tracked[p] : p \in running}) \cup removing \cup left

FoldersInv ==
    /\ FoldersTyped /\ TrackedByOwner /\ HookedWhenTracking /\ RemovedWhenClosed
    /\ InUse /\ Accounted

LEMMA FoldersInitially == Machine!Init => FoldersInv
  BY DEF Machine!Init, FoldersInv, FoldersTyped, TrackedByOwner, HookedWhenTracking,
         RemovedWhenClosed, InUse, Accounted, Named

(* a server starts: it tracks nothing yet                                  *)
LEMMA BootKeeps == ASSUME FoldersInv, NEW p \in Pids, Machine!Boot(p) PROVE FoldersInv'
  <1> USE DEF FoldersInv, Machine!Boot
  <1>1. FoldersTyped' BY DEF FoldersTyped
  <1>2. TrackedByOwner' BY DEF FoldersTyped, TrackedByOwner
  <1>3. HookedWhenTracking' BY DEF FoldersTyped, HookedWhenTracking
  <1>4. RemovedWhenClosed' BY DEF FoldersTyped, RemovedWhenClosed, Named
  <1>5. InUse' BY DEF FoldersTyped, InUse
  <1>6. Accounted'
    <2>1. \A q \in running : tracked'[q] = tracked[q] BY DEF FoldersTyped
    <2> QED BY <2>1 DEF Accounted
  <1> QED BY <1>1, <1>2, <1>3, <1>4, <1>5, <1>6

(* a sweep spares the folders of all servers that run                      *)
LEMMA SweepKeeps == ASSUME FoldersInv, NEW p \in Pids, Machine!Sweep(p) PROVE FoldersInv'
  <1> USE DEF FoldersInv, Machine!Sweep
  <1>1. FoldersTyped' BY DEF FoldersTyped
  <1>2. TrackedByOwner' BY DEF TrackedByOwner
  <1>3. HookedWhenTracking' BY DEF HookedWhenTracking
  <1>4. RemovedWhenClosed' BY DEF RemovedWhenClosed
  <1>5. InUse'
    <2> SUFFICES ASSUME NEW q \in running, NEW f \in tracked[q] PROVE f \in lambdas \cap disk'
      BY DEF InUse
    <2>1. f \in lambdas /\ f \in disk BY DEF InUse
    <2>2. f[1] \in running BY DEF FoldersTyped, TrackedByOwner
    <2> QED BY <2>1, <2>2
  <1>6. Accounted' BY DEF Accounted
  <1> QED BY <1>1, <1>2, <1>3, <1>4, <1>5, <1>6

(* a process starts in a folder that nobody has or removes                 *)
LEMMA StartLambdaKeeps == ASSUME FoldersInv, NEW p \in Pids, Machine!StartLambda(p) PROVE FoldersInv'
  <1>1. PICK name \in Folders :
           /\ p \in running /\ <<p, name>> \notin disk \cup lambdas \cup removing \cup left
           /\ disk' = disk \cup {<<p, name>>} /\ lambdas' = lambdas \cup {<<p, name>>}
           /\ hooked' = [hooked EXCEPT ![p] = @ \/ tracked[p] = {}]
           /\ tracked' = [tracked EXCEPT ![p] = @ \cup {<<p, name>>}]
           /\ UNCHANGED <<running, removing, left>>
    BY DEF Machine!StartLambda
  <1> DEFINE new == <<p, name>>
  <1>2. new \in Named /\ new[1] = p BY DEF Named
  <1>3. \A q \in Pids : tracked'[q] = IF q = p THEN tracked[p] \cup {new} ELSE tracked[q]
    BY <1>1 DEF FoldersInv, FoldersTyped
  <1>4. new \notin removing /\ disk' = disk \cup {new} /\ lambdas' = lambdas \cup {new}
    BY <1>1
  <1> HIDE DEF new
  <1>5. FoldersTyped'
    <2>1. tracked' \in [Pids -> SUBSET Named]
      BY <1>1, <1>2 DEF FoldersInv, FoldersTyped, new
    <2>2. hooked' \in [Pids -> BOOLEAN] BY <1>1 DEF FoldersInv, FoldersTyped
    <2> QED BY <1>1, <2>1, <2>2 DEF FoldersInv, FoldersTyped
  <1>6. TrackedByOwner' BY <1>2, <1>3 DEF FoldersInv, TrackedByOwner
  <1>7. HookedWhenTracking'
    <2>1. hooked' = [hooked EXCEPT ![p] = hooked[p] \/ tracked[p] = {}] BY <1>1
    <2>2. \A q \in Pids : hooked'[q] = IF q = p THEN hooked[p] \/ tracked[p] = {} ELSE hooked[q]
      BY <2>1, Zenon DEF FoldersInv, FoldersTyped
    <2> QED BY <1>3, <2>2, Zenon DEF FoldersInv, HookedWhenTracking
  <1>8. RemovedWhenClosed'
    <2> SUFFICES ASSUME NEW f \in removing PROVE f[1] \in running /\ f \notin tracked'[f[1]]
      BY <1>1 DEF RemovedWhenClosed
    <2>1. f[1] \in running /\ f \notin tracked[f[1]] BY DEF FoldersInv, RemovedWhenClosed
    <2>2. f # new BY <1>4
    <2> QED BY <1>3, <2>1, <2>2 DEF FoldersInv, FoldersTyped
  <1>9. InUse' BY <1>1, <1>3, <1>4 DEF FoldersInv, FoldersTyped, InUse
  <1>10. Accounted'
    <2> SUFFICES ASSUME NEW f \in disk'
                 PROVE  (\E q \in running : f \in tracked'[q]) \/ f \in removing \/ f \in left
      BY <1>1 DEF Accounted
    <2>1. CASE f = new BY <1>1, <1>3, <2>1
    <2>2. CASE f \in disk BY <1>1, <1>3, <2>2 DEF FoldersInv, FoldersTyped, Accounted
    <2> QED BY <1>4, <2>1, <2>2
  <1> QED BY <1>5, <1>6, <1>7, <1>8, <1>9, <1>10 DEF FoldersInv

(* a process closes: from here on its folder is removed                    *)
LEMMA CloseLambdaKeeps == ASSUME FoldersInv, NEW f \in Named, Machine!CloseLambda(f) PROVE FoldersInv'
  <1> DEFINE p == f[1]
  <1>1. /\ p \in Pids /\ p \in running /\ f \in tracked[p]
        /\ lambdas' = lambdas \ {f} /\ removing' = removing \cup {f}
        /\ UNCHANGED <<running, disk, left>>
    BY DEF Machine!CloseLambda, Named
  <1>2. tracked' = [tracked EXCEPT ![p] = tracked[p] \ {f}] BY DEF Machine!CloseLambda
  <1>3. hooked' = [hooked EXCEPT ![p] = hooked[p] /\ tracked[p] # {f}] BY DEF Machine!CloseLambda
  <1> HIDE DEF p
  <1>4. \A q \in Pids : tracked'[q] = IF q = p THEN tracked[p] \ {f} ELSE tracked[q]
    BY <1>2 DEF FoldersInv, FoldersTyped
  <1>5. \A q \in Pids : hooked'[q] = IF q = p THEN hooked[p] /\ tracked[p] # {f} ELSE hooked[q]
    BY <1>3, Zenon DEF FoldersInv, FoldersTyped
  <1>6. \A q \in Pids : f \notin tracked'[q] BY <1>4 DEF p, FoldersInv, TrackedByOwner
  <1>7. FoldersTyped'
    <2>1. tracked' \in [Pids -> SUBSET Named] BY <1>1, <1>2 DEF FoldersInv, FoldersTyped
    <2>2. hooked' \in [Pids -> BOOLEAN] BY <1>3 DEF FoldersInv, FoldersTyped
    <2> QED BY <1>1, <2>1, <2>2 DEF FoldersInv, FoldersTyped
  <1>8. TrackedByOwner' BY <1>4 DEF FoldersInv, TrackedByOwner
  <1>9. HookedWhenTracking'
    <2> SUFFICES ASSUME NEW q \in Pids, tracked'[q] # {} PROVE hooked'[q]
      BY DEF HookedWhenTracking
    <2>1. CASE q = p
      <3>1. tracked[p] \ {f} # {} BY <1>4, <2>1
      <3>2. tracked[p] # {} /\ tracked[p] # {f} BY <3>1
      <3>3. hooked[p] BY <1>1, <3>2, Zenon DEF FoldersInv, HookedWhenTracking
      <3> QED BY <1>5, <2>1, <3>2, <3>3, Zenon
    <2>2. CASE q # p
      <3>1. tracked[q] # {} BY <1>4, <2>2
      <3>2. hooked[q] BY <3>1, Zenon DEF FoldersInv, HookedWhenTracking
      <3> QED BY <1>5, <2>2, <3>2, Zenon
    <2> QED BY <2>1, <2>2
  <1>10. RemovedWhenClosed'
    <2> SUFFICES ASSUME NEW g \in removing' PROVE g[1] \in running /\ g \notin tracked'[g[1]]
      BY <1>1 DEF RemovedWhenClosed
    <2>1. CASE g = f BY <1>1, <1>6, <2>1 DEF p
    <2>2. CASE g \in removing
      <3>1. g[1] \in running /\ g \notin tracked[g[1]] BY <2>2 DEF FoldersInv, RemovedWhenClosed
      <3> QED BY <1>4, <3>1 DEF FoldersInv, FoldersTyped
    <2> QED BY <1>1, <2>1, <2>2
  <1>11. InUse' BY <1>1, <1>4, <1>6 DEF FoldersInv, FoldersTyped, InUse
  <1>12. Accounted'
    <2> SUFFICES ASSUME NEW g \in disk
                 PROVE  (\E q \in running : g \in tracked'[q]) \/ g \in removing' \/ g \in left
      BY <1>1 DEF Accounted
    <2>1. CASE g = f BY <1>1, <2>1
    <2>2. CASE g # f
      <3>1. (\E q \in running : g \in tracked[q]) \/ g \in removing \/ g \in left
        BY DEF FoldersInv, Accounted
      <3> QED BY <1>1, <1>4, <2>2, <3>1 DEF FoldersInv, FoldersTyped
    <2> QED BY <2>1, <2>2
  <1> QED BY <1>7, <1>8, <1>9, <1>10, <1>11, <1>12 DEF FoldersInv

(* a removal is done: the folder was in use by nobody                      *)
LEMMA RemovedKeeps == ASSUME FoldersInv, NEW f \in Named, Machine!Removed(f) PROVE FoldersInv'
  <1> USE DEF FoldersInv, Machine!Removed
  <1>1. FoldersTyped' BY DEF FoldersTyped
  <1>2. TrackedByOwner' BY DEF TrackedByOwner
  <1>3. HookedWhenTracking' BY DEF HookedWhenTracking
  <1>4. RemovedWhenClosed' BY DEF RemovedWhenClosed
  <1>5. InUse'
    <2> SUFFICES ASSUME NEW q \in running, NEW g \in tracked[q] PROVE g \in lambdas \cap disk'
      BY DEF InUse
    <2>1. g \in lambdas /\ g \in disk BY DEF InUse
    <2>2. g[1] = q BY DEF FoldersTyped, TrackedByOwner
    <2>3. g # f BY <2>2 DEF RemovedWhenClosed
    <2> QED BY <2>1, <2>3
  <1>6. Accounted' BY DEF Accounted
  <1> QED BY <1>1, <1>2, <1>3, <1>4, <1>5, <1>6

(* What an exit and a kill of a server have in common: the server tracks   *)
(* nothing any more and removes nothing any more.                          *)
LEMMA EndKeeps ==
  ASSUME FoldersInv, NEW p \in Pids, p \in running,
         running' = running \ {p},
         disk' \subseteq disk, lambdas' = lambdas,
         \A q \in running \ {p} : tracked[q] \cap disk \subseteq disk',
         disk' \cap (tracked[p] \cup Machine!Of(p, removing)) \subseteq left',
         left \subseteq left',
         removing' = removing \ Machine!Of(p, removing),
         tracked' = [tracked EXCEPT ![p] = {}], hooked' = [hooked EXCEPT ![p] = FALSE]
  PROVE  FoldersInv'
  <1>1. \A q \in Pids : tracked'[q] = IF q = p THEN {} ELSE tracked[q] BY DEF FoldersInv, FoldersTyped
  <1>2. FoldersTyped' BY DEF FoldersInv, FoldersTyped
  <1>3. TrackedByOwner' BY <1>1 DEF FoldersInv, TrackedByOwner
  <1>4. HookedWhenTracking'
    <2> SUFFICES ASSUME NEW q \in Pids, tracked'[q] # {} PROVE hooked'[q]
      BY DEF HookedWhenTracking
    <2>1. q # p /\ tracked[q] # {} BY <1>1
    <2>2. hooked[q] BY <2>1, Zenon DEF FoldersInv, HookedWhenTracking
    <2> QED BY <2>1, <2>2, Zenon DEF FoldersInv, FoldersTyped
  <1>5. RemovedWhenClosed'
    <2> SUFFICES ASSUME NEW f \in removing' PROVE f[1] \in running' /\ f \notin tracked'[f[1]]
      BY DEF RemovedWhenClosed
    <2>1. f \in removing /\ f[1] # p BY DEF Machine!Of
    <2>2. f[1] \in running /\ f \notin tracked[f[1]] BY <2>1 DEF FoldersInv, RemovedWhenClosed
    <2> QED BY <1>1, <2>1, <2>2 DEF FoldersInv, FoldersTyped
  <1>6. InUse' BY <1>1 DEF FoldersInv, FoldersTyped, InUse
  <1>7. Accounted'
    <2> SUFFICES ASSUME NEW f \in disk'
                 PROVE  (\E q \in running' : f \in tracked'[q]) \/ f \in removing' \/ f \in left'
      BY DEF Accounted
    <2>1. (\E q \in running : f \in tracked[q]) \/ f \in removing \/ f \in left
      BY DEF FoldersInv, Accounted
    <2>2. CASE f \in removing BY <2>2
    <2>3. CASE f \in left BY <2>3
    <2>4. CASE \E q \in running : f \in tracked[q] BY <1>1, <2>4 DEF FoldersInv, FoldersTyped
    <2> QED BY <2>1, <2>2, <2>3, <2>4
  <1> QED BY <1>2, <1>3, <1>4, <1>5, <1>6, <1>7 DEF FoldersInv

(* an exit with the listener removes what is tracked, and nothing else     *)
LEMMA ExitServerKeeps == ASSUME FoldersInv, NEW p \in Pids, Machine!ExitServer(p) PROVE FoldersInv'
  <1>1. tracked[p] # {} => hooked[p] BY Zenon DEF FoldersInv, HookedWhenTracking
  <1>2. disk' = disk \ tracked[p]
    <2>1. CASE hooked[p] BY <2>1 DEF Machine!ExitServer
    <2>2. CASE ~hooked[p]
      <3>1. tracked[p] = {} BY <1>1, <2>2, Zenon
      <3> QED BY <2>2, <3>1 DEF Machine!ExitServer
    <2> QED BY <2>1, <2>2
  <1>3. ASSUME NEW q \in running \ {p} PROVE tracked[q] \cap disk \subseteq disk'
    <2>1. tracked[q] \cap tracked[p] = {} BY DEF FoldersInv, FoldersTyped, TrackedByOwner
    <2> QED BY <1>2, <2>1
  <1>4. disk' \cap (tracked[p] \cup Machine!Of(p, removing)) \subseteq left' BY <1>2 DEF Machine!ExitServer
  <1> QED BY <1>2, <1>3, <1>4, EndKeeps DEF Machine!ExitServer

(* a kill leaves them                                                      *)
LEMMA KillServerKeeps == ASSUME FoldersInv, NEW p \in Pids, Machine!KillServer(p) PROVE FoldersInv'
  BY EndKeeps DEF Machine!KillServer

(* the lambda of a server that is gone ends                                *)
LEMMA OrphanedKeeps == ASSUME FoldersInv, NEW f \in Named, Machine!Orphaned(f) PROVE FoldersInv'
  <1> USE DEF FoldersInv, Machine!Orphaned
  <1>1. FoldersTyped' BY DEF FoldersTyped
  <1>2. TrackedByOwner' BY DEF TrackedByOwner
  <1>3. HookedWhenTracking' BY DEF HookedWhenTracking
  <1>4. RemovedWhenClosed' BY DEF RemovedWhenClosed
  <1>5. InUse' BY DEF FoldersTyped, TrackedByOwner, InUse
  <1>6. Accounted' BY DEF Accounted
  <1> QED BY <1>1, <1>2, <1>3, <1>4, <1>5, <1>6

(* every step keeps the invariant                                          *)
LEMMA FoldersStep == FoldersInv /\ [Machine!Next]_(Machine!vars) => FoldersInv'
  <1> SUFFICES ASSUME FoldersInv, [Machine!Next]_(Machine!vars) PROVE FoldersInv'
    OBVIOUS
  <1>1. CASE UNCHANGED Machine!vars
    BY <1>1 DEF Machine!vars, FoldersInv, FoldersTyped, TrackedByOwner, HookedWhenTracking,
                RemovedWhenClosed, InUse, Accounted
  <1>2. ASSUME NEW p \in Pids, Machine!Boot(p) PROVE FoldersInv' BY <1>2, BootKeeps
  <1>3. ASSUME NEW p \in Pids, Machine!Sweep(p) PROVE FoldersInv' BY <1>3, SweepKeeps
  <1>4. ASSUME NEW p \in Pids, Machine!StartLambda(p) PROVE FoldersInv' BY <1>4, StartLambdaKeeps
  <1>5. ASSUME NEW p \in Pids, Machine!ExitServer(p) PROVE FoldersInv' BY <1>5, ExitServerKeeps
  <1>6. ASSUME NEW p \in Pids, Machine!KillServer(p) PROVE FoldersInv' BY <1>6, KillServerKeeps
  <1>7. ASSUME NEW f \in Named, Machine!CloseLambda(f) PROVE FoldersInv' BY <1>7, CloseLambdaKeeps
  <1>8. ASSUME NEW f \in Named, Machine!Removed(f) PROVE FoldersInv' BY <1>8, RemovedKeeps
  <1>9. ASSUME NEW f \in Named, Machine!Orphaned(f) PROVE FoldersInv' BY <1>9, OrphanedKeeps
  <1> QED BY <1>1, <1>2, <1>3, <1>4, <1>5, <1>6, <1>7, <1>8, <1>9 DEF Machine!Next, Named

(* Whatever servers start, sweep, exit or are killed, and in whatever      *)
(* order: the folder of a lambda whose server runs is there, and what is   *)
(* there is in use, being removed or left by a server that had no time.    *)
THEOREM FoldersKept == Machine!Spec => []Machine!FoldersAreKept
  <1>1. FoldersInv => Machine!FoldersAreKept BY DEF FoldersInv, InUse, Accounted, Machine!FoldersAreKept
  <1> QED BY <1>1, FoldersInitially, FoldersStep, PTL DEF Machine!Spec
-----------------------------------------------------------------------------
(***************************************************************************)
(* The service of the system for any configurations, platforms, commands   *)
(* and troubles.                                                           *)
(*                                                                         *)
(* ServiceIsFound speaks of the ends of commands.  What makes it true is   *)
(* where a command is: what its steps have done so far, and what nothing   *)
(* else has changed since it began (Adding, Removing).                     *)
(***************************************************************************)
(* What a configuration has: a version, so that its definition is not that *)
(* of a service which is not there (None).                                 *)
Versioned == \A c \in Configurations : c.version # OS!None.version

Definitions == {OS!SystemdUnit(c) : c \in Configurations} \cup {OS!LaunchdPlist(c) : c \in Configurations}
States(S) == [OS!Scopes -> [OS!Names -> S]]

ServicesTyped ==
    /\ files \in States(Definitions \cup {OS!None}) /\ known \in States(Definitions \cup {OS!None})
    /\ runs \in States(Definitions \cup {OS!None}) /\ enabled \in States(BOOLEAN)
    /\ configuration \in Configurations \cup {NoConfiguration}

(* launchd has loaded nothing whose definition is gone                     *)
Loaded ==
    platform # "linux" => \A scope \in OS!Scopes : \A name \in OS!Names :
        ~enabled[scope][name] /\ (known[scope][name] # OS!None => files[scope][name] # OS!None)

(* the command is about a service                                          *)
OfAService == command.scope \in OS!Scopes /\ command.name \in OS!Names

(* what a command may have left to do                                      *)
AddLeft ==
    IF platform = "linux"
    THEN {<<"makeFolder", "write", "daemon-reload", "enable">>, <<"write", "daemon-reload", "enable">>,
          <<"daemon-reload", "enable">>, <<"enable">>}
    ELSE {<<"makeFolder", "write", "bootstrap">>, <<"write", "bootstrap">>, <<"bootstrap">>}

RemoveLeft ==
    IF platform = "linux"
    THEN {<<"disable", "rm", "daemon-reload">>, <<"rm", "daemon-reload">>, <<"daemon-reload">>}
    ELSE {<<"bootout", "rm">>, <<"rm">>}

(* What an add has left as it was: nothing is started, and launchd is told *)
(* nothing, before its last step.  The file is written early.              *)
Adding ==
    /\ todo \in AddLeft
    /\ OS!Runs = before.runs /\ (platform = "darwin" => OS!Known = before.known)
    /\ Head(todo) \notin {"makeFolder", "write"} => OS!File = command.file

(* What a remove has done: the service is stopped and not started again    *)
(* before its file goes, which systemd is told of last.                    *)
Removing ==
    /\ todo \in RemoveLeft
    /\ Head(todo) \in {"disable", "bootout"} => OS!File = before.file /\ OS!Known = before.known
    /\ Head(todo) = "rm" => OS!File # OS!None /\ (platform = "darwin" => OS!Known = OS!None)
    /\ Head(todo) = "daemon-reload" => OS!File = OS!None
    /\ Head(todo) \in {"rm", "daemon-reload"} =>
          OS!Runs = OS!None /\ ~enabled[command.scope][command.name]

Underway ==
    todo # <<>> =>
        /\ OfAService /\ command.file \in Definitions /\ platform \in {"linux", "darwin"}
        /\ outcome.ended = "running"
        /\ \/ command.does = "add" /\ Adding
           \/ command.does = "remove" /\ Removing

Done == outcome.ended \in {"added", "removed"} => todo = <<>> /\ OfAService

(* the parts of the property                                               *)
Found ==
    \A scope \in OS!Scopes : \A name \in OS!Names :
        runs[scope][name] # OS!None \/ enabled[scope][name] => files[scope][name] # OS!None

AddedWell ==
    outcome.ended = "added" =>
        /\ OS!File = command.file /\ OS!Known = OS!File
        /\ platform = "linux" => enabled[command.scope][command.name]
        /\ OS!Runs = OS!File \/ (platform = "linux" /\ before.runs # OS!None /\ OS!Runs = before.runs)

RemovedWell ==
    outcome.ended = "removed" =>
        /\ OS!File = OS!None /\ OS!Known = OS!None /\ OS!Runs = OS!None
        /\ ~enabled[command.scope][command.name]

(* no step but one that finds nothing to work on, or launchd's bootstrap   *)
(* that finds too much, is refused                                         *)
FailedRightly ==
    outcome = [ended |-> "failed", reason |-> "manager"] =>
        IF platform = "linux" THEN command.does = "remove" /\ before.file = OS!None
        ELSE (command.does = "remove") = (before.known = OS!None)

ServiceInv ==
    /\ ServicesTyped /\ Loaded /\ Underway /\ Done
    /\ Found /\ AddedWell /\ RemovedWell /\ FailedRightly

LEMMA FindsService == ServiceInv => OS!ServiceIsFound
  BY Zenon DEF ServiceInv, OS!ServiceIsFound, Found, AddedWell, RemovedWell, FailedRightly
-----------------------------------------------------------------------------
(* Lists of steps                                                          *)

LEMMA Lists ==
    /\ \A a : Head(<<a>>) = a /\ Tail(<<a>>) = <<>> /\ <<a>> # <<>>
    /\ \A a, b : Head(<<a, b>>) = a /\ Tail(<<a, b>>) = <<b>> /\ <<a, b>> # <<>>
    /\ \A a, b, c : /\ Head(<<a, b, c>>) = a /\ Tail(<<a, b, c>>) = <<b, c>>
                    /\ <<a, b, c>> # <<>>
    /\ \A a, b, c, d : /\ Head(<<a, b, c, d>>) = a /\ Tail(<<a, b, c, d>>) = <<b, c, d>>
                       /\ <<a, b, c, d>> # <<>>
  OBVIOUS

LEMMA Joined ==
    /\ \A a : <<>> \o <<a>> = <<a>>
    /\ \A a, b : <<a>> \o <<b>> = <<a, b>>
    /\ \A a, b, c : <<a>> \o <<b, c>> = <<a, b, c>> /\ <<a, b>> \o <<c>> = <<a, b, c>>
    /\ \A a, b, c, d : <<a, b>> \o <<c, d>> = <<a, b, c, d>>
  <1>1. \A a : <<>> \o <<a>> = <<a>> OBVIOUS
  <1>2. ASSUME NEW a, NEW b PROVE <<a>> \o <<b>> = <<a, b>>
    <2> DEFINE s == <<a>> \o <<b>>
               t == <<a, b>>
               S == {a, b}
    <2>1. <<a>> \in Seq(S) /\ <<b>> \in Seq(S) OBVIOUS
    <2>2. s \in Seq(S) /\ Len(s) = 2 BY <2>1
    <2>3. t \in Seq(S) /\ Len(t) = 2 OBVIOUS
    <2>4. s[1] = a BY <2>1
    <2>5. s[2] = b BY <2>1
    <2>6. \A i \in 1..2 : i = 1 \/ i = 2 OBVIOUS
    <2>7. t[1] = a /\ t[2] = b OBVIOUS
    <2> HIDE DEF s, t
    <2>8. \A i \in 1..Len(s) : s[i] = t[i] BY <2>2, <2>4, <2>5, <2>6, <2>7
    <2>9. s = t BY <2>2, <2>3, <2>8
    <2> QED BY <2>9 DEF s, t
  <1>3. ASSUME NEW a, NEW b, NEW c PROVE <<a>> \o <<b, c>> = <<a, b, c>>
    <2> DEFINE s == <<a>> \o <<b, c>>
               t == <<a, b, c>>
               S == {a, b, c}
    <2>1. <<a>> \in Seq(S) /\ <<b, c>> \in Seq(S) OBVIOUS
    <2>2. s \in Seq(S) /\ Len(s) = 3 BY <2>1
    <2>3. t \in Seq(S) /\ Len(t) = 3 OBVIOUS
    <2>4. s[1] = a BY <2>1
    <2>5. s[2] = b BY <2>1
    <2>6. s[3] = c BY <2>1
    <2>7. \A i \in 1..3 : i = 1 \/ i = 2 \/ i = 3 OBVIOUS
    <2>8. t[1] = a /\ t[2] = b /\ t[3] = c OBVIOUS
    <2> HIDE DEF s, t
    <2>9. \A i \in 1..Len(s) : s[i] = t[i] BY <2>2, <2>4, <2>5, <2>6, <2>7, <2>8
    <2>10. s = t BY <2>2, <2>3, <2>9
    <2> QED BY <2>10 DEF s, t
  <1>4. ASSUME NEW a, NEW b, NEW c PROVE <<a, b>> \o <<c>> = <<a, b, c>>
    <2> DEFINE s == <<a, b>> \o <<c>>
               t == <<a, b, c>>
               S == {a, b, c}
    <2>1. <<a, b>> \in Seq(S) /\ <<c>> \in Seq(S) OBVIOUS
    <2>2. s \in Seq(S) /\ Len(s) = 3 BY <2>1
    <2>3. t \in Seq(S) /\ Len(t) = 3 OBVIOUS
    <2>4. s[1] = a BY <2>1
    <2>5. s[2] = b BY <2>1
    <2>6. s[3] = c BY <2>1
    <2>7. \A i \in 1..3 : i = 1 \/ i = 2 \/ i = 3 OBVIOUS
    <2>8. t[1] = a /\ t[2] = b /\ t[3] = c OBVIOUS
    <2> HIDE DEF s, t
    <2>9. \A i \in 1..Len(s) : s[i] = t[i] BY <2>2, <2>4, <2>5, <2>6, <2>7, <2>8
    <2>10. s = t BY <2>2, <2>3, <2>9
    <2> QED BY <2>10 DEF s, t
  <1>5. ASSUME NEW a, NEW b, NEW c, NEW d PROVE <<a, b>> \o <<c, d>> = <<a, b, c, d>>
    <2> DEFINE s == <<a, b>> \o <<c, d>>
               t == <<a, b, c, d>>
               S == {a, b, c, d}
    <2>1. <<a, b>> \in Seq(S) /\ <<c, d>> \in Seq(S) OBVIOUS
    <2>2. s \in Seq(S) /\ Len(s) = 4 BY <2>1
    <2>3. t \in Seq(S) /\ Len(t) = 4 OBVIOUS
    <2>4. s[1] = a BY <2>1
    <2>5. s[2] = b BY <2>1
    <2>6. s[3] = c BY <2>1
    <2>7. s[4] = d BY <2>1
    <2>8. \A i \in 1..4 : i = 1 \/ i = 2 \/ i = 3 \/ i = 4 OBVIOUS
    <2>9. t[1] = a /\ t[2] = b /\ t[3] = c /\ t[4] = d OBVIOUS
    <2> HIDE DEF s, t
    <2>10. \A i \in 1..Len(s) : s[i] = t[i] BY <2>2, <2>4, <2>5, <2>6, <2>7, <2>8, <2>9
    <2>11. s = t BY <2>2, <2>3, <2>10
    <2> QED BY <2>11 DEF s, t
  <1> QED BY <1>1, <1>2, <1>3, <1>4, <1>5

LEMMA DefinitionsAreThere == Versioned => OS!None \notin Definitions
  BY DEF Versioned, Definitions, OS!SystemdUnit, OS!LaunchdPlist, OS!None

(* one service is changed                                                  *)
LEMMA AtFacts ==
    ASSUME NEW S, NEW state \in States(S), NEW value \in S, OfAService
    PROVE  /\ OS!At(state, value) \in States(S)
           /\ OS!At(state, value)[command.scope][command.name] = value
           /\ \A scope \in OS!Scopes : \A name \in OS!Names :
                 ~(scope = command.scope /\ name = command.name)
                    => OS!At(state, value)[scope][name] = state[scope][name]
  <1> DEFINE s == command.scope
             n == command.name
             row == [state[s] EXCEPT ![n] = value]
  <1>1. s \in OS!Scopes /\ n \in OS!Names BY DEF OfAService
  <1>2. OS!At(state, value) = [state EXCEPT ![s] = row] BY DEF OS!At
  <1>3. state \in [OS!Scopes -> [OS!Names -> S]] BY DEF States
  <1>4. state[s] \in [OS!Names -> S] BY <1>1, <1>3
  <1> HIDE DEF s, n
  <1>5. /\ row \in [OS!Names -> S] /\ row[n] = value
        /\ \A name \in OS!Names : name # n => row[name] = state[s][name]
    BY <1>1, <1>4
  <1> HIDE DEF row
  <1>6. /\ OS!At(state, value) \in [OS!Scopes -> [OS!Names -> S]] /\ OS!At(state, value)[s] = row
        /\ \A scope \in OS!Scopes : scope # s => OS!At(state, value)[scope] = state[scope]
    BY <1>1, <1>2, <1>3, <1>5
  <1> QED BY <1>1, <1>5, <1>6 DEF s, n, States

LEMMA ServiceInitially == Versioned /\ OS!Init => ServiceInv
  <1> SUFFICES ASSUME Versioned, OS!Init PROVE ServiceInv OBVIOUS
  <1>1. /\ OS!Nowhere \in States(Definitions \cup {OS!None})
        /\ \A scope \in OS!Scopes : \A name \in OS!Names : OS!Nowhere[scope][name] = OS!None
    BY DEF OS!Nowhere, States
  <1>2. /\ files = OS!Nowhere /\ known = OS!Nowhere /\ runs = OS!Nowhere /\ todo = <<>>
        /\ outcome = [ended |-> "nothing", reason |-> ""]
        /\ configuration \in Configurations
        /\ enabled = [scope \in OS!Scopes |-> [name \in OS!Names |-> FALSE]]
    BY DEF OS!Init
  <1>3. enabled \in States(BOOLEAN) /\ \A scope \in OS!Scopes : \A name \in OS!Names : ~enabled[scope][name]
    BY <1>2 DEF States
  <1>4. outcome.ended = "nothing" BY <1>2
  <1>5. ServicesTyped /\ Loaded /\ Underway /\ Done
    BY <1>1, <1>2, <1>3, <1>4 DEF ServicesTyped, Loaded, Underway, Done
  <1>6. Found BY <1>1, <1>2, <1>3 DEF Found
  <1>7. AddedWell /\ RemovedWell /\ FailedRightly
    BY <1>2, <1>4 DEF AddedWell, RemovedWell, FailedRightly
  <1> QED BY <1>5, <1>6, <1>7 DEF ServiceInv

-----------------------------------------------------------------------------
(* Commands begin and end                                                  *)

(* one ends without having succeeded, or something else happens            *)
LEMMA EndsKeep ==
    ASSUME ServiceInv, UNCHANGED <<platform, files, known, enabled, runs>>,
           configuration' \in Configurations \cup {NoConfiguration},
           todo' = <<>>, outcome'.ended \notin {"added", "removed"},
           outcome' # [ended |-> "failed", reason |-> "manager"]
    PROVE  ServiceInv'
  <1>1. ServicesTyped' BY DEF ServiceInv, ServicesTyped
  <1>2. Loaded' BY DEF ServiceInv, Loaded
  <1>3. Underway' /\ Done' BY DEF Underway, Done
  <1>4. Found' BY DEF ServiceInv, Found
  <1>5. (AddedWell /\ RemovedWell /\ FailedRightly)' BY DEF AddedWell, RemovedWell, FailedRightly
  <1> QED BY <1>1, <1>2, <1>3, <1>4, <1>5 DEF ServiceInv

(* one goes on                                                             *)
LEMMA GoesOn ==
    ASSUME ServiceInv, platform' = platform, Found', Loaded', ServicesTyped',
           OfAService', command'.file \in Definitions, platform \in {"linux", "darwin"},
           outcome'.ended = "running",
           \/ command'.does = "add" /\ Adding'
           \/ command'.does = "remove" /\ Removing'
    PROVE  ServiceInv'
  <1>1. Underway' /\ Done' BY DEF Underway, Done, Definitions
  <1>2. (AddedWell /\ RemovedWell /\ FailedRightly)' BY DEF AddedWell, RemovedWell, FailedRightly
  <1> QED BY <1>1, <1>2 DEF ServiceInv

LEMMA ManageKeeps ==
    ASSUME ServiceInv, NEW add \in BOOLEAN, NEW remove \in BOOLEAN, NEW run \in BOOLEAN,
           NEW user \in BOOLEAN, NEW root \in BOOLEAN, OS!Manage(add, remove, run, user, root)
    PROVE  ServiceInv'
  <1> DEFINE scope == IF user THEN "user" ELSE "system"
             name == configuration.name
             definition == IF platform = "linux" THEN OS!SystemdUnit(configuration)
                     ELSE OS!LaunchdPlist(configuration)
  <1>1. /\ UNCHANGED <<platform, configuration, files, known, enabled, runs>>
        /\ \/ \E ended, reason : /\ OS!Ends(ended, reason)
                                 /\ <<ended, reason>> \in {<<"usage", "">>, <<"failed", "arguments">>,
                                                           <<"server", "">>}
           \/ /\ OS!CreatesDefinition(scope)
              /\ command' = [does |-> IF add THEN "add" ELSE "remove", scope |-> scope,
                             name |-> name, file |-> definition, root |-> root]
              /\ todo' = IF add THEN OS!InstallSteps(scope) ELSE OS!RemoveSteps
              /\ before' = [file |-> files[scope][name], known |-> known[scope][name],
                            runs |-> runs[scope][name]]
              /\ outcome' = [ended |-> "running", reason |-> ""]
    BY DEF OS!Manage, OS!services
  <1>2. configuration \in Configurations \cup {NoConfiguration} BY DEF ServiceInv, ServicesTyped
  <1>3. CASE \E ended, reason : /\ OS!Ends(ended, reason)
                                /\ <<ended, reason>> \in {<<"usage", "">>, <<"failed", "arguments">>,
                                                          <<"server", "">>}
    <2>1. PICK ended, reason : /\ OS!Ends(ended, reason)
                               /\ <<ended, reason>> \in {<<"usage", "">>, <<"failed", "arguments">>,
                                                         <<"server", "">>}
      BY <1>3
    <2>2. ended \in {"usage", "failed", "server"} /\ reason # "manager" BY <2>1
    <2>3. todo' = <<>> /\ outcome' = [ended |-> ended, reason |-> reason] BY <2>1 DEF OS!Ends
    <2>4. outcome'.ended = ended /\ outcome'.reason = reason BY <2>3
    <2>5. outcome' # [ended |-> "failed", reason |-> "manager"] BY <2>2, <2>4
    <2>6. outcome'.ended \notin {"added", "removed"} BY <2>2, <2>4
    <2>7. configuration' \in Configurations \cup {NoConfiguration} BY <1>1, <1>2
    <2> QED BY <1>1, <2>3, <2>5, <2>6, <2>7, EndsKeep
  <1>4. CASE /\ OS!CreatesDefinition(scope)
             /\ command' = [does |-> IF add THEN "add" ELSE "remove", scope |-> scope,
                            name |-> name, file |-> definition, root |-> root]
             /\ todo' = IF add THEN OS!InstallSteps(scope) ELSE OS!RemoveSteps
             /\ before' = [file |-> files[scope][name], known |-> known[scope][name],
                           runs |-> runs[scope][name]]
             /\ outcome' = [ended |-> "running", reason |-> ""]
    <2>1. configuration \in Configurations /\ platform \in {"linux", "darwin"}
      BY <1>2, <1>4 DEF OS!CreatesDefinition, OS!ResolveConfigurationPath
    <2>2. name \in OS!Names /\ scope \in OS!Scopes /\ definition \in Definitions
      BY <2>1 DEF OS!Names, OS!Scopes, Definitions
    <2> HIDE DEF scope, name, definition
    <2>3. command'.scope = scope /\ command'.name = name /\ command'.file = definition
          /\ command'.does = IF add THEN "add" ELSE "remove"
      BY <1>4
    <2>4. /\ before'.file = OS!File' /\ before'.known = OS!Known' /\ before'.runs = OS!Runs'
          /\ outcome'.ended = "running" /\ platform' = platform
      BY <1>1, <1>4, <2>3 DEF OS!File, OS!Known, OS!Runs
    <2>5. OfAService' BY <2>2, <2>3 DEF OfAService, OS!Names, OS!Scopes
    <2>6. Found' /\ Loaded' /\ ServicesTyped'
      <3>1. ServicesTyped' BY <1>1 DEF ServiceInv, ServicesTyped
      <3>2. Loaded' BY <1>1 DEF ServiceInv, Loaded
      <3>3. Found' BY <1>1 DEF ServiceInv, Found
      <3> QED BY <3>1, <3>2, <3>3
    <2>7. CASE add
      <3>1. todo' = OS!InstallSteps(scope) BY <1>4, <2>7
      <3>2. todo' \in AddLeft /\ Head(todo') \in {"makeFolder", "write"}
        <4>1. CASE platform = "linux" /\ scope = "user"
          <5>1. /\ todo' = (<<"makeFolder">> \o <<"write">>) \o OS!ServiceFiles("add")
                /\ OS!ServiceFiles("add") = <<"daemon-reload", "enable">>
            BY <3>1, <4>1 DEF OS!InstallSteps, OS!ServiceFiles
          <5>2. <<"makeFolder">> \o <<"write">> = <<"makeFolder", "write">> BY Joined
          <5>3. <<"makeFolder", "write">> \o <<"daemon-reload", "enable">>
                   = <<"makeFolder", "write", "daemon-reload", "enable">>
            BY Joined
          <5>4. todo' = <<"makeFolder", "write", "daemon-reload", "enable">> BY Zenon, <5>1, <5>2, <5>3
          <5> QED BY <4>1, <5>4, Lists DEF AddLeft
        <4>2. CASE platform = "linux" /\ scope # "user"
          <5>1. todo' = <<"write", "daemon-reload", "enable">>
            BY <3>1, <4>2, Joined DEF OS!InstallSteps, OS!ServiceFiles
          <5> QED BY <4>2, <5>1, Lists DEF AddLeft
        <4>3. CASE platform = "darwin" /\ scope = "user"
          <5>1. /\ todo' = (<<"makeFolder">> \o <<"write">>) \o OS!ServiceFiles("add")
                /\ OS!ServiceFiles("add") = <<"bootstrap">>
            BY <3>1, <4>3 DEF OS!InstallSteps, OS!ServiceFiles
          <5>2. <<"makeFolder">> \o <<"write">> = <<"makeFolder", "write">> BY Joined
          <5>3. <<"makeFolder", "write">> \o <<"bootstrap">> = <<"makeFolder", "write", "bootstrap">>
            BY Joined
          <5>4. todo' = <<"makeFolder", "write", "bootstrap">> BY Zenon, <5>1, <5>2, <5>3
          <5> QED BY <4>3, <5>4, Lists DEF AddLeft
        <4>4. CASE platform = "darwin" /\ scope # "user"
          <5>1. todo' = <<"write", "bootstrap">>
            BY <3>1, <4>4, Joined DEF OS!InstallSteps, OS!ServiceFiles
          <5> QED BY <4>4, <5>1, Lists DEF AddLeft
        <4> QED BY <2>1, <4>1, <4>2, <4>3, <4>4
      <3>3. todo' \in AddLeft' BY <2>4, <3>2 DEF AddLeft
      <3>4. Adding' BY <2>4, <3>2, <3>3 DEF Adding
      <3> QED BY <2>1, <2>2, <2>3, <2>4, <2>5, <2>7, <2>6, <3>4, GoesOn
    <2>8. CASE ~add
      <3>1. todo' = OS!RemoveSteps BY <1>4, <2>8
      <3>2. todo' \in RemoveLeft /\ Head(todo') \in {"disable", "bootout"}
        <4>1. CASE platform = "linux"
          <5>1. todo' = <<"disable", "rm", "daemon-reload">>
            BY <3>1, <4>1 DEF OS!RemoveSteps, OS!ServiceFiles
          <5> QED BY <4>1, <5>1, Lists DEF RemoveLeft
        <4>2. CASE platform = "darwin"
          <5>1. todo' = <<"bootout", "rm">> BY <3>1, <4>2 DEF OS!RemoveSteps, OS!ServiceFiles
          <5> QED BY <4>2, <5>1, Lists DEF RemoveLeft
        <4> QED BY <2>1, <4>1, <4>2
      <3>3. todo' \in RemoveLeft' BY <2>4, <3>2 DEF RemoveLeft
      <3>4. Removing' BY <2>4, <3>2, <3>3 DEF Removing
      <3> QED BY <2>1, <2>2, <2>3, <2>4, <2>5, <2>8, <2>6, <3>4, GoesOn
    <2> QED BY <2>7, <2>8
  <1> QED BY <1>1, <1>3, <1>4

(* what a step could not do ends its command                               *)
LEMMA StepFailsKeeps == ASSUME Versioned, ServiceInv, OS!StepFails PROVE ServiceInv'
  <1>1. /\ todo # <<>> /\ todo' = <<>>
        /\ UNCHANGED <<platform, configuration, files, known, enabled, runs, command, before>>
        /\ outcome' = [ended |-> "failed",
                       reason |-> IF command.scope = "system" /\ ~command.root THEN "root" ELSE "manager"]
        /\ ~OS!Possible(Head(todo)) \/ (command.scope = "system" /\ ~command.root)
    BY DEF OS!StepFails, OS!services
  <1>2. configuration \in Configurations \cup {NoConfiguration} BY DEF ServiceInv, ServicesTyped
  <1>3. CASE command.scope = "system" /\ ~command.root
    <2>1. outcome'.ended = "failed" /\ outcome'.reason = "root" BY <1>1, <1>3
    <2>2. outcome' # [ended |-> "failed", reason |-> "manager"] BY <2>1
    <2> QED BY <1>1, <1>2, <2>1, <2>2, EndsKeep
  <1>4. CASE ~(command.scope = "system" /\ ~command.root)
    <2>1. ~OS!Possible(Head(todo)) /\ outcome'.ended = "failed" BY <1>1, <1>4
    <2>2. ServicesTyped' /\ Loaded' /\ Found'
      <3>1. ServicesTyped' BY <1>1 DEF ServiceInv, ServicesTyped
      <3>2. Loaded' BY <1>1 DEF ServiceInv, Loaded
      <3>3. Found' BY <1>1 DEF ServiceInv, Found
      <3> QED BY <3>1, <3>2, <3>3
    <2>3. (Underway /\ Done /\ AddedWell /\ RemovedWell)'
      BY <1>1, <2>1 DEF Underway, Done, AddedWell, RemovedWell
    <2>4. command.file \in Definitions /\ platform \in {"linux", "darwin"} /\ OS!None \notin Definitions
      BY <1>1, DefinitionsAreThere DEF ServiceInv, Underway
    <2>5. IF platform = "linux" THEN command.does = "remove" /\ before.file = OS!None
          ELSE (command.does = "remove") = (before.known = OS!None)
      <3>1. CASE command.does = "add" /\ Adding
        <4>1. todo \in AddLeft /\ (platform = "darwin" => OS!Known = before.known)
              /\ (Head(todo) \notin {"makeFolder", "write"} => OS!File # OS!None)
          BY <2>4, <3>1 DEF Adding
        <4>2. CASE platform = "linux"
          <5>1. Head(todo) \in {"makeFolder", "write", "daemon-reload", "enable"}
            BY <4>1, <4>2, Lists DEF AddLeft
          <5> QED BY <2>1, <4>1, <5>1 DEF OS!Possible
        <4>3. CASE platform = "darwin"
          <5>1. Head(todo) \in {"makeFolder", "write", "bootstrap"}
            BY <4>1, <4>3, Lists DEF AddLeft
          <5>2. OS!Known # OS!None BY <2>1, <4>1, <5>1 DEF OS!Possible
          <5> QED BY <3>1, <4>1, <4>3, <5>2
        <4> QED BY <2>4, <4>2, <4>3
      <3>2. CASE command.does = "remove" /\ Removing
        <4>1. /\ todo \in RemoveLeft
              /\ Head(todo) \in {"disable", "bootout"} => OS!File = before.file /\ OS!Known = before.known
              /\ Head(todo) = "rm" => OS!File # OS!None
          BY <3>2 DEF Removing
        <4>2. CASE platform = "linux"
          <5>1. Head(todo) \in {"disable", "rm", "daemon-reload"}
            BY <4>1, <4>2, Lists DEF RemoveLeft
          <5>2. Head(todo) = "disable" /\ OS!File = OS!None BY <2>1, <4>1, <5>1 DEF OS!Possible
          <5> QED BY <3>2, <4>1, <4>2, <5>2
        <4>3. CASE platform = "darwin"
          <5>1. Head(todo) \in {"bootout", "rm"} BY <4>1, <4>3, Lists DEF RemoveLeft
          <5>2. Head(todo) = "bootout" /\ OS!Known = OS!None BY <2>1, <4>1, <5>1 DEF OS!Possible
          <5> QED BY <3>2, <4>1, <4>3, <5>2
        <4> QED BY <2>4, <4>2, <4>3
      <3> QED BY <1>1, <3>1, <3>2 DEF ServiceInv, Underway
    <2>6. FailedRightly' BY <1>1, <2>5 DEF FailedRightly
    <2> QED BY <2>2, <2>3, <2>6 DEF ServiceInv
  <1> QED BY <1>3, <1>4

-----------------------------------------------------------------------------
(* What happens besides                                                    *)

LEMMA BesidesKeeps == ASSUME ServiceInv, OS!Interrupted \/ OS!Edited PROVE ServiceInv'
  <1>1. /\ UNCHANGED <<platform, files, known, enabled, runs>> /\ todo' = <<>>
        /\ configuration' \in Configurations \cup {NoConfiguration}
        /\ outcome' \in {[ended |-> "failed", reason |-> "trouble"], [ended |-> "nothing", reason |-> ""]}
    BY DEF OS!Interrupted, OS!Edited, OS!services, ServiceInv, ServicesTyped
  <1>2. CASE outcome' = [ended |-> "failed", reason |-> "trouble"]
    <2>1. outcome'.ended = "failed" /\ outcome'.reason = "trouble" BY <1>2
    <2>2. outcome' # [ended |-> "failed", reason |-> "manager"]
      <3>1. [ended |-> "failed", reason |-> "manager"].reason # outcome'.reason BY <2>1
      <3> QED BY <3>1
    <2> QED BY <1>1, <2>1, <2>2, EndsKeep
  <1>3. CASE outcome' = [ended |-> "nothing", reason |-> ""]
    <2>1. outcome'.ended = "nothing" /\ outcome'.reason = "" BY <1>3
    <2>2. outcome' # [ended |-> "failed", reason |-> "manager"]
      <3>1. [ended |-> "failed", reason |-> "manager"].ended # outcome'.ended BY <2>1
      <3> QED BY <3>1
    <2> QED BY <1>1, <2>1, <2>2, EndsKeep
  <1> QED BY <1>1, <1>2, <1>3

LEMMA RestartedKeeps ==
    ASSUME ServiceInv, NEW scope \in OS!Scopes, NEW name \in OS!Names, OS!Restarted(scope, name)
    PROVE  ServiceInv'
  <1>1. /\ todo = <<>> /\ runs[scope][name] \notin {OS!None, known[scope][name]}
        /\ runs' = [runs EXCEPT ![scope][name] = known[scope][name]]
        /\ UNCHANGED <<platform, configuration, files, known, enabled, command, todo, before, outcome>>
    BY DEF OS!Restarted
  <1>2. /\ runs \in [OS!Scopes -> [OS!Names -> Definitions \cup {OS!None}]]
        /\ known \in [OS!Scopes -> [OS!Names -> Definitions \cup {OS!None}]]
    BY DEF ServiceInv, ServicesTyped, States
  <1>3. /\ runs' \in [OS!Scopes -> [OS!Names -> Definitions \cup {OS!None}]]
        /\ runs'[scope][name] = known[scope][name]
        /\ \A other \in OS!Scopes : \A one \in OS!Names :
              ~(other = scope /\ one = name) => runs'[other][one] = runs[other][one]
    <2> DEFINE row == [runs[scope] EXCEPT ![name] = known[scope][name]]
    <2>1. /\ runs[scope] \in [OS!Names -> Definitions \cup {OS!None}]
          /\ known[scope][name] \in Definitions \cup {OS!None}
      BY <1>2
    <2>2. /\ row \in [OS!Names -> Definitions \cup {OS!None}] /\ row[name] = known[scope][name]
          /\ \A one \in OS!Names : one # name => row[one] = runs[scope][one]
      BY <2>1
    <2>3. runs' = [runs EXCEPT ![scope] = row] BY <1>1
    <2> HIDE DEF row
    <2> QED BY <1>2, <2>2, <2>3
  <1>4. ServicesTyped' BY <1>1, <1>3 DEF ServiceInv, ServicesTyped, States
  <1>5. Loaded' BY <1>1 DEF ServiceInv, Loaded
  <1>6. Underway' /\ Done' BY <1>1 DEF ServiceInv, Underway, Done, OfAService
  <1>7. Found' BY <1>1, <1>3 DEF ServiceInv, Found
  <1>8. AddedWell'
    <2> SUFFICES ASSUME outcome.ended = "added" PROVE AddedWell' BY <1>1 DEF AddedWell
    <2>1. OfAService /\ OS!File = command.file /\ OS!Known = OS!File
          /\ (platform = "linux" => enabled[command.scope][command.name])
          /\ (OS!Runs = OS!File \/ (platform = "linux" /\ before.runs # OS!None /\ OS!Runs = before.runs))
      BY DEF ServiceInv, Done, AddedWell
    <2>2. /\ OS!File' = OS!File /\ OS!Known' = OS!Known
          /\ enabled'[command'.scope][command'.name] = enabled[command.scope][command.name]
      BY <1>1 DEF OS!File, OS!Known
    <2>3. OS!Runs' = OS!Runs \/ OS!Runs' = OS!Known
      <3>1. CASE command.scope = scope /\ command.name = name BY <1>1, <1>3, <3>1 DEF OS!Runs, OS!Known
      <3>2. CASE ~(command.scope = scope /\ command.name = name)
        BY <1>1, <1>3, <2>1, <3>2 DEF OS!Runs, OfAService
      <3> QED BY <3>1, <3>2
    <2> QED BY <1>1, <2>1, <2>2, <2>3 DEF AddedWell
  <1>9. RemovedWell'
    <2> SUFFICES ASSUME outcome.ended = "removed" PROVE RemovedWell' BY <1>1 DEF RemovedWell
    <2>1. /\ OfAService /\ OS!File = OS!None /\ OS!Known = OS!None /\ OS!Runs = OS!None
          /\ ~enabled[command.scope][command.name]
      BY DEF ServiceInv, Done, RemovedWell
    <2>2. ~(command.scope = scope /\ command.name = name) BY <1>1, <2>1 DEF OS!Runs
    <2>3. OS!Runs' = OS!Runs BY <1>1, <1>3, <2>1, <2>2 DEF OS!Runs, OfAService
    <2> QED BY <1>1, <2>1, <2>3 DEF RemovedWell, OS!File, OS!Known
  <1>10. FailedRightly' BY <1>1 DEF ServiceInv, FailedRightly
  <1> QED BY <1>4, <1>5, <1>6, <1>7, <1>8, <1>9, <1>10 DEF ServiceInv

LEMMA BootedKeeps == ASSUME ServiceInv, OS!Booted PROVE ServiceInv'
  <1>1. /\ known' = files /\ todo' = <<>> /\ outcome' = [ended |-> "nothing", reason |-> ""]
        /\ runs' = [scope \in OS!Scopes |-> [name \in OS!Names |->
                      IF platform = "linux" /\ ~enabled[scope][name] THEN OS!None ELSE files[scope][name]]]
        /\ UNCHANGED <<platform, configuration, files, enabled>>
    BY DEF OS!Booted
  <1>2. files \in [OS!Scopes -> [OS!Names -> Definitions \cup {OS!None}]]
    BY DEF ServiceInv, ServicesTyped, States
  <1>3. runs' \in [OS!Scopes -> [OS!Names -> Definitions \cup {OS!None}]]
    <2>1. \A scope \in OS!Scopes : \A name \in OS!Names : files[scope][name] \in Definitions \cup {OS!None}
      BY <1>2
    <2> QED BY <1>1, <2>1
  <1>4. ServicesTyped' BY <1>1, <1>3 DEF ServiceInv, ServicesTyped, States
  <1>5. Loaded' BY <1>1 DEF ServiceInv, Loaded
  <1>6. outcome'.ended = "nothing" BY <1>1
  <1>7. (Underway /\ Done /\ AddedWell /\ RemovedWell /\ FailedRightly)'
    BY <1>1, <1>6 DEF Underway, Done, AddedWell, RemovedWell, FailedRightly
  <1>8. Found'
    <2>1. ASSUME NEW scope \in OS!Scopes, NEW name \in OS!Names,
                 runs'[scope][name] # OS!None \/ enabled[scope][name]
          PROVE  files[scope][name] # OS!None
      <3>1. runs'[scope][name] = IF platform = "linux" /\ ~enabled[scope][name] THEN OS!None
                                 ELSE files[scope][name]
        BY <1>1
      <3> QED BY <2>1, <3>1 DEF ServiceInv, Found
    <2> QED BY <1>1, <2>1 DEF Found
  <1> QED BY <1>4, <1>5, <1>7, <1>8 DEF ServiceInv
-----------------------------------------------------------------------------
(* A step of a command                                                     *)

GoesTo(steps) == todo' = steps /\ steps # <<>> /\ UNCHANGED outcome
EndsAs(ended) == todo' = <<>> /\ outcome' = [ended |-> ended, reason |-> ""]

(* what every step does, and what it finds                                 *)
LEMMA StepParts ==
    ASSUME ServiceInv, OS!Step
    PROVE  /\ OfAService /\ OfAService' /\ command.file \in Definitions /\ platform \in {"linux", "darwin"}
           /\ outcome.ended = "running" /\ OS!Possible(Head(todo))
           /\ UNCHANGED <<platform, configuration, command, before>>
           /\ \/ command.does = "add" /\ Adding
              \/ command.does = "remove" /\ Removing
           /\ Tail(todo) # <<>> => GoesTo(Tail(todo))
           /\ Tail(todo) = <<>> /\ command.does = "add" => EndsAs("added")
           /\ Tail(todo) = <<>> /\ command.does = "remove" => EndsAs("removed")
  <1>1. todo # <<>> BY DEF OS!Step
  <1>2. /\ OfAService /\ command.file \in Definitions /\ platform \in {"linux", "darwin"}
        /\ outcome.ended = "running"
        /\ \/ command.does = "add" /\ Adding
           \/ command.does = "remove" /\ Removing
    BY <1>1 DEF ServiceInv, Underway
  <1>3. /\ UNCHANGED <<platform, configuration, command, before>> /\ OS!Possible(Head(todo))
        /\ Tail(todo) # <<>> => todo' = Tail(todo) /\ UNCHANGED outcome
        /\ Tail(todo) = <<>> =>
              /\ todo' = <<>>
              /\ outcome' = [ended |-> IF command.does = "add" THEN "added" ELSE "removed", reason |-> ""]
    BY DEF OS!Step, OS!Goes
  <1>4. OfAService' BY <1>2, <1>3 DEF OfAService, OS!Scopes, OS!Names
  <1>5. Tail(todo) # <<>> => GoesTo(Tail(todo)) BY <1>3 DEF GoesTo
  <1>6. Tail(todo) = <<>> /\ command.does = "add" => EndsAs("added") BY <1>3 DEF EndsAs
  <1>7. Tail(todo) = <<>> /\ command.does = "remove" => EndsAs("removed") BY <1>3 DEF EndsAs
  <1> QED BY <1>2, <1>3, <1>4, <1>5, <1>6, <1>7

LEMMA StepDoes ==
    ASSUME OS!Step
    PROVE  /\ Head(todo) = "makeFolder" => UNCHANGED OS!services
           /\ Head(todo) = "write" => OS!Write
           /\ Head(todo) = "rm" => OS!RemoveFile
           /\ Head(todo) = "daemon-reload" => OS!DaemonReload
           /\ Head(todo) = "enable" => OS!Enable
           /\ Head(todo) = "disable" => OS!Disable
           /\ Head(todo) = "bootstrap" => OS!Bootstrap
           /\ Head(todo) = "bootout" => OS!Bootout
  <1>1. CASE Head(todo) = "makeFolder" BY <1>1 DEF OS!Step
  <1>2. CASE Head(todo) = "write" BY <1>2 DEF OS!Step
  <1>3. CASE Head(todo) = "rm" BY <1>3 DEF OS!Step
  <1>4. CASE Head(todo) = "daemon-reload" BY <1>4 DEF OS!Step
  <1>5. CASE Head(todo) = "enable" BY <1>5 DEF OS!Step
  <1>6. CASE Head(todo) = "disable" BY <1>6 DEF OS!Step
  <1>7. CASE Head(todo) = "bootstrap" BY <1>7 DEF OS!Step
  <1>8. CASE Head(todo) = "bootout" BY <1>8 DEF OS!Step
  <1> QED BY <1>1, <1>2, <1>3, <1>4, <1>5, <1>6, <1>7, <1>8

(* a service that is changed in one way                                    *)
LEMMA FilesAt ==
    ASSUME ServiceInv, OfAService, UNCHANGED command, NEW definition \in Definitions \cup {OS!None},
           files' = OS!At(files, definition)
    PROVE  /\ files' \in States(Definitions \cup {OS!None}) /\ OS!File' = definition
           /\ \A scope \in OS!Scopes : \A name \in OS!Names :
                 ~(scope = command.scope /\ name = command.name) => files'[scope][name] = files[scope][name]
  <1>1. files \in States(Definitions \cup {OS!None}) BY DEF ServiceInv, ServicesTyped
  <1> QED BY <1>1, AtFacts DEF OS!File

LEMMA KnownAt ==
    ASSUME ServiceInv, OfAService, UNCHANGED command, NEW definition \in Definitions \cup {OS!None},
           known' = OS!At(known, definition)
    PROVE  /\ known' \in States(Definitions \cup {OS!None}) /\ OS!Known' = definition
           /\ \A scope \in OS!Scopes : \A name \in OS!Names :
                 ~(scope = command.scope /\ name = command.name) => known'[scope][name] = known[scope][name]
  <1>1. known \in States(Definitions \cup {OS!None}) BY DEF ServiceInv, ServicesTyped
  <1> QED BY <1>1, AtFacts DEF OS!Known

LEMMA RunsAt ==
    ASSUME ServiceInv, OfAService, UNCHANGED command, NEW definition \in Definitions \cup {OS!None},
           runs' = OS!At(runs, definition)
    PROVE  /\ runs' \in States(Definitions \cup {OS!None}) /\ OS!Runs' = definition
           /\ \A scope \in OS!Scopes : \A name \in OS!Names :
                 ~(scope = command.scope /\ name = command.name) => runs'[scope][name] = runs[scope][name]
  <1>1. runs \in States(Definitions \cup {OS!None}) BY DEF ServiceInv, ServicesTyped
  <1> QED BY <1>1, AtFacts DEF OS!Runs

LEMMA EnabledAt ==
    ASSUME ServiceInv, OfAService, UNCHANGED command, NEW on \in BOOLEAN, enabled' = OS!At(enabled, on)
    PROVE  /\ enabled' \in States(BOOLEAN) /\ enabled'[command.scope][command.name] = on
           /\ \A scope \in OS!Scopes : \A name \in OS!Names :
                 ~(scope = command.scope /\ name = command.name)
                    => enabled'[scope][name] = enabled[scope][name]
  <1>1. enabled \in States(BOOLEAN) BY DEF ServiceInv, ServicesTyped
  <1> QED BY <1>1, AtFacts

LEMMA KnownReloaded ==
    ASSUME ServiceInv, OfAService, UNCHANGED command, OS!Reloads
    PROVE  known' \in States(Definitions \cup {OS!None}) /\ OS!Known' = OS!File
  <1>1. command.scope \in OS!Scopes /\ command.name \in OS!Names BY DEF OfAService
  <1>2. /\ files \in [OS!Scopes -> [OS!Names -> Definitions \cup {OS!None}]]
        /\ known \in [OS!Scopes -> [OS!Names -> Definitions \cup {OS!None}]]
    BY DEF ServiceInv, ServicesTyped, States
  <1>3. known' = [known EXCEPT ![command.scope] = files[command.scope]] BY DEF OS!Reloads
  <1>4. known' \in [OS!Scopes -> [OS!Names -> Definitions \cup {OS!None}]] BY <1>1, <1>2, <1>3
  <1>5. known'[command.scope] = files[command.scope] BY <1>1, <1>2, <1>3
  <1> QED BY <1>4, <1>5 DEF States, OS!Known, OS!File

(* what there was of the service                                           *)
LEMMA ServiceTyped ==
    ASSUME ServiceInv, OfAService
    PROVE  /\ OS!File \in Definitions \cup {OS!None} /\ OS!Known \in Definitions \cup {OS!None}
           /\ OS!Runs \in Definitions \cup {OS!None}
  <1>1. command.scope \in OS!Scopes /\ command.name \in OS!Names BY DEF OfAService
  <1> QED BY <1>1 DEF ServiceInv, ServicesTyped, States, OS!File, OS!Known, OS!Runs

(* who starts, is started again or is enabled has its definition, if that  *)
(* holds of the service that changes                                       *)
LEMMA FoundKeeps ==
    ASSUME ServiceInv, OfAService, UNCHANGED command,
           OS!Runs' # OS!None \/ enabled'[command.scope][command.name] => OS!File' # OS!None,
           \A scope \in OS!Scopes : \A name \in OS!Names :
              ~(scope = command.scope /\ name = command.name) =>
                 /\ files'[scope][name] = files[scope][name] /\ runs'[scope][name] = runs[scope][name]
                 /\ enabled'[scope][name] = enabled[scope][name]
    PROVE  Found'
  <1>1. ASSUME NEW scope \in OS!Scopes, NEW name \in OS!Names,
               runs'[scope][name] # OS!None \/ enabled'[scope][name]
        PROVE  files'[scope][name] # OS!None
    <2>1. CASE scope = command.scope /\ name = command.name BY <1>1, <2>1 DEF OS!Runs, OS!File
    <2>2. CASE ~(scope = command.scope /\ name = command.name)
      <3>1. /\ files'[scope][name] = files[scope][name] /\ runs'[scope][name] = runs[scope][name]
            /\ enabled'[scope][name] = enabled[scope][name]
        BY <2>2
      <3> QED BY <1>1, <3>1 DEF ServiceInv, Found
    <2> QED BY <2>1, <2>2
  <1> QED BY <1>1 DEF Found

LEMMA LoadedKeeps ==
    ASSUME ServiceInv, OfAService, UNCHANGED <<platform, command, enabled>>, platform # "linux",
           OS!Known' # OS!None => OS!File' # OS!None,
           \A scope \in OS!Scopes : \A name \in OS!Names :
              ~(scope = command.scope /\ name = command.name) =>
                 files'[scope][name] = files[scope][name] /\ known'[scope][name] = known[scope][name]
    PROVE  Loaded'
  <1>1. ASSUME NEW scope \in OS!Scopes, NEW name \in OS!Names
        PROVE  ~enabled[scope][name] /\ (known'[scope][name] # OS!None => files'[scope][name] # OS!None)
    <2>1. ~enabled[scope][name] /\ (known[scope][name] # OS!None => files[scope][name] # OS!None)
      BY DEF ServiceInv, Loaded
    <2>2. CASE scope = command.scope /\ name = command.name BY <2>1, <2>2 DEF OS!Known, OS!File
    <2>3. CASE ~(scope = command.scope /\ name = command.name) BY <2>1, <2>3
    <2> QED BY <2>2, <2>3
  <1> QED BY <1>1 DEF Loaded

(* an end that went well                                                   *)
LEMMA AddEnds ==
    ASSUME ServicesTyped', Loaded', Found', OfAService', EndsAs("added"),
           OS!File' = command'.file, OS!Known' = OS!File',
           platform' = "linux" => enabled'[command'.scope][command'.name],
           OS!Runs' = OS!File' \/ (platform' = "linux" /\ before'.runs # OS!None /\ OS!Runs' = before'.runs)
    PROVE  ServiceInv'
  <1>1. todo' = <<>> /\ outcome'.ended = "added" BY DEF EndsAs
  <1>2. Underway' /\ Done' BY <1>1 DEF Underway, Done
  <1>3. AddedWell' BY DEF AddedWell
  <1>4. RemovedWell' BY <1>1 DEF RemovedWell
  <1>5. outcome' # [ended |-> "failed", reason |-> "manager"]
    <2>1. [ended |-> "failed", reason |-> "manager"].ended # outcome'.ended BY <1>1
    <2> QED BY <2>1
  <1>6. FailedRightly' BY <1>5 DEF FailedRightly
  <1> QED BY <1>2, <1>3, <1>4, <1>6 DEF ServiceInv

LEMMA RemoveEnds ==
    ASSUME ServicesTyped', Loaded', Found', OfAService', EndsAs("removed"),
           OS!File' = OS!None, OS!Known' = OS!None, OS!Runs' = OS!None,
           ~enabled'[command'.scope][command'.name]
    PROVE  ServiceInv'
  <1>1. todo' = <<>> /\ outcome'.ended = "removed" BY DEF EndsAs
  <1>2. Underway' /\ Done' BY <1>1 DEF Underway, Done
  <1>3. RemovedWell' BY DEF RemovedWell
  <1>4. AddedWell' BY <1>1 DEF AddedWell
  <1>5. outcome' # [ended |-> "failed", reason |-> "manager"]
    <2>1. [ended |-> "failed", reason |-> "manager"].ended # outcome'.ended BY <1>1
    <2> QED BY <2>1
  <1>6. FailedRightly' BY <1>5 DEF FailedRightly
  <1> QED BY <1>2, <1>3, <1>4, <1>6 DEF ServiceInv

(* the steps that are left, by the next one                                *)
LEMMA AddLefts ==
    ASSUME todo \in AddLeft
    PROVE  /\ Head(todo) = "makeFolder" => /\ Tail(todo) \in AddLeft /\ Tail(todo) # <<>>
                                           /\ Head(Tail(todo)) = "write"
           /\ Head(todo) = "write" => /\ Tail(todo) \in AddLeft /\ Tail(todo) # <<>>
                                      /\ Head(Tail(todo)) \in {"daemon-reload", "bootstrap"}
           /\ Head(todo) = "daemon-reload" => /\ Tail(todo) \in AddLeft /\ Tail(todo) # <<>>
                                              /\ Head(Tail(todo)) = "enable" /\ platform = "linux"
           /\ Head(todo) = "enable" => Tail(todo) = <<>> /\ platform = "linux"
           /\ Head(todo) = "bootstrap" => Tail(todo) = <<>> /\ platform # "linux"
           /\ Head(todo) \in {"makeFolder", "write", "daemon-reload", "enable", "bootstrap"}
  <1>1. CASE platform = "linux" /\ todo = <<"makeFolder", "write", "daemon-reload", "enable">>
    <2>1. Head(todo) = "makeFolder" /\ Tail(todo) = <<"write", "daemon-reload", "enable">> BY <1>1, Lists
    <2>2. /\ Head(<<"write", "daemon-reload", "enable">>) = "write"
          /\ <<"write", "daemon-reload", "enable">> # <<>>
      BY Lists
    <2>3. Tail(todo) \in AddLeft BY <1>1, <2>1 DEF AddLeft
    <2> QED BY <1>1, <2>1, <2>2, <2>3
  <1>2. CASE platform = "linux" /\ todo = <<"write", "daemon-reload", "enable">>
    <2>1. Head(todo) = "write" /\ Tail(todo) = <<"daemon-reload", "enable">> BY <1>2, Lists
    <2>2. Head(Tail(todo)) = "daemon-reload" /\ Tail(todo) # <<>> BY <2>1, Lists
    <2>3. Tail(todo) \in AddLeft BY <1>2, <2>1 DEF AddLeft
    <2> QED BY <1>2, <2>1, <2>2, <2>3
  <1>3. CASE platform = "linux" /\ todo = <<"daemon-reload", "enable">>
    <2>1. Head(todo) = "daemon-reload" /\ Tail(todo) = <<"enable">> BY <1>3, Lists
    <2>2. Head(Tail(todo)) = "enable" /\ Tail(todo) # <<>> BY <2>1, Lists
    <2>3. Tail(todo) \in AddLeft BY <1>3, <2>1 DEF AddLeft
    <2> QED BY <1>3, <2>1, <2>2, <2>3
  <1>4. CASE platform = "linux" /\ todo = <<"enable">>
    <2>1. Head(todo) = "enable" /\ Tail(todo) = <<>> BY <1>4, Lists
    <2> QED BY <1>4, <2>1
  <1>5. CASE platform # "linux" /\ todo = <<"makeFolder", "write", "bootstrap">>
    <2>1. Head(todo) = "makeFolder" /\ Tail(todo) = <<"write", "bootstrap">> BY <1>5, Lists
    <2>2. Head(Tail(todo)) = "write" /\ Tail(todo) # <<>> BY <2>1, Lists
    <2>3. Tail(todo) \in AddLeft BY <1>5, <2>1 DEF AddLeft
    <2> QED BY <1>5, <2>1, <2>2, <2>3
  <1>6. CASE platform # "linux" /\ todo = <<"write", "bootstrap">>
    <2>1. Head(todo) = "write" /\ Tail(todo) = <<"bootstrap">> BY <1>6, Lists
    <2>2. Head(Tail(todo)) = "bootstrap" /\ Tail(todo) # <<>> BY <2>1, Lists
    <2>3. Tail(todo) \in AddLeft BY <1>6, <2>1 DEF AddLeft
    <2> QED BY <1>6, <2>1, <2>2, <2>3
  <1>7. CASE platform # "linux" /\ todo = <<"bootstrap">>
    <2>1. Head(todo) = "bootstrap" /\ Tail(todo) = <<>> BY <1>7, Lists
    <2> QED BY <1>7, <2>1
  <1> QED BY <1>1, <1>2, <1>3, <1>4, <1>5, <1>6, <1>7 DEF AddLeft

LEMMA RemoveLefts ==
    ASSUME todo \in RemoveLeft
    PROVE  /\ Head(todo) = "disable" => /\ Tail(todo) \in RemoveLeft /\ Tail(todo) # <<>>
                                        /\ Head(Tail(todo)) = "rm" /\ platform = "linux"
           /\ Head(todo) = "bootout" => /\ Tail(todo) \in RemoveLeft /\ Tail(todo) # <<>>
                                        /\ Head(Tail(todo)) = "rm" /\ platform # "linux"
           /\ Head(todo) = "rm" /\ platform = "linux" => /\ Tail(todo) \in RemoveLeft
                                                         /\ Tail(todo) # <<>>
                                                         /\ Head(Tail(todo)) = "daemon-reload"
           /\ Head(todo) = "rm" /\ platform # "linux" => Tail(todo) = <<>>
           /\ Head(todo) = "daemon-reload" => Tail(todo) = <<>> /\ platform = "linux"
           /\ Head(todo) \in {"disable", "bootout", "rm", "daemon-reload"}
  <1>1. CASE platform = "linux" /\ todo = <<"disable", "rm", "daemon-reload">>
    <2>1. Head(todo) = "disable" /\ Tail(todo) = <<"rm", "daemon-reload">> BY <1>1, Lists
    <2>2. Head(Tail(todo)) = "rm" /\ Tail(todo) # <<>> BY <2>1, Lists
    <2>3. Tail(todo) \in RemoveLeft BY <1>1, <2>1 DEF RemoveLeft
    <2> QED BY <1>1, <2>1, <2>2, <2>3
  <1>2. CASE platform = "linux" /\ todo = <<"rm", "daemon-reload">>
    <2>1. Head(todo) = "rm" /\ Tail(todo) = <<"daemon-reload">> BY <1>2, Lists
    <2>2. Head(Tail(todo)) = "daemon-reload" /\ Tail(todo) # <<>> BY <2>1, Lists
    <2>3. Tail(todo) \in RemoveLeft BY <1>2, <2>1 DEF RemoveLeft
    <2> QED BY <1>2, <2>1, <2>2, <2>3
  <1>3. CASE platform = "linux" /\ todo = <<"daemon-reload">>
    <2>1. Head(todo) = "daemon-reload" /\ Tail(todo) = <<>> BY <1>3, Lists
    <2> QED BY <1>3, <2>1
  <1>4. CASE platform # "linux" /\ todo = <<"bootout", "rm">>
    <2>1. Head(todo) = "bootout" /\ Tail(todo) = <<"rm">> BY <1>4, Lists
    <2>2. Head(Tail(todo)) = "rm" /\ Tail(todo) # <<>> BY <2>1, Lists
    <2>3. Tail(todo) \in RemoveLeft BY <1>4, <2>1 DEF RemoveLeft
    <2> QED BY <1>4, <2>1, <2>2, <2>3
  <1>5. CASE platform # "linux" /\ todo = <<"rm">>
    <2>1. Head(todo) = "rm" /\ Tail(todo) = <<>> BY <1>5, Lists
    <2> QED BY <1>5, <2>1
  <1> QED BY <1>1, <1>2, <1>3, <1>4, <1>5 DEF RemoveLeft

LEMMA AddStepKeeps == ASSUME Versioned, ServiceInv, OS!Step, command.does = "add", Adding PROVE ServiceInv'
  <1> USE StepParts, StepDoes
  <1>1. /\ OfAService /\ OfAService' /\ command.file \in Definitions /\ OS!None \notin Definitions
        /\ UNCHANGED <<platform, configuration, command, before>>
        /\ outcome.ended = "running" /\ OS!Possible(Head(todo)) /\ command'.file \in Definitions
    BY DefinitionsAreThere
  <1>2. todo \in AddLeft /\ AddLeft' = AddLeft BY <1>1 DEF Adding, AddLeft
  <1>3. /\ OS!Runs = before.runs /\ (platform = "darwin" => OS!Known = before.known)
        /\ Head(todo) \notin {"makeFolder", "write"} => OS!File = command.file
    BY DEF Adding
  <1>4. Head(todo) \in {"makeFolder", "write", "daemon-reload", "enable", "bootstrap"} BY <1>2, AddLefts
  <1>5. ServicesTyped /\ Loaded /\ Found /\ platform \in {"linux", "darwin"} BY DEF ServiceInv
  <1>6. /\ OS!File \in Definitions \cup {OS!None} /\ OS!Known \in Definitions \cup {OS!None}
        /\ OS!Runs \in Definitions \cup {OS!None}
    BY <1>1, ServiceTyped
  <1>7. CASE Head(todo) = "makeFolder"
    <2>1. UNCHANGED <<files, known, enabled, runs>> BY <1>7 DEF OS!services
    <2>2. todo' \in AddLeft' /\ Head(todo') = "write" /\ outcome'.ended = "running"
      BY <1>1, <1>2, <1>7, AddLefts DEF GoesTo
    <2>3. OS!Runs' = OS!Runs /\ OS!Known' = OS!Known BY <1>1, <2>1 DEF OS!Runs, OS!Known
    <2>4. Adding' BY <1>1, <1>3, <2>2, <2>3 DEF Adding
    <2>5. ServicesTyped' BY <1>1, <1>5, <2>1 DEF ServicesTyped
    <2>6. Loaded' BY <1>1, <1>5, <2>1 DEF Loaded
    <2>7. Found' BY <1>5, <2>1 DEF Found
    <2> QED BY <1>1, <1>5, <2>2, <2>4, <2>5, <2>6, <2>7, GoesOn
  <1>8. CASE Head(todo) = "write"
    <2>1. files' = OS!At(files, command.file) /\ UNCHANGED <<known, enabled, runs>> BY <1>8 DEF OS!Write
    <2>2. todo' \in AddLeft' /\ Head(todo') \in {"daemon-reload", "bootstrap"}
          /\ outcome'.ended = "running"
      BY <1>1, <1>2, <1>8, AddLefts DEF GoesTo
    <2>3. /\ files' \in States(Definitions \cup {OS!None}) /\ OS!File' = command.file
          /\ \A scope \in OS!Scopes : \A name \in OS!Names :
                ~(scope = command.scope /\ name = command.name) => files'[scope][name] = files[scope][name]
      BY <1>1, <2>1, FilesAt
    <2>4. OS!Runs' = OS!Runs /\ OS!Known' = OS!Known BY <1>1, <2>1 DEF OS!Runs, OS!Known
    <2>5. Adding' BY <1>1, <1>3, <2>2, <2>3, <2>4 DEF Adding
    <2>6. ServicesTyped' BY <1>1, <1>5, <2>1, <2>3 DEF ServicesTyped
    <2>7. OS!File' # OS!None BY <1>1, <2>3
    <2>8. Found' BY <1>1, <2>1, <2>3, <2>7, FoundKeeps
    <2>9. Loaded'
      <3>1. CASE platform = "linux" BY <1>1, <3>1 DEF Loaded
      <3>2. CASE platform # "linux" BY <1>1, <2>1, <2>3, <2>7, <3>2, LoadedKeeps
      <3> QED BY <3>1, <3>2
    <2> QED BY <1>1, <1>5, <2>2, <2>5, <2>6, <2>8, <2>9, GoesOn
  <1>9. CASE Head(todo) = "daemon-reload"
    <2>1. OS!Reloads /\ UNCHANGED <<files, enabled, runs>> BY <1>9 DEF OS!DaemonReload
    <2>2. todo' \in AddLeft' /\ Head(todo') = "enable" /\ outcome'.ended = "running"
          /\ platform = "linux"
      BY <1>1, <1>2, <1>9, AddLefts DEF GoesTo
    <2>3. known' \in States(Definitions \cup {OS!None}) BY <1>1, <2>1, KnownReloaded
    <2>4. OS!Runs' = OS!Runs /\ OS!File' = OS!File BY <1>1, <2>1 DEF OS!Runs, OS!File
    <2>5. OS!File = command.file BY <1>3, <1>9
    <2>6. Adding' BY <1>1, <1>3, <2>2, <2>4, <2>5 DEF Adding
    <2>7. ServicesTyped' BY <1>1, <1>5, <2>1, <2>3 DEF ServicesTyped
    <2>8. Found' BY <1>5, <2>1 DEF Found
    <2>9. Loaded' BY <1>1, <2>2 DEF Loaded
    <2> QED BY <1>1, <1>5, <2>2, <2>6, <2>7, <2>8, <2>9, GoesOn
  <1>10. CASE Head(todo) = "enable"
    <2>1. /\ OS!Reloads /\ enabled' = OS!At(enabled, TRUE)
          /\ runs' = OS!At(runs, IF OS!Runs = OS!None THEN OS!File ELSE OS!Runs) /\ UNCHANGED files
      BY <1>10 DEF OS!Enable
    <2>2. EndsAs("added") /\ platform = "linux" BY <1>2, <1>10, AddLefts
    <2>3. known' \in States(Definitions \cup {OS!None}) /\ OS!Known' = OS!File BY <1>1, <2>1, KnownReloaded
    <2>4. /\ enabled' \in States(BOOLEAN) /\ enabled'[command.scope][command.name] = TRUE
          /\ \A scope \in OS!Scopes : \A name \in OS!Names :
                ~(scope = command.scope /\ name = command.name)
                   => enabled'[scope][name] = enabled[scope][name]
      BY <1>1, <2>1, EnabledAt
    <2>5. (IF OS!Runs = OS!None THEN OS!File ELSE OS!Runs) \in Definitions \cup {OS!None} BY <1>6
    <2>6. /\ runs' \in States(Definitions \cup {OS!None})
          /\ OS!Runs' = IF OS!Runs = OS!None THEN OS!File ELSE OS!Runs
          /\ \A scope \in OS!Scopes : \A name \in OS!Names :
                ~(scope = command.scope /\ name = command.name) => runs'[scope][name] = runs[scope][name]
      BY <1>1, <2>1, <2>5, RunsAt
    <2>7. OS!File' = OS!File /\ OS!File = command.file /\ OS!File # OS!None
      BY <1>1, <1>3, <1>10, <2>1 DEF OS!File
    <2>8. ServicesTyped' BY <1>1, <1>5, <2>1, <2>3, <2>4, <2>6 DEF ServicesTyped
    <2>9. Loaded' BY <1>1, <2>2 DEF Loaded
    <2>10. Found' BY <1>1, <2>1, <2>4, <2>6, <2>7, FoundKeeps
    <2>11. OS!Runs' = OS!File' \/ (before'.runs # OS!None /\ OS!Runs' = before'.runs)
      BY <1>1, <1>3, <2>6, <2>7
    <2> QED BY <1>1, <2>2, <2>3, <2>4, <2>7, <2>8, <2>9, <2>10, <2>11, AddEnds
  <1>11. CASE Head(todo) = "bootstrap"
    <2>1. known' = OS!At(known, OS!File) /\ runs' = OS!At(runs, OS!File) /\ UNCHANGED <<files, enabled>>
      BY <1>11 DEF OS!Bootstrap
    <2>2. EndsAs("added") /\ platform # "linux" BY <1>2, <1>11, AddLefts
    <2>3. /\ known' \in States(Definitions \cup {OS!None}) /\ OS!Known' = OS!File
          /\ \A scope \in OS!Scopes : \A name \in OS!Names :
                ~(scope = command.scope /\ name = command.name) => known'[scope][name] = known[scope][name]
      BY <1>1, <1>6, <2>1, KnownAt
    <2>4. /\ runs' \in States(Definitions \cup {OS!None}) /\ OS!Runs' = OS!File
          /\ \A scope \in OS!Scopes : \A name \in OS!Names :
                ~(scope = command.scope /\ name = command.name) => runs'[scope][name] = runs[scope][name]
      BY <1>1, <1>6, <2>1, RunsAt
    <2>5. OS!File' = OS!File /\ OS!File = command.file /\ OS!File # OS!None
      BY <1>1, <1>3, <1>11, <2>1 DEF OS!File
    <2>6. ServicesTyped' BY <1>1, <1>5, <2>1, <2>3, <2>4 DEF ServicesTyped
    <2>7. Loaded' BY <1>1, <2>1, <2>2, <2>3, <2>5, LoadedKeeps
    <2>8. Found' BY <1>1, <2>1, <2>4, <2>5, FoundKeeps
    <2> QED BY <1>1, <2>2, <2>3, <2>4, <2>5, <2>6, <2>7, <2>8, AddEnds
  <1> QED BY <1>4, <1>7, <1>8, <1>9, <1>10, <1>11

LEMMA RemoveStepKeeps == ASSUME ServiceInv, OS!Step, command.does = "remove", Removing PROVE ServiceInv'
  <1> USE StepParts, StepDoes
  <1>1. /\ OfAService /\ OfAService' /\ command.file \in Definitions
        /\ UNCHANGED <<platform, configuration, command, before>>
        /\ outcome.ended = "running" /\ OS!Possible(Head(todo)) /\ command'.file \in Definitions
    OBVIOUS
  <1>2. todo \in RemoveLeft /\ RemoveLeft' = RemoveLeft BY <1>1 DEF Removing, RemoveLeft
  <1>3. /\ Head(todo) = "rm" => OS!File # OS!None /\ (platform = "darwin" => OS!Known = OS!None)
        /\ Head(todo) = "daemon-reload" => OS!File = OS!None
        /\ Head(todo) \in {"rm", "daemon-reload"} =>
              OS!Runs = OS!None /\ ~enabled[command.scope][command.name]
    BY DEF Removing
  <1>4. Head(todo) \in {"disable", "bootout", "rm", "daemon-reload"} BY <1>2, RemoveLefts
  <1>5. ServicesTyped /\ Loaded /\ Found /\ platform \in {"linux", "darwin"} /\ command'.does = "remove"
    BY <1>1 DEF ServiceInv
  <1>6. OS!None \in Definitions \cup {OS!None} OBVIOUS
  <1>7. CASE Head(todo) = "disable"
    <2>1. /\ OS!Reloads /\ enabled' = OS!At(enabled, FALSE)
          /\ runs' = OS!At(runs, OS!None) /\ UNCHANGED files
      BY <1>7 DEF OS!Disable
    <2>2. /\ todo' \in RemoveLeft' /\ Head(todo') = "rm" /\ outcome'.ended = "running"
          /\ platform = "linux"
      BY <1>1, <1>2, <1>7, RemoveLefts DEF GoesTo
    <2>3. known' \in States(Definitions \cup {OS!None}) BY <1>1, <2>1, KnownReloaded
    <2>4. /\ enabled' \in States(BOOLEAN) /\ enabled'[command.scope][command.name] = FALSE
          /\ \A scope \in OS!Scopes : \A name \in OS!Names :
                ~(scope = command.scope /\ name = command.name)
                   => enabled'[scope][name] = enabled[scope][name]
      BY <1>1, <2>1, EnabledAt
    <2>5. /\ runs' \in States(Definitions \cup {OS!None}) /\ OS!Runs' = OS!None
          /\ \A scope \in OS!Scopes : \A name \in OS!Names :
                ~(scope = command.scope /\ name = command.name) => runs'[scope][name] = runs[scope][name]
      BY <1>1, <1>6, <2>1, RunsAt
    <2>6. OS!File' = OS!File /\ OS!File # OS!None
      <3>1. OS!File # OS!None BY <1>1, <1>7 DEF OS!Possible
      <3> QED BY <1>1, <2>1, <3>1 DEF OS!File
    <2>7. Removing' BY <1>1, <2>2, <2>4, <2>5, <2>6 DEF Removing
    <2>8. ServicesTyped' BY <1>1, <1>5, <2>1, <2>3, <2>4, <2>5 DEF ServicesTyped
    <2>9. Loaded' BY <1>1, <2>2 DEF Loaded
    <2>10. Found' BY <1>1, <2>1, <2>4, <2>5, FoundKeeps
    <2> QED BY <1>1, <1>5, <2>2, <2>7, <2>8, <2>9, <2>10, GoesOn
  <1>8. CASE Head(todo) = "bootout"
    <2>1. /\ known' = OS!At(known, OS!None) /\ runs' = OS!At(runs, OS!None) /\ UNCHANGED <<files, enabled>>
      BY <1>8 DEF OS!Bootout
    <2>2. /\ todo' \in RemoveLeft' /\ Head(todo') = "rm" /\ outcome'.ended = "running"
          /\ platform # "linux"
      BY <1>1, <1>2, <1>8, RemoveLefts DEF GoesTo
    <2>3. /\ known' \in States(Definitions \cup {OS!None}) /\ OS!Known' = OS!None
          /\ \A scope \in OS!Scopes : \A name \in OS!Names :
                ~(scope = command.scope /\ name = command.name) => known'[scope][name] = known[scope][name]
      BY <1>1, <1>6, <2>1, KnownAt
    <2>4. /\ runs' \in States(Definitions \cup {OS!None}) /\ OS!Runs' = OS!None
          /\ \A scope \in OS!Scopes : \A name \in OS!Names :
                ~(scope = command.scope /\ name = command.name) => runs'[scope][name] = runs[scope][name]
      BY <1>1, <1>6, <2>1, RunsAt
    <2>5. OS!Known # OS!None BY <1>1, <1>8 DEF OS!Possible
    <2>6. OS!File # OS!None /\ ~enabled[command.scope][command.name]
      BY <1>1, <1>5, <2>2, <2>5 DEF Loaded, OfAService, OS!File, OS!Known
    <2>7. OS!File' = OS!File BY <1>1, <2>1 DEF OS!File
    <2>8. Removing' BY <1>1, <2>1, <2>2, <2>3, <2>4, <2>6, <2>7 DEF Removing
    <2>9. ServicesTyped' BY <1>1, <1>5, <2>1, <2>3, <2>4 DEF ServicesTyped
    <2>10. Loaded' BY <1>1, <2>1, <2>2, <2>3, LoadedKeeps
    <2>11. Found' BY <1>1, <2>1, <2>4, <2>6, FoundKeeps
    <2> QED BY <1>1, <1>5, <2>2, <2>8, <2>9, <2>10, <2>11, GoesOn
  <1>9. CASE Head(todo) = "rm"
    <2>1. files' = OS!At(files, OS!None) /\ UNCHANGED <<known, enabled, runs>> BY <1>9 DEF OS!RemoveFile
    <2>2. /\ files' \in States(Definitions \cup {OS!None}) /\ OS!File' = OS!None
          /\ \A scope \in OS!Scopes : \A name \in OS!Names :
                ~(scope = command.scope /\ name = command.name) => files'[scope][name] = files[scope][name]
      BY <1>1, <1>6, <2>1, FilesAt
    <2>3. OS!Runs' = OS!None /\ OS!Known' = OS!Known /\ ~enabled'[command'.scope][command'.name]
      BY <1>1, <1>3, <1>9, <2>1 DEF OS!Runs, OS!Known
    <2>4. ServicesTyped' BY <1>1, <1>5, <2>1, <2>2 DEF ServicesTyped
    <2>5. Found' BY <1>1, <2>1, <2>2, <2>3, FoundKeeps
    <2>6. CASE platform = "linux"
      <3>1. /\ todo' \in RemoveLeft' /\ Head(todo') = "daemon-reload" /\ outcome'.ended = "running"
        BY <1>1, <1>2, <1>9, <2>6, RemoveLefts DEF GoesTo
      <3>2. Removing' BY <1>1, <2>2, <2>3, <3>1 DEF Removing
      <3>3. Loaded' BY <1>1, <2>6 DEF Loaded
      <3> QED BY <1>1, <1>5, <2>4, <2>5, <3>1, <3>2, <3>3, GoesOn
    <2>7. CASE platform # "linux"
      <3>1. EndsAs("removed") BY <1>2, <1>9, <2>7, RemoveLefts
      <3>2. OS!Known' = OS!None BY <1>3, <1>5, <1>9, <2>3, <2>7
      <3>3. Loaded' BY <1>1, <2>1, <2>2, <2>7, <3>2, LoadedKeeps
      <3> QED BY <1>1, <2>2, <2>3, <2>4, <2>5, <3>1, <3>2, <3>3, RemoveEnds
    <2> QED BY <2>6, <2>7
  <1>10. CASE Head(todo) = "daemon-reload"
    <2>1. OS!Reloads /\ UNCHANGED <<files, enabled, runs>> BY <1>10 DEF OS!DaemonReload
    <2>2. EndsAs("removed") /\ platform = "linux" BY <1>2, <1>10, RemoveLefts
    <2>3. known' \in States(Definitions \cup {OS!None}) /\ OS!Known' = OS!File BY <1>1, <2>1, KnownReloaded
    <2>4. OS!File' = OS!None /\ OS!Known' = OS!None BY <1>1, <1>3, <1>10, <2>1, <2>3 DEF OS!File
    <2>5. OS!Runs' = OS!None /\ ~enabled'[command'.scope][command'.name]
      BY <1>1, <1>3, <1>10, <2>1 DEF OS!Runs
    <2>6. ServicesTyped' BY <1>1, <1>5, <2>1, <2>3 DEF ServicesTyped
    <2>7. Found' BY <1>5, <2>1 DEF Found
    <2>8. Loaded' BY <1>1, <2>2 DEF Loaded
    <2> QED BY <1>1, <2>2, <2>4, <2>5, <2>6, <2>7, <2>8, RemoveEnds
  <1> QED BY <1>4, <1>7, <1>8, <1>9, <1>10

LEMMA ServiceStep == Versioned /\ ServiceInv /\ [OS!Next]_(OS!vars) => ServiceInv'
  <1> SUFFICES ASSUME Versioned, ServiceInv, [OS!Next]_(OS!vars) PROVE ServiceInv' OBVIOUS
  <1>1. CASE UNCHANGED OS!vars
    BY <1>1 DEF OS!vars, ServiceInv, ServicesTyped, Loaded, Underway, Done, Found, AddedWell,
                RemovedWell, FailedRightly,
                OfAService, Adding, Removing, AddLeft, RemoveLeft, OS!File, OS!Known, OS!Runs
  <1>2. CASE \E add, remove, run, user, root \in BOOLEAN : OS!Manage(add, remove, run, user, root)
    BY <1>2, ManageKeeps
  <1>3. CASE OS!Step
    <2>1. \/ command.does = "add" /\ Adding
          \/ command.does = "remove" /\ Removing
      BY <1>3, StepParts
    <2> QED BY <1>3, <2>1, AddStepKeeps, RemoveStepKeeps
  <1>4. CASE OS!StepFails BY <1>4, StepFailsKeeps
  <1>5. CASE OS!Interrupted \/ OS!Edited BY <1>5, BesidesKeeps
  <1>6. CASE OS!Booted BY <1>6, BootedKeeps
  <1>7. CASE \E scope \in OS!Scopes, name \in OS!Names : OS!Restarted(scope, name) BY <1>7, RestartedKeeps
  <1> QED BY <1>1, <1>2, <1>3, <1>4, <1>5, <1>6, <1>7 DEF OS!Next

(* For any configurations and any failures, interruptions and restarts of  *)
(* the system, what runs or starts with the system has its definition, and *)
(* a command that says that it added or removed a service has              *)
(* (install-service.ts, remove-service.ts).                                *)
THEOREM ServiceFound == Versioned /\ OS!Spec => []OS!ServiceIsFound
  <1>1. Versioned /\ OS!Init => ServiceInv BY ServiceInitially
  <1>2. Versioned /\ ServiceInv /\ [OS!Next]_(OS!vars) => ServiceInv' BY ServiceStep
  <1>3. ServiceInv => OS!ServiceIsFound BY FindsService
  <1> SUFFICES ASSUME Versioned PROVE OS!Spec => []OS!ServiceIsFound OBVIOUS
  <1>4. (OS!Init => ServiceInv) /\ (ServiceInv /\ [OS!Next]_(OS!vars) => ServiceInv') BY <1>1, <1>2
  <1> QED BY <1>3, <1>4, PTL DEF OS!Spec
=============================================================================
