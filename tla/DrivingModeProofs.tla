-------------------------- MODULE DrivingModeProofs --------------------------
(***************************************************************************)
(* The driving mode keeps its promises for any number of concurrent        *)
(* requests and restarts: what is acknowledged stands, an acknowledged off *)
(* keeps the agents from a new event, and memory and database agree after  *)
(* every undisturbed read or write.                                        *)
(***************************************************************************)
EXTENDS DrivingMode, TLAPS

\* The types, and where the requests of each kind are.
Inv ==
    /\ TypeOK
    /\ \A h \in Handlers :
          /\ req[h].kind = "put" => req[h].pc \in {"setMemory", "setDatabase"}
          /\ At(h, "setMemory") \/ At(h, "setDatabase") =>
                \/ req[h].kind = "put"
                \/ req[h].kind = "hook" /\ req[h].force /\ req[h].value
          /\ At(h, "cache") \/ At(h, "setDatabase") => cfg.url
          /\ At(h, "run") => req[h].kind = "hook"

\* Kept of a step of h: what the other goroutines are doing.
LEMMA ServeFrame ==
    ASSUME Inv, NEW h \in Handlers, Serve(h)
    PROVE  \A g \in Handlers \ {h} : req'[g] = req[g]
BY DEF Inv, TypeOK, Serve, ReadDatabase, CacheRead, ReadMemory, ReadFails, SetMemory,
       SetDatabase, SetDatabaseFails, Acknowledge, Decide, EndRound, Goto, Finish

\* One request after a step of its own: its types, and where it is.
Fine(h) ==
    /\ req[h] \in Requests
    /\ req[h].kind = "put" => req[h].pc \in {"setMemory", "setDatabase"}
    /\ At(h, "setMemory") \/ At(h, "setDatabase") =>
          \/ req[h].kind = "put"
          \/ req[h].kind = "hook" /\ req[h].force /\ req[h].value
    /\ At(h, "cache") \/ At(h, "setDatabase") => cfg.url
    /\ At(h, "run") => req[h].kind = "hook"

\* A step of a request leaves it at a step of its kind.
LEMMA ServeFine ==
    ASSUME Inv, NEW h \in Handlers, Serve(h)
    PROVE  Fine(h)' /\ cfg' = cfg /\ restarts' = restarts
<1>0. /\ req \in [Handlers -> Requests] /\ req[h] \in Requests /\ Fine(h)
      /\ states \in BOOLEAN /\ app_states \in BOOLEAN /\ Idle \in Requests
  BY DEF Inv, TypeOK, Fine, Idle, Requests, Steps
<1>1. /\ req[h].kind \in {"get", "put", "hook"} /\ req[h].force \in BOOLEAN
      /\ req[h].value \in BOOLEAN /\ req[h].pc \in Steps
  BY <1>0 DEF Requests
<1>2. ASSUME NEW step \in Steps, NEW v \in BOOLEAN, Goto(h, step, v)
      PROVE  /\ req'[h] \in Requests
             /\ req'[h].kind = req[h].kind /\ req'[h].force = req[h].force
             /\ req'[h].pc = step /\ req'[h].value = v
  BY <1>0, <1>2 DEF Goto, Requests
<1>3. Finish(h) => Fine(h)'
  BY <1>0 DEF Finish, Fine, At, Idle
<1>4. \A step \in {"cache", "decide", "setMemory", "setDatabase", "run"} : step \in Steps
  BY DEF Steps
<1>5. CASE ReadDatabase(h)
  BY <1>0, <1>1, <1>2, <1>4, <1>5 DEF ReadDatabase, Fine, At
<1>6. CASE CacheRead(h)
  BY <1>0, <1>1, <1>2, <1>4, <1>6 DEF CacheRead, Fine, At
<1>7. CASE ReadMemory(h)
  BY <1>0, <1>1, <1>2, <1>4, <1>7 DEF ReadMemory, Fine, At
<1>8. CASE ReadFails(h) \/ EndRound(h)
  BY <1>3, <1>8 DEF ReadFails, EndRound
<1>9. Acknowledge(h) /\ req[h].pc \in {"setMemory", "setDatabase"} => Fine(h)'
  BY <1>0, <1>1, <1>2, <1>3, <1>4 DEF Acknowledge, Fine, At
<1>10. CASE SetMemory(h)
  <2>1. CASE cfg.url
    BY <1>0, <1>1, <1>2, <1>4, <1>10, <2>1 DEF SetMemory, Fine, At
  <2>2. CASE ~cfg.url
    BY <1>9, <1>10, <2>2 DEF SetMemory, At
  <2> QED
    BY <1>10, <2>1, <2>2 DEF SetMemory
<1>11. CASE SetDatabase(h)
  BY <1>9, <1>11 DEF SetDatabase, At
<1>12. CASE SetDatabaseFails(h)
  <2>1. req[h].kind = "hook" /\ Goto(h, "run", TRUE) /\ cfg' = cfg => Fine(h)'
    BY <1>0, <1>1, <1>2, <1>4 DEF Fine, At
  <2> QED
    BY <1>3, <1>9, <1>12, <2>1 DEF SetDatabaseFails, At
<1>13. CASE Decide(h)
  <2>1. req[h].kind = "hook" \/ req[h].kind = "get"
    BY <1>0, <1>1, <1>13 DEF Decide, Fine, At
  <2> QED
    BY <1>0, <1>1, <1>2, <1>3, <1>4, <1>13, <2>1 DEF Decide, Fine, At
<1> QED
  BY <1>5, <1>6, <1>7, <1>8, <1>10, <1>11, <1>12, <1>13 DEF Serve

\* A step of a request keeps the types.
LEMMA ServeTypeOK ==
    ASSUME Inv, NEW h \in Handlers, Serve(h)
    PROVE  TypeOK'
<1>1. req' \in [Handlers -> Requests]
  <2>1. \E r : req' = [req EXCEPT ![h] = r]
    BY DEF Serve, ReadDatabase, CacheRead, ReadMemory, ReadFails, SetMemory,
           SetDatabase, SetDatabaseFails, Acknowledge, Decide, EndRound, Finish,
           Goto, Inv, TypeOK
  <2>2. req'[h] \in Requests
    BY ServeFine DEF Fine
  <2> QED
    BY <2>1, <2>2 DEF Inv, TypeOK
<1>2. /\ states \in BOOLEAN /\ app_states \in BOOLEAN /\ req[h].value \in BOOLEAN
      /\ acked \in BOOLEAN \cup {None} /\ contested \in BOOLEAN
      /\ underOff \subseteq Handlers /\ outOfStep \in BOOLEAN
      /\ unstored \in BOOLEAN /\ disturbed \subseteq Handlers
      /\ restarts \in 0..MaxRestarts /\ cfg \in Configs
  BY DEF Inv, TypeOK, Requests
<1>3. Acknowledge(h) => /\ acked' \in BOOLEAN \cup {None} /\ contested' \in BOOLEAN
                        /\ underOff' \subseteq Handlers
  BY <1>2 DEF Acknowledge
<1>4. /\ unstored' \in BOOLEAN /\ disturbed' \subseteq Handlers
      /\ outOfStep' \in BOOLEAN
  <2>1. BroughtAcross(h) => disturbed' \subseteq Handlers /\ outOfStep' \in BOOLEAN
    BY <1>2 DEF BroughtAcross
  <2>2. \A others \in SUBSET Handlers : Overlap(h, others) => disturbed' \subseteq Handlers
    BY <1>2 DEF Overlap
  <2>3. CASE ReadDatabase(h)
    BY <1>2, <2>2, <2>3 DEF ReadDatabase
  <2>4. CASE SetMemory(h)
    BY <1>2, <2>2, <2>4 DEF SetMemory
  <2>5. CASE CacheRead(h) \/ SetDatabase(h)
    BY <1>2, <2>1, <2>5 DEF CacheRead, SetDatabase
  <2>6. CASE SetDatabaseFails(h)
    BY <1>2, <2>6 DEF SetDatabaseFails
  <2>7. CASE ReadMemory(h) \/ ReadFails(h) \/ Decide(h) \/ EndRound(h)
    BY <1>2, <2>7 DEF ReadMemory, ReadFails, Decide, EndRound
  <2> QED
    BY <2>3, <2>4, <2>5, <2>6, <2>7 DEF Serve
<1>5. /\ states' \in BOOLEAN /\ app_states' \in BOOLEAN
      /\ acked' \in BOOLEAN \cup {None} /\ contested' \in BOOLEAN
      /\ underOff' \subseteq Handlers
  BY <1>2, <1>3 DEF Serve, ReadDatabase, CacheRead, ReadMemory, ReadFails, SetMemory,
                    SetDatabase, SetDatabaseFails, Decide, EndRound
<1> QED
  BY <1>1, <1>2, <1>4, <1>5, ServeFine DEF TypeOK

\* So does the beginning of one.
LEMMA BeginInv ==
    ASSUME Inv, NEW h \in Handlers, NEW r \in Requests, Begin(h, r),
           r.kind = "put" => r.pc \in {"setMemory", "setDatabase"},
           r.pc = "setMemory" => r.kind = "put",
           r.pc \notin {"cache", "setDatabase", "run"}
    PROVE  Inv'
BY DEF Inv, TypeOK, Begin, At, MaySet

\* Every step keeps types and kinds.
LEMMA InvStep == Inv /\ [Next]_vars => Inv'
<1> SUFFICES ASSUME Inv, [Next]_vars
             PROVE  Inv'
  OBVIOUS
<1>1. ASSUME NEW h \in Handlers, Get(h)
      PROVE  Inv'
  BY <1>1, BeginInv DEF Get, Requests, Steps
<1>2. ASSUME NEW h \in Handlers, NEW b \in BOOLEAN, Put(h, b) \/ Created(h, b)
      PROVE  Inv'
  BY <1>2, BeginInv DEF Put, Created, Requests, Steps
<1>3. ASSUME NEW h \in Handlers, Serve(h)
      PROVE  Inv'
  <2>1. \A g \in Handlers \ {h} : Fine(g)'
    BY <1>3, ServeFrame, ServeFine DEF Inv, TypeOK, Fine, At
  <2> QED
    BY <1>3, <2>1, ServeFine, ServeTypeOK DEF Inv, Fine
<1>4. CASE Restart
  <2>1. /\ Idle \in Requests /\ restarts' \in 0..MaxRestarts
    BY <1>4, ConfigAssumption DEF Restart, Idle, Requests, Steps, Inv, TypeOK
  <2>2. app_states' \in BOOLEAN
    BY <1>4 DEF Restart, Inv, TypeOK, Requests
  <2>3. TypeOK'
    BY <1>4, <2>1, <2>2 DEF Restart, Inv, TypeOK
  <2> QED
    BY <1>4, <2>3 DEF Restart, Inv, At, Idle
<1>5. CASE UNCHANGED vars
  BY <1>5 DEF vars, Inv, TypeOK, At
<1> QED
  BY <1>1, <1>2, <1>3, <1>4, <1>5 DEF Next

\* The first state has them.
LEMMA InvInit == Init => Inv
<1> SUFFICES ASSUME Init
             PROVE  Inv
  OBVIOUS
<1>1. Idle \in Requests /\ Idle.kind = "get" /\ Idle.pc = "idle"
  BY DEF Idle, Requests, Steps
<1>2. 0 \in 0..MaxRestarts
  BY ConfigAssumption
<1>3. TypeOK
  BY <1>1, <1>2 DEF Init, TypeOK
<1>4. \A h \in Handlers : req[h].kind = "get" /\ req[h].pc = "idle"
  BY <1>1 DEF Init
<1> QED
  BY <1>3, <1>4 DEF Inv, At

\* They hold in every state.
LEMMA Invariant == Spec => []Inv
BY InvInit, InvStep, PTL DEF Spec

\* Every variable of the driving mode keeps its shape.
THEOREM Typing == Spec => []TypeOK
<1>1. Inv => TypeOK
  BY DEF Inv
<1> QED
  BY <1>1, Invariant, PTL

-----------------------------------------------------------------------------
(* What is acknowledged stands.                                            *)

\* Nobody who may set the other value is served while nothing contests what
\* was acknowledged, and a request that began under an acknowledged off was
\* told so wherever it has read.
StandInv ==
    /\ AcknowledgedStands
    /\ cfg.postgres => ~unstored
    /\ acked # None /\ ~contested => \A h \in Handlers : ~MaySet(req[h], ~acked)
    /\ cfg.postgres => \A h \in underOff : /\ acked = FALSE /\ ~contested
                                           /\ ~req[h].value /\ ~At(h, "run")

\* A step that only moves a goroutine on, setting nothing.
LEMMA StandStep ==
    ASSUME Inv, Inv', StandInv, NEW h \in Handlers,
           \A g \in Handlers \ {h} : req'[g] = req[g],
           UNCHANGED <<cfg, states, app_states, acked, contested, underOff, unstored>>,
           \A v \in BOOLEAN : MaySet(req'[h], v) => MaySet(req[h], v),
           cfg.postgres /\ h \in underOff => ~req'[h].value /\ ~At(h, "run")'
    PROVE  StandInv'
<1>1. acked' # None /\ ~contested' => \A g \in Handlers : ~MaySet(req'[g], ~acked')
  BY DEF StandInv, Inv, TypeOK
<1>2. AcknowledgedStands'
  BY DEF StandInv, AcknowledgedStands, Switch
<1>3. cfg'.postgres => \A g \in underOff' : /\ acked' = FALSE /\ ~contested'
                                            /\ ~req'[g].value /\ ~At(g, "run")'
  BY DEF StandInv, Inv, TypeOK, At
<1> QED
  BY <1>1, <1>2, <1>3 DEF StandInv

\* A value that is set is the acknowledged one, when nothing contests that.
LEMMA SettersAgree ==
    ASSUME Inv, StandInv, NEW h \in Handlers, At(h, "setMemory") \/ At(h, "setDatabase"),
           acked # None, ~contested
    PROVE  req[h].value = acked
<1>1. req[h].value \in BOOLEAN /\ acked \in BOOLEAN
  BY DEF Inv, TypeOK, Requests
<1>2. MaySet(req[h], req[h].value)
  BY DEF Inv, MaySet, At
<1> QED
  BY <1>1, <1>2 DEF StandInv

\* The acknowledgement of a value that has just been written.
LEMMA AcknowledgeStands ==
    ASSUME Inv, Inv', StandInv, NEW h \in Handlers, Acknowledge(h),
           At(h, "setMemory") \/ At(h, "setDatabase"),
           \A g \in Handlers \ {h} : req'[g] = req[g],
           cfg' = cfg, ~unstored' => Switch' = req[h].value,
           cfg.postgres => ~unstored'
    PROVE  StandInv'
<1>0. cfg'.postgres => ~unstored'
  OBVIOUS
<1>1. /\ acked' = req[h].value /\ req[h].value \in BOOLEAN
      /\ contested' = \E g \in Handlers \ {h} : MaySet(req[g], ~req[h].value)
      /\ underOff' = underOff \ {h}
  BY DEF Acknowledge, Inv, TypeOK, Requests
<1>2. ~MaySet(req'[h], ~req[h].value)
  <2>1. CASE req[h].kind = "hook"
    <3>1. req'[h].pc = "run" /\ req'[h].kind = "hook" /\ req[h].value
      BY <2>1 DEF Acknowledge, Goto, Inv, TypeOK, At, Requests
    <3> QED
      BY <3>1 DEF MaySet
  <2>2. CASE req[h].kind # "hook"
    BY <2>2 DEF Acknowledge, Finish, MaySet, Idle, Inv, TypeOK
  <2> QED
    BY <2>1, <2>2
<1>3. AcknowledgedStands'
  BY <1>1 DEF AcknowledgedStands
<1>4. \A g \in Handlers : ~contested' => ~MaySet(req'[g], ~acked')
  BY <1>1, <1>2
<1>5. ASSUME cfg.postgres, NEW g \in underOff'
      PROVE  /\ acked' = FALSE /\ ~contested' /\ ~req'[g].value /\ ~At(g, "run")'
  <2>1. g \in underOff /\ g # h /\ g \in Handlers
    BY <1>1, <1>5 DEF Inv, TypeOK
  <2>2. acked = FALSE /\ ~contested /\ ~req[g].value /\ ~At(g, "run")
    BY <1>5, <2>1 DEF StandInv
  <2>3. acked # None
    BY <2>2, ConfigAssumption
  <2>4. req[h].value = FALSE
    BY <2>2, <2>3, SettersAgree
  <2>5. \A k \in Handlers : ~MaySet(req[k], TRUE)
    BY <2>2, <2>3 DEF StandInv
  <2> QED
    BY <1>1, <2>1, <2>2, <2>4, <2>5 DEF At
<1> QED
  BY <1>0, <1>3, <1>4, <1>5 DEF StandInv

\* A request that begins threatens no acknowledged value by itself.
LEMMA BeginStands ==
    ASSUME Inv, Inv', StandInv, NEW h \in Handlers, NEW r, Begin(h, r),
           ~r.value \/ MaySet(r, TRUE), r.pc # "run"
    PROVE  StandInv'
<1>1. req'[h] = r /\ \A g \in Handlers \ {h} : req'[g] = req[g]
  BY DEF Begin, Inv, TypeOK
<1>2. UNCHANGED <<cfg, states, app_states, acked, unstored>>
  BY DEF Begin
<1>3. contested' = (contested \/ (acked # None /\ MaySet(r, ~acked)))
  BY DEF Begin
<1>4. AcknowledgedStands'
  BY <1>2, <1>3 DEF StandInv, AcknowledgedStands, Switch
<1>5. acked' # None /\ ~contested' => \A g \in Handlers : ~MaySet(req'[g], ~acked')
  BY <1>1, <1>2, <1>3 DEF StandInv
<1>6. ASSUME cfg.postgres, NEW g \in underOff'
      PROVE  /\ acked' = FALSE /\ ~contested' /\ ~req'[g].value /\ ~At(g, "run")'
  <2>1. CASE g = h
    <3>1. acked = FALSE /\ ~contested /\ ~(acked # None /\ MaySet(r, ~acked))
      BY <1>6, <2>1 DEF Begin
    <3>2. ~MaySet(r, TRUE)
      BY <3>1, ConfigAssumption
    <3> QED
      BY <1>1, <1>2, <1>3, <2>1, <3>1, <3>2 DEF At
  <2>2. CASE g # h
    <3>1. g \in underOff /\ g \in Handlers /\ ~(acked # None /\ MaySet(r, ~acked))
      BY <1>6, <2>2 DEF Begin, Inv, TypeOK
    <3> QED
      BY <1>1, <1>2, <1>3, <1>6, <2>2, <3>1 DEF StandInv, At
  <2> QED
    BY <2>1, <2>2
<1> QED
  BY <1>2, <1>4, <1>5, <1>6 DEF StandInv

\* A step of a request keeps what was acknowledged.
LEMMA ServeStands ==
    ASSUME Inv, Inv', StandInv, NEW h \in Handlers, Serve(h)
    PROVE  StandInv'
<1>0. /\ \A g \in Handlers \ {h} : req'[g] = req[g]
      /\ req \in [Handlers -> Requests] /\ cfg' = cfg /\ restarts' = restarts
  BY ServeFrame, ServeFine DEF Inv, TypeOK
<1>1. ASSUME Finish(h)
      PROVE  /\ \A v \in BOOLEAN : ~MaySet(req'[h], v)
             /\ ~req'[h].value /\ ~At(h, "run")'
  BY <1>0, <1>1 DEF Finish, MaySet, Idle, At
<1>2. ASSUME NEW step, NEW v, Goto(h, step, v), req[h].kind # "put", req[h].pc # "idle"
      PROVE  /\ \A w \in BOOLEAN : MaySet(req'[h], w) => MaySet(req[h], w)
             /\ req'[h].value = v /\ req'[h].pc = step
  BY <1>0, <1>2 DEF Goto, MaySet, Requests
<1>3. CASE ReadDatabase(h)
  <2>1. req[h].kind # "put" /\ req[h].pc = "read" /\ Goto(h, "cache", app_states)
    BY <1>3 DEF ReadDatabase, At, Inv
  <2>2. cfg.postgres /\ h \in underOff => ~app_states
    <3>3. cfg.postgres => ~unstored
      BY DEF StandInv
    <3>1. cfg.postgres /\ h \in underOff => acked = FALSE /\ ~contested
      BY DEF StandInv
    <3>2. cfg.postgres => cfg.url
      BY ConfigAssumption DEF Inv, TypeOK
    <3> QED
      BY <3>1, <3>2, <3>3, ConfigAssumption DEF StandInv, AcknowledgedStands, Switch
  <2> QED
    BY <1>0, <1>2, <1>3, <2>1, <2>2, StandStep DEF ReadDatabase, At
<1>4. CASE CacheRead(h)
  <2>1. req[h].kind # "put" /\ req[h].pc = "cache" /\ Goto(h, "decide", req[h].value) /\ cfg.url
    BY <1>4 DEF CacheRead, At, Inv
  <2>2. req'[h].value = req[h].value /\ req'[h].pc = "decide"
    BY <1>2, <2>1
  <2>3. UNCHANGED <<cfg, app_states, acked, contested, underOff, unstored>>
    BY <1>4 DEF CacheRead, Inv
  <2>4. AcknowledgedStands'
    BY <2>1, <2>3 DEF StandInv, AcknowledgedStands, Switch
  <2>5. acked' # None /\ ~contested' => \A g \in Handlers : ~MaySet(req'[g], ~acked')
    BY <1>0, <1>2, <2>1, <2>3 DEF StandInv, Inv, TypeOK
  <2>6. cfg.postgres => \A g \in underOff' : /\ acked' = FALSE /\ ~contested'
                                             /\ ~req'[g].value /\ ~At(g, "run")'
    BY <1>0, <2>2, <2>3 DEF StandInv, Inv, TypeOK, At
  <2> QED
    BY <1>0, <2>3, <2>4, <2>5, <2>6 DEF StandInv
<1>5. CASE ReadMemory(h)
  <2>1. req[h].kind # "put" /\ req[h].pc = "read" /\ Goto(h, "decide", states) /\ ~cfg.postgres
    BY <1>5 DEF ReadMemory, At, Inv
  <2> QED
    BY <1>0, <1>2, <1>5, <2>1, StandStep DEF ReadMemory
<1>6. CASE ReadFails(h) \/ EndRound(h)
  BY <1>0, <1>1, <1>6, StandStep DEF ReadFails, EndRound
<1>7. CASE SetMemory(h)
  <2>1. CASE cfg.url
    <3>1. /\ Goto(h, "setDatabase", req[h].value) /\ req[h].pc = "setMemory"
          /\ UNCHANGED <<cfg, app_states, acked, contested, underOff, unstored>>
      BY <1>7, <2>1 DEF SetMemory, At
    <3>2. /\ req'[h].value = req[h].value /\ req'[h].pc = "setDatabase"
          /\ \A v : MaySet(req'[h], v) => MaySet(req[h], v)
      BY <1>0, <3>1 DEF Goto, MaySet, Requests
    <3>3. AcknowledgedStands'
      BY <2>1, <3>1 DEF StandInv, AcknowledgedStands, Switch
    <3>4. acked' # None /\ ~contested' => \A g \in Handlers : ~MaySet(req'[g], ~acked')
      BY <1>0, <3>1, <3>2 DEF StandInv
    <3>5. cfg.postgres => \A g \in underOff' : /\ acked' = FALSE /\ ~contested'
                                               /\ ~req'[g].value /\ ~At(g, "run")'
      BY <1>0, <3>1, <3>2 DEF StandInv, Inv, TypeOK, At
    <3> QED
      BY <1>0, <3>1, <3>3, <3>4, <3>5 DEF StandInv
  <2>2. CASE ~cfg.url
    <3>1. Acknowledge(h) /\ Switch' = req[h].value /\ At(h, "setMemory")
          /\ unstored' = unstored
      BY <1>0, <1>7, <2>2 DEF SetMemory, Switch
    <3>2. cfg.postgres => ~unstored'
      BY <3>1 DEF StandInv
    <3> QED
      BY <1>0, <3>1, <3>2, AcknowledgeStands
  <2> QED
    BY <2>1, <2>2
<1>8. CASE SetDatabase(h)
  <2>1. cfg.url /\ At(h, "setDatabase")
    BY <1>8 DEF SetDatabase, Inv
  <2>2. Switch' = req[h].value /\ ~unstored'
    BY <1>0, <1>8, <2>1 DEF SetDatabase, Switch
  <2>3. Acknowledge(h)
    BY <1>8 DEF SetDatabase
  <2> QED
    BY <1>0, <2>1, <2>2, <2>3, AcknowledgeStands
<1>9. CASE SetDatabaseFails(h)
  <2>1. cfg.url /\ At(h, "setDatabase")
    BY <1>9 DEF SetDatabaseFails, Inv
  <2>2. CASE ~cfg.postgres
    <3>1. Acknowledge(h) /\ unstored' = (app_states' # req[h].value)
      BY <1>9, <2>2 DEF SetDatabaseFails
    <3>2. ~unstored' => Switch' = req[h].value
      BY <1>0, <2>1, <3>1 DEF Switch
    <3> QED
      BY <1>0, <2>1, <2>2, <3>1, <3>2, AcknowledgeStands
  <2>3. CASE cfg.postgres
    <3>1. UNCHANGED <<states, acked, contested, underOff, unstored>> /\ app_states' \in {app_states, req[h].value}
      BY <1>9, <2>3 DEF SetDatabaseFails
    <3>2. /\ \A v \in BOOLEAN : MaySet(req'[h], v) => MaySet(req[h], v)
          /\ At(h, "run")' => req[h].kind = "hook" /\ req[h].value
          /\ req'[h].value => At(h, "run")'
      <4>1. CASE req[h].kind = "hook"
        <5>1. Goto(h, "run", TRUE) /\ req[h].kind = "hook"
          BY <1>9, <2>3, <4>1 DEF SetDatabaseFails
        <5>2. req[h].value /\ req[h].pc # "idle"
          BY <2>1, <4>1 DEF Inv, At
        <5> QED
          BY <1>2, <5>1, <5>2 DEF At
      <4>2. CASE req[h].kind # "hook"
        BY <1>1, <1>9, <2>3, <4>2 DEF SetDatabaseFails
      <4> QED
        BY <4>1, <4>2
    <3>3. AcknowledgedStands'
      BY <1>0, <2>1, <3>1, SettersAgree DEF StandInv, AcknowledgedStands, Switch
    <3>4. acked' # None /\ ~contested' => \A g \in Handlers : ~MaySet(req'[g], ~acked')
      BY <1>0, <3>1, <3>2 DEF StandInv, Inv, TypeOK
    <3>5. h \in underOff => ~req[h].value
      BY <2>3 DEF StandInv
    <3>6. cfg.postgres => \A g \in underOff' : /\ acked' = FALSE /\ ~contested'
                                               /\ ~req'[g].value /\ ~At(g, "run")'
      BY <1>0, <3>1, <3>2, <3>5 DEF StandInv, Inv, TypeOK, At
    <3> QED
      BY <1>0, <3>1, <3>3, <3>4, <3>6 DEF StandInv
  <2> QED
    BY <2>2, <2>3
<1>10. CASE Decide(h)
  <2>0. req[h].pc = "decide" /\ req[h].kind # "put"
    BY <1>10 DEF Decide, At, Inv
  <2>1. CASE Finish(h)
    BY <1>0, <1>1, <1>10, <2>1, StandStep DEF Decide
  <2>2. CASE req[h].value /\ Goto(h, "run", TRUE)
    <3>1. cfg.postgres => h \notin underOff
      BY <2>2 DEF StandInv
    <3> QED
      BY <1>0, <1>2, <1>10, <2>0, <2>2, <3>1, StandStep DEF Decide
  <2>3. CASE req[h].kind = "hook" /\ req[h].force /\ Goto(h, "setMemory", TRUE)
    <3>1. MaySet(req[h], TRUE)
      BY <2>0, <2>3 DEF MaySet
    <3>2. cfg.postgres => h \notin underOff
      BY <3>1, ConfigAssumption DEF StandInv
    <3> QED
      BY <1>0, <1>2, <1>10, <2>0, <2>3, <3>2, StandStep DEF Decide
  <2> QED
    BY <1>0, <1>10, <2>0, <2>1, <2>2, <2>3 DEF Decide, Requests
<1> QED
  BY <1>3, <1>4, <1>5, <1>6, <1>7, <1>8, <1>9, <1>10 DEF Serve

\* It holds in every state.
LEMMA StandInvariant == Spec => []StandInv
<1>1. Init => StandInv
  BY DEF Init, StandInv, AcknowledgedStands
<1>2. Inv /\ Inv' /\ StandInv /\ [Next]_vars => StandInv'
  <2> SUFFICES ASSUME Inv, Inv', StandInv, [Next]_vars
               PROVE  StandInv'
    OBVIOUS
  <2>1. ASSUME NEW h \in Handlers, Get(h)
        PROVE  StandInv'
    BY <2>1, BeginStands DEF Get
  <2>2. ASSUME NEW h \in Handlers, NEW b \in BOOLEAN, Put(h, b) \/ Created(h, b)
        PROVE  StandInv'
    BY <2>2, BeginStands DEF Put, Created, MaySet
  <2>3. CASE Restart
    <3>1. /\ UNCHANGED <<cfg, contested, unstored>> /\ underOff' = {}
          /\ acked' = IF cfg.url THEN acked ELSE None
          /\ \A h \in Handlers : req'[h] = Idle
      BY <2>3 DEF Restart
    <3>2. acked # None /\ ~contested => app_states' \in {app_states, acked}
      BY <2>3, SettersAgree DEF Restart
    <3>3. AcknowledgedStands'
      BY <3>1, <3>2 DEF StandInv, AcknowledgedStands, Switch
    <3> QED
      BY <3>1, <3>3 DEF StandInv, MaySet, Idle
  <2>4. CASE UNCHANGED vars
    BY <2>4 DEF vars, StandInv, AcknowledgedStands, Switch, At
  <2> QED
    BY <2>1, <2>2, <2>3, <2>4, ServeStands DEF Next
<1> QED
  BY <1>1, <1>2, Invariant, PTL DEF Spec

\* An acknowledged value stands until somebody asks for the other one, in all
\* configurations and for any number of requests, writes that a memory store
\* hid to have failed excepted.
THEOREM WhatIsSetStands == Spec => []AcknowledgedStands
<1>1. StandInv => AcknowledgedStands
  BY DEF StandInv
<1> QED
  BY <1>1, StandInvariant, PTL

\* No request that began while an acknowledged off stood runs the agents.
THEOREM OffIsOff == Spec => []OffMeansNoRound
<1>1. StandInv => OffMeansNoRound
  BY DEF StandInv, OffMeansNoRound
<1> QED
  BY <1>1, StandInvariant, PTL

-----------------------------------------------------------------------------
(* The two copies.                                                         *)

\* Two requests that are halfway at a time, one of them a setter, know of each
\* other.  An undisturbed reader brings to memory what the database has, an
\* undisturbed setter to the database what memory has; and the copies differ
\* only while somebody is about to store a value, or out of step.
CopiesInv ==
    cfg.url =>
        /\ \A h \in Handlers :
              /\ At(h, "cache") /\ h \notin disturbed => req[h].value = app_states
              /\ At(h, "setDatabase") =>
                    /\ h \notin disturbed => states = req[h].value
                    /\ \A g \in Handlers \ {h} : Halfway(g) => {g, h} \subseteq disturbed
        /\ ~outOfStep /\ (\A h \in Handlers : ~At(h, "setDatabase")) => states = app_states

\* A step of a request keeps the two copies in step.
LEMMA ServeCopies ==
    ASSUME Inv, CopiesInv, NEW h \in Handlers, Serve(h)
    PROVE  CopiesInv'
<1>0. /\ \A g \in Handlers \ {h} : req'[g] = req[g]
      /\ req \in [Handlers -> Requests] /\ cfg' = cfg
  BY ServeFrame, ServeFine DEF Inv, TypeOK
<1> SUFFICES ASSUME cfg.url
             PROVE  CopiesInv'
  BY <1>0 DEF CopiesInv
<1>1. ASSUME ~Halfway(h), ~Halfway(h)', UNCHANGED <<states, app_states, disturbed, outOfStep>>
      PROVE  CopiesInv'
  BY <1>0, <1>1 DEF CopiesInv, Halfway, At
<1>2. Finish(h) => req'[h].pc = "idle"
  BY <1>0 DEF Finish, Idle
<1>3. ASSUME NEW step, NEW v, Goto(h, step, v)
      PROVE  req'[h].pc = step /\ req'[h].value = v
  BY <1>0, <1>3 DEF Goto, Requests
<1>4. CASE ReadDatabase(h)
  <2>1. /\ req[h].pc = "read" /\ req'[h].pc = "cache" /\ req'[h].value = app_states
        /\ UNCHANGED <<states, app_states, outOfStep>>
    BY <1>3, <1>4 DEF ReadDatabase, At
  <2>2. /\ disturbed \subseteq disturbed'
        /\ \A g \in Handlers : At(g, "setDatabase") => {g, h} \subseteq disturbed'
    BY <1>4 DEF ReadDatabase, Overlap
  <2>3. ASSUME NEW k \in Handlers, At(k, "setDatabase")', NEW g \in Handlers \ {k}, Halfway(g)'
        PROVE  {g, k} \subseteq disturbed'
    BY <1>0, <2>1, <2>2, <2>3 DEF CopiesInv, Halfway, At
  <2> QED
    BY <1>0, <2>1, <2>2, <2>3 DEF CopiesInv, At
<1>5. CASE CacheRead(h)
  <2>1. /\ req'[h].pc = "decide" /\ states' = req[h].value /\ req[h].pc = "cache"
        /\ app_states' = app_states
        /\ disturbed' = disturbed \ {h} /\ outOfStep' = (h \in disturbed)
    BY <1>3, <1>5 DEF CacheRead, BroughtAcross, At
  <2>2. \A k \in Handlers : At(k, "setDatabase") => {k, h} \subseteq disturbed
    BY <2>1 DEF CopiesInv, Halfway, At
  <2> QED
    BY <1>0, <2>1, <2>2 DEF CopiesInv, Halfway, At
<1>6. CASE ReadMemory(h) \/ ReadFails(h) \/ EndRound(h)
  <2>1. ~Halfway(h)'
    BY <1>2, <1>3, <1>6 DEF ReadMemory, ReadFails, EndRound, Halfway, At
  <2> QED
    BY <1>1, <1>6, <2>1 DEF ReadMemory, ReadFails, EndRound, Halfway, At
<1>7. CASE SetMemory(h)
  <2>1. /\ req[h].pc = "setMemory" /\ req'[h].pc = "setDatabase"
        /\ req'[h].value = req[h].value /\ states' = req[h].value
        /\ app_states' = app_states
    BY <1>3, <1>7 DEF SetMemory, At
  <2>2. /\ disturbed \subseteq disturbed'
        /\ \A g \in Handlers : Halfway(g) => {g, h} \subseteq disturbed'
    BY <1>7 DEF SetMemory, Overlap
  <2>3. ASSUME NEW k \in Handlers, At(k, "setDatabase")', NEW g \in Handlers \ {k}, Halfway(g)'
        PROVE  {g, k} \subseteq disturbed'
    BY <1>0, <2>1, <2>2, <2>3 DEF CopiesInv, Halfway, At
  <2> QED
    BY <1>0, <2>1, <2>2, <2>3 DEF CopiesInv, Halfway, At
<1>8. CASE SetDatabase(h) \/ SetDatabaseFails(h)
  <2>1. /\ req'[h].pc \in {"run", "idle"} /\ req[h].pc = "setDatabase"
        /\ states' = states /\ disturbed' = disturbed \ {h}
    <3>1. Goto(h, "run", TRUE) \/ Finish(h)
      BY <1>8 DEF SetDatabase, SetDatabaseFails, Acknowledge
    <3>2. req'[h].pc \in {"run", "idle"}
      BY <1>2, <1>3, <3>1
    <3> QED
      BY <1>8, <3>2 DEF SetDatabase, SetDatabaseFails, BroughtAcross, At
  <2>2. ~outOfStep' => app_states' = req[h].value /\ h \notin disturbed
    <3>1. CASE SetDatabase(h)
      BY <3>1 DEF SetDatabase, BroughtAcross
    <3>2. CASE SetDatabaseFails(h)
      BY <3>2 DEF SetDatabaseFails
    <3> QED
      BY <1>8, <3>1, <3>2
  <2>3. \A k \in Handlers \ {h} : Halfway(k) => k \in disturbed
    BY <2>1 DEF CopiesInv, At
  <2> QED
    BY <1>0, <2>1, <2>2, <2>3 DEF CopiesInv, Halfway, At
<1>9. CASE Decide(h)
  <2>1. ~Halfway(h)'
    <3>1. Goto(h, "run", TRUE) \/ Goto(h, "setMemory", TRUE) \/ Finish(h)
      BY <1>9 DEF Decide
    <3>2. req'[h].pc \in {"run", "setMemory", "idle"}
      BY <1>2, <1>3, <3>1
    <3> QED
      BY <3>2 DEF Halfway, At
  <2> QED
    BY <1>1, <1>9, <2>1 DEF Decide, Halfway, At
<1> QED
  BY <1>4, <1>5, <1>6, <1>7, <1>8, <1>9 DEF Serve

\* Memory has what the database has whenever no request is about to store a
\* value, after every read or write of both that no other disturbs.
THEOREM CopiesStayEqual == Spec => []CopiesAgree
<1>1. Init => CopiesInv
  <2> SUFFICES ASSUME Init
               PROVE  CopiesInv
    OBVIOUS
  <2>1. \A h \in Handlers : req[h].pc = "idle"
    BY DEF Init, Idle
  <2> QED
    BY <2>1 DEF Init, CopiesInv, At
<1>2. Inv /\ CopiesInv /\ [Next]_vars => CopiesInv'
  <2> SUFFICES ASSUME Inv, CopiesInv, [Next]_vars
               PROVE  CopiesInv'
    OBVIOUS
  <2>1. ASSUME NEW h \in Handlers, NEW r, Begin(h, r), r.pc \in {"read", "setMemory"}
        PROVE  CopiesInv'
    BY <2>1 DEF Begin, CopiesInv, Inv, TypeOK, Halfway, At
  <2>2. ASSUME NEW h \in Handlers, NEW b \in BOOLEAN, Get(h) \/ Put(h, b) \/ Created(h, b)
        PROVE  CopiesInv'
    BY <2>1, <2>2 DEF Get, Put, Created
  <2>3. CASE Restart
    <3>1. \A h \in Handlers : req'[h].pc = "idle"
      BY <2>3 DEF Restart, Idle
    <3> QED
      BY <2>3, <3>1 DEF Restart, CopiesInv, At
  <2>4. CASE UNCHANGED vars
    BY <2>4 DEF vars, CopiesInv, Halfway, At
  <2> QED
    BY <2>2, <2>3, <2>4, ServeCopies DEF Next
<1>3. CopiesInv => CopiesAgree
  BY DEF CopiesInv, CopiesAgree, At
<1> QED
  BY <1>1, <1>2, <1>3, Invariant, PTL DEF Spec
=============================================================================
