----------------------------- MODULE SandboxProofs -----------------------------
(***************************************************************************)
(* The sandbox for any number of requests, containers and faults, and any  *)
(* output.                                                                 *)
(***************************************************************************)
EXTENDS Sandbox, Reports, Sequences, TLAPS

-----------------------------------------------------------------------------
(* The life of a container.                                                *)

\* A request is here only with a container of its own that the row names.
Bound == {"mark", "bind", "start", "watch", "reload", "exit", "consult", "finish", "interrupt"}
\* A request that has still to remove its container.
Holding == Bound \cup {"register", "insert", "kill", "remove"}

\* The row names the container of everyone who registered, and nothing else started.
RowNamesContainer ==
  /\ \A r \in Requests : req[r].at \in Holding => Its(r) \in Containers
  /\ \A r \in Requests : req[r].at \in Bound => req[r].registered
  /\ \A r \in Requests : req[r].at \in {"none", "list", "create"} => ~req[r].registered
  /\ \A r \in Requests : req[r].registered => row.status # "NONE" /\ row.container = Its(r)
  /\ started \subseteq {row.container}
  /\ row.status = "NONE" => started = {}
  /\ row.status \in ActiveStatus => row.container \in Containers
  /\ manager \in {"kill", "remove", "interrupt"} => row.status # "NONE"

\* Whoever made or found a container is there to remove it.
ContainersAreHeld ==
  faults = 0 => \A c \in Containers : docker[c] \in Present =>
    \E r \in Requests : Its(r) = c /\ req[r].at \in Holding

OutcomeIsFinished ==
  /\ outcome # "none" <=> row.status = "FINISHED"
  /\ \A r \in Requests : req[r].at \in {"consult", "finish"} => req[r].reason # "none"

SandboxInv == TypeOK /\ RowNamesContainer /\ ContainersAreHeld /\ OutcomeIsFinished

-----------------------------------------------------------------------------
(* How a step changes what a request knows.                                *)

Moves(r, p, c, registered, reason) ==
  /\ req' \in [Requests -> Request]
  /\ \A q \in Requests \ {r} : req'[q] = req[q]
  /\ req'[r].at = p /\ req'[r].container = c
  /\ req'[r].registered = registered /\ req'[r].reason = reason

\* A request goes on, all else it knows unchanged.
Continues(r, p) == Moves(r, p, Its(r), req[r].registered, req[r].reason)
Raises(r) == Continues(r, IF req[r].registered THEN "interrupt" ELSE "kill")

LEMMA GoContinues ==
  ASSUME req \in [Requests -> Request], NEW r \in Requests, NEW p \in Positions, Go(r, p)
  PROVE  Continues(r, p)
BY DEF Go, Continues, Moves, Request, Its

LEMMA RaiseContinues ==
  ASSUME req \in [Requests -> Request], NEW r \in Requests, Raise(r)
  PROVE  Raises(r)
BY GoContinues DEF Raise, Raises, Positions

LEMMA RequestUpdate ==
  ASSUME req \in [Requests -> Request], NEW r \in Requests, NEW x \in Request, req' = [req EXCEPT ![r] = x]
  PROVE  Moves(r, x.at, x.container, x.registered, x.reason)
BY DEF Moves

LEMMA RegisterMoves ==
  ASSUME req \in [Requests -> Request], NEW r \in Requests, NEW c \in Containers,
         req' = [req EXCEPT ![r].at = "register", ![r].container = c]
  PROVE  Moves(r, "register", c, req[r].registered, req[r].reason)
<1> DEFINE y == [req[r] EXCEPT !.at = "register", !.container = c]
<1>1. /\ y \in Request /\ y.at = "register" /\ y.container = c
      /\ y.registered = req[r].registered /\ y.reason = req[r].reason
  BY Zenon DEF Request, ContainerIds, Positions
<1>2. req' = [req EXCEPT ![r] = y]
  OBVIOUS
<1> HIDE DEF y
<1> QED BY <1>1, <1>2, RequestUpdate DEF Moves

LEMMA MarkMoves ==
  ASSUME req \in [Requests -> Request], NEW r \in Requests,
         req' = [req EXCEPT ![r].at = "mark", ![r].registered = TRUE]
  PROVE  Moves(r, "mark", Its(r), TRUE, req[r].reason)
<1> DEFINE y == [req[r] EXCEPT !.at = "mark", !.registered = TRUE]
<1>1. /\ y \in Request /\ y.at = "mark" /\ y.container = Its(r)
      /\ y.registered = TRUE /\ y.reason = req[r].reason
  BY Zenon DEF Request, Positions, Its
<1>2. req' = [req EXCEPT ![r] = y]
  OBVIOUS
<1> HIDE DEF y
<1> QED BY <1>1, <1>2, RequestUpdate, Zenon DEF Moves

LEMMA ReasonMoves ==
  ASSUME req \in [Requests -> Request], NEW r \in Requests, NEW p \in {"consult", "finish"},
         NEW x \in Outcomes, req' = [req EXCEPT ![r].at = p, ![r].reason = x]
  PROVE  Moves(r, p, Its(r), req[r].registered, x)
<1> DEFINE y == [req[r] EXCEPT !.at = p, !.reason = x]
<1>1. /\ y \in Request /\ y.at = p /\ y.container = Its(r)
      /\ y.registered = req[r].registered /\ y.reason = x
  BY Zenon DEF Request, Positions, Its
<1>2. req' = [req EXCEPT ![r] = y]
  BY Zenon
<1> HIDE DEF y
<1> QED BY <1>1, <1>2, RequestUpdate, Zenon DEF Moves

LEMMA RequestMoves ==
  ASSUME req \in [Requests -> Request], NEW r \in Requests
  PROVE  /\ begin(r) => Continues(r, "list")
         /\ list(r) => \/ Continues(r, "failed") \/ Continues(r, "create")
                     \/ \E c \in Containers : Moves(r, "register", c, req[r].registered, req[r].reason)
         /\ create(r) => \E c \in Containers : Moves(r, "register", c, req[r].registered, req[r].reason)
         /\ register(r) => \/ Continues(r, "insert") \/ Raises(r)
                         \/ Moves(r, "mark", Its(r), TRUE, req[r].reason)
         /\ insert(r) => Raises(r) \/ Moves(r, "mark", Its(r), TRUE, req[r].reason)
         /\ mark_running(r) => Continues(r, "bind") \/ Raises(r)
         /\ bind(r) => Continues(r, "start") \/ Raises(r)
         /\ start(r) => Continues(r, "watch") \/ Raises(r)
         /\ deadline(r) => Continues(r, req[r].at)
         /\ watch(r) => Continues(r, "reload")
         /\ reload(r) => Continues(r, "watch") \/ Continues(r, "exit") \/ Raises(r)
         /\ exit_reason(r) => \/ Raises(r)
                            \/ \E x \in Outcomes \ {"none"} : Moves(r, "consult", Its(r), req[r].registered, x)
         /\ consult(r) => \E x \in {"CANCELLED", req[r].reason} : Moves(r, "finish", Its(r), req[r].registered, x)
         /\ finish(r) => Continues(r, "remove") \/ Raises(r)
         /\ interrupt(r) => Continues(r, "kill")
         /\ kill(r) => Continues(r, "remove")
         /\ release(r) => Continues(r, "forget")
         /\ forget(r) => Continues(r, "done") \/ Continues(r, "failed")
         /\ call_fails(r) => Continues(r, "failed") \/ Continues(r, "remove") \/ (req[r].at \in Holding /\ Raises(r))
<1> USE DEF At
<1>1. begin(r) => Continues(r, "list")
  BY GoContinues DEF begin, Positions, Over
<1>2. ASSUME list(r)
      PROVE  \/ Continues(r, "failed") \/ Continues(r, "create")
             \/ \E c \in Containers : Moves(r, "register", c, req[r].registered, req[r].reason)
  <2>1. ASSUME NEW c \in Containers, req' = [req EXCEPT ![r].at = "register", ![r].container = c]
        PROVE  Moves(r, "register", c, req[r].registered, req[r].reason)
    BY <2>1, RegisterMoves, Zenon
  <2> QED BY <1>2, <2>1, GoContinues DEF list, Positions, Over
<1>3. ASSUME create(r)
      PROVE  \E c \in Containers : Moves(r, "register", c, req[r].registered, req[r].reason)
  BY <1>3, RegisterMoves, Zenon DEF create
<1>4. register(r) => \/ Continues(r, "insert") \/ Raises(r)
                      \/ Moves(r, "mark", Its(r), TRUE, req[r].reason)
  BY GoContinues, RaiseContinues DEF register, Positions, Over, Moves, Continues, Its, Request,
    ContainerIds, Outcomes
<1>5. insert(r) => Raises(r) \/ Moves(r, "mark", Its(r), TRUE, req[r].reason)
  BY GoContinues, RaiseContinues DEF insert, Positions, Over, Moves, Continues, Its, Request,
    ContainerIds, Outcomes
<1>6. mark_running(r) => Continues(r, "bind") \/ Raises(r)
  BY GoContinues, RaiseContinues DEF mark_running, Positions, Over
<1>7. bind(r) => Continues(r, "start") \/ Raises(r)
  BY GoContinues, RaiseContinues DEF bind, Positions, Over, Moves, Continues, Its, Request,
    ContainerIds, Outcomes
<1>8. start(r) => Continues(r, "watch") \/ Raises(r)
  BY GoContinues, RaiseContinues DEF start, Positions, Over
<1>9. ASSUME deadline(r) PROVE Continues(r, req[r].at)
  <2> DEFINE y == [req[r] EXCEPT !.late = TRUE]
  <2>1. /\ y \in Request /\ y.container = Its(r) /\ y.registered = req[r].registered
        /\ y.at = req[r].at /\ y.reason = req[r].reason
    BY DEF Request, Its
  <2>2. req' = [req EXCEPT ![r] = y]
    BY <1>9 DEF deadline
  <2> HIDE DEF y
  <2> QED BY <2>1, <2>2, RequestUpdate, Zenon DEF Continues
<1>10. ASSUME watch(r) PROVE Continues(r, "reload")
  <2>1. PICK z \in {"no", "cancellation", "limit"} :
               req' = [req EXCEPT ![r].at = "reload", ![r].triggered = z]
    BY <1>10 DEF watch, Request
  <2> DEFINE y == [req[r] EXCEPT !.at = "reload", !.triggered = z]
  <2>2. /\ y \in Request /\ y.container = Its(r) /\ y.registered = req[r].registered
        /\ y.at = "reload" /\ y.reason = req[r].reason
    BY Zenon DEF Request, Its, Positions
  <2>3. req' = [req EXCEPT ![r] = y]
    BY <2>1
  <2> HIDE DEF y
  <2> QED BY <2>2, <2>3, RequestUpdate, Zenon DEF Continues
<1>11. reload(r) => Continues(r, "watch") \/ Continues(r, "exit") \/ Raises(r)
  BY GoContinues, RaiseContinues DEF reload, Positions, Over
<1>12. ASSUME exit_reason(r)
      PROVE  \/ Raises(r)
             \/ \E x \in Outcomes \ {"none"} : Moves(r, "consult", Its(r), req[r].registered, x)
  BY <1>12, RaiseContinues, ReasonMoves, Zenon DEF exit_reason, Outcomes
<1>13. ASSUME consult(r)
      PROVE  \E x \in {"CANCELLED", req[r].reason} : Moves(r, "finish", Its(r), req[r].registered, x)
  <2>1. req[r].reason \in Outcomes /\ "CANCELLED" \in Outcomes
    BY DEF Request, Outcomes
  <2> QED BY <1>13, <2>1, ReasonMoves, Zenon DEF consult
<1>14. finish(r) => Continues(r, "remove") \/ Raises(r)
  BY GoContinues, RaiseContinues DEF finish, Positions, Over, Moves, Continues, Its, Request,
    ContainerIds, Outcomes
<1>15. interrupt(r) => Continues(r, "kill")
  BY GoContinues DEF interrupt, Positions, Over
<1>16. kill(r) => Continues(r, "remove")
  BY GoContinues DEF kill, Positions, Over
<1>17. release(r) => Continues(r, "forget")
  BY GoContinues DEF release, Positions, Over
<1>18. forget(r) => Continues(r, "done") \/ Continues(r, "failed")
  BY GoContinues DEF forget, Positions, Over
<1>19. call_fails(r) => Continues(r, "failed") \/ Continues(r, "remove") \/ (req[r].at \in Holding /\ Raises(r))
  BY GoContinues, RaiseContinues DEF call_fails, Positions, Over, Holding, Bound
<1> QED BY <1>1, <1>2, <1>3, <1>4, <1>5, <1>6, <1>7, <1>8, <1>9, <1>10, <1>11, <1>12, <1>13, <1>14,
  <1>15, <1>16, <1>17, <1>18, <1>19

LEMMA SandboxInit == Init => SandboxInv
<1> SUFFICES ASSUME Init PROVE SandboxInv
  OBVIOUS
<1>1. req \in [Requests -> Request] /\ \A r \in Requests : req[r] = Unsent
  BY DEF Init, Unsent, Request, ContainerIds, Outcomes, Positions, Over, Present
<1>2. row \in SandboxContainerRow /\ canceller \in Cancellation
  BY DEF Init, SandboxContainerRow, Cancellation, ContainerIds
<1>3. TypeOK
  <2>1. killed \in [Containers -> BOOLEAN] /\ docker \in [Containers -> Present \cup {"none", "removed"}]
    BY DEF Init
  <2>2. outcome \in Outcomes /\ active \in ContainerIds /\ cancelled \in BOOLEAN /\ started \subseteq Containers
    BY Zenon DEF Init, Outcomes, ContainerIds
  <2>3. manager \in {"up", "down", "kill", "remove", "interrupt"} /\ faults \in 0..MaxFaults
    BY SandboxAssumption DEF Init
  <2> QED BY <1>1, <1>2, <2>1, <2>2, <2>3 DEF TypeOK
<1>4. RowNamesContainer /\ ContainersAreHeld /\ OutcomeIsFinished
  BY <1>1 DEF Init, RowNamesContainer, ContainersAreHeld, OutcomeIsFinished, Unsent, Its, Bound,
    Holding,
    ActiveStatus, Present
<1> QED BY <1>2, <1>3, <1>4 DEF SandboxInv

RowGoes(status) ==
  row' \in SandboxContainerRow /\ row'.status = status /\ row'.container = row.container

LEMMA RowUpdate ==
  ASSUME row \in SandboxContainerRow,
         NEW status \in {"RUNNING", "CANCEL_REQUESTED", "FINISHED", "INTERRUPTED"}
  PROVE  /\ row' = [row EXCEPT !.status = status] => RowGoes(status)
         /\ row' = [row EXCEPT !.status = status, !.cancel = TRUE] => RowGoes(status)
         /\ row' = [row EXCEPT !.status = @] => row' = row
BY DEF SandboxContainerRow, ActiveStatus, RowGoes

LEMMA Interrupts ==
  ASSUME row \in SandboxContainerRow, interrupted
  PROVE  RowGoes(IF row.status = "FINISHED" THEN "FINISHED" ELSE "INTERRUPTED")
BY RowUpdate DEF interrupted

LEMMA RequestTypes ==
  ASSUME req \in [Requests -> Request], NEW r \in Requests
  PROVE  Its(r) \in ContainerIds /\ req[r].reason \in Outcomes /\ req[r].registered \in BOOLEAN
BY DEF Request, Its

LEMMA ContainerTypes ==
  ASSUME TypeOK, NEW c
  PROVE  /\ kill_container(c) =>
              /\ docker' \in [Containers -> Present \cup {"none", "removed"}]
              /\ killed' \in [Containers -> BOOLEAN]
         /\ remove_container(c) => docker' \in [Containers -> Present \cup {"none", "removed"}]
<1>1. kill_container(c) => killed' \in [Containers -> BOOLEAN]
  BY Zenon DEF TypeOK, kill_container
<1>2. kill_container(c) \/ remove_container(c) => docker' \in [Containers -> Present \cup {"none", "removed"}]
  BY DEF TypeOK, kill_container, remove_container, Present
<1> QED BY <1>1, <1>2

LEMMA SandboxStep == SandboxInv /\ [Next]_vars => SandboxInv'
<1> SUFFICES ASSUME SandboxInv, [Next]_vars PROVE SandboxInv'
  OBVIOUS
<1> USE DEF SandboxInv, At, Its, tables, engine, memory
<1>1. ASSUME NEW r \in Requests, begin(r) PROVE SandboxInv'
  <2>1. Continues(r, "list")
    BY <1>1, RequestMoves, Zenon DEF TypeOK
  <2> QED BY <1>1, <2>1 DEF TypeOK, Present, ContainerIds, Outcomes, begin, Continues, Raises,
    Moves, RowNamesContainer, Bound, Holding, ActiveStatus, ContainersAreHeld, OutcomeIsFinished
<1>2. ASSUME NEW r \in Requests, list(r) PROVE SandboxInv'
  <2>1. \/ Continues(r, "failed") \/ Continues(r, "create")
        \/ \E c \in Containers : Moves(r, "register", c, req[r].registered, req[r].reason)
    BY <1>2, RequestMoves, Zenon DEF TypeOK
  <2> QED BY <1>2, <2>1 DEF TypeOK, Present, ContainerIds, Outcomes, list, Continues, Raises, Moves,
    RowNamesContainer, Bound, Holding, ActiveStatus, ContainersAreHeld, OutcomeIsFinished
<1>3. ASSUME NEW r \in Requests, create(r) PROVE SandboxInv'
  <2>1. \E c \in Containers : docker[c] = "none" /\ docker' = [docker EXCEPT ![c] = "created"]
                           /\ active' = c /\ Moves(r, "register", c, req[r].registered, req[r].reason)
    <3> DEFINE unused == {d \in Containers : docker[d] = "none"}
               c == CHOOSE d \in unused : TRUE
    <3>1. c \in unused
      BY <1>3 DEF create
    <3>2. /\ docker' = [docker EXCEPT ![c] = "created"] /\ active' = c
          /\ req' = [req EXCEPT ![r].at = "register", ![r].container = c]
      BY <1>3 DEF create
    <3> HIDE DEF c
    <3> QED BY <3>1, <3>2, RegisterMoves, Zenon DEF TypeOK
  <2> QED BY <1>3, <2>1 DEF TypeOK, Present, ContainerIds, Outcomes, create, Continues, Raises,
    Moves, RowNamesContainer, Bound, Holding, ActiveStatus, ContainersAreHeld, OutcomeIsFinished
<1>4. ASSUME NEW r \in Requests, register(r) PROVE SandboxInv'
  <2>1. \/ Continues(r, "insert") \/ Raises(r)
        \/ row.status # "NONE" /\ row.container = Its(r) /\ Moves(r, "mark", Its(r), TRUE, req[r].reason)
    <3>1. CASE row.status # "NONE" /\ row.container = Its(r)
      BY <1>4, <3>1, MarkMoves DEF TypeOK, register
    <3>2. CASE row.status = "NONE" \/ row.container # Its(r)
      BY <1>4, <3>2, GoContinues, RaiseContinues, Zenon DEF TypeOK, register, Positions
    <3> QED BY <3>1, <3>2, Zenon
  <2> QED BY <1>4, <2>1 DEF TypeOK, Present, ContainerIds, Outcomes, register, Continues, Raises,
    Moves, RowNamesContainer, Bound, Holding, ActiveStatus, ContainersAreHeld, OutcomeIsFinished
<1>5. ASSUME NEW r \in Requests, insert(r) PROVE SandboxInv'
  <2>1. \/ Raises(r) /\ row' = row
        \/ /\ row.status = "NONE" /\ row' = [status |-> "CREATED", container |-> Its(r), cancel |-> FALSE]
           /\ Moves(r, "mark", Its(r), TRUE, req[r].reason)
    <3>1. CASE row.status = "NONE"
      BY <1>5, <3>1, MarkMoves, Zenon DEF TypeOK, insert
    <3>2. CASE row.status # "NONE"
      BY <1>5, <3>2, RaiseContinues DEF TypeOK, insert
    <3> QED BY <3>1, <3>2
  <2>2. TypeOK'
    <3>1. row' \in SandboxContainerRow
      <4>1. [status |-> "CREATED", container |-> Its(r), cancel |-> FALSE] \in SandboxContainerRow
        BY RequestTypes DEF TypeOK, SandboxContainerRow, ActiveStatus
      <4> QED BY <2>1, <4>1, Zenon DEF TypeOK
    <3> QED BY <1>5, <2>1, <3>1 DEF TypeOK, insert, Continues, Raises, Moves
  <2>3. RowNamesContainer'
    BY <1>5, <2>1 DEF TypeOK, RowNamesContainer, Bound, Holding, ActiveStatus, insert, Continues,
      Raises, Moves
  <2>4. ContainersAreHeld'
    BY <1>5, <2>1 DEF TypeOK, ContainersAreHeld, Bound, Holding, Present, insert, Continues, Raises,
      Moves
  <2>5. OutcomeIsFinished'
    BY <1>5, <2>1 DEF TypeOK, OutcomeIsFinished, ActiveStatus, insert, Continues, Raises, Moves
  <2> QED BY <2>2, <2>3, <2>4, <2>5
<1>6. ASSUME NEW r \in Requests, mark_running(r) PROVE SandboxInv'
  <2>1. Continues(r, "bind") \/ Raises(r)
    BY <1>6, RequestMoves, Zenon DEF TypeOK
  <2>2. \/ row' = row
        \/ row.status = "CREATED" /\ RowGoes("RUNNING")
    BY <1>6, RowUpdate DEF TypeOK, mark_running, ActiveStatus
  <2> QED BY <1>6, <2>1, <2>2 DEF TypeOK, Present, ContainerIds, Outcomes, mark_running, Continues,
    Raises, Moves, RowGoes, RowNamesContainer, Bound, Holding, ActiveStatus, ContainersAreHeld,
    OutcomeIsFinished
<1>7. ASSUME NEW r \in Requests, bind(r) PROVE SandboxInv'
  <2>1. Continues(r, "start") \/ Raises(r)
    BY <1>7, RequestMoves, Zenon DEF TypeOK
  <2> QED BY <1>7, <2>1, RequestTypes DEF TypeOK, bind, Continues, Raises, Moves, RowNamesContainer,
    Bound, Holding, ActiveStatus, ContainersAreHeld, Present, OutcomeIsFinished
<1>8. ASSUME NEW r \in Requests, start(r) PROVE SandboxInv'
  <2>1. Continues(r, "watch") \/ Raises(r)
    BY <1>8, RequestMoves DEF TypeOK
  <2>2. TypeOK'
    <3>1. Its(r) \in Containers
      BY <1>8 DEF RowNamesContainer, start, Holding, Bound
    <3>2. killed' \in [Containers -> BOOLEAN]
      BY <1>8, Zenon DEF TypeOK, start
    <3> QED BY <1>8, <2>1, <3>1, <3>2 DEF TypeOK, Present, start, Continues, Raises, Moves
  <2>3. RowNamesContainer'
    BY <1>8, <2>1 DEF TypeOK, RowNamesContainer, Bound, Holding, ActiveStatus, start, Continues,
      Raises, Moves
  <2>4. ContainersAreHeld'
    BY <1>8, <2>1 DEF TypeOK, ContainersAreHeld, Bound, Holding, Present, start, Continues, Raises,
      Moves
  <2>5. OutcomeIsFinished'
    BY <1>8, <2>1 DEF TypeOK, OutcomeIsFinished, ActiveStatus, start, Continues, Raises, Moves
  <2> QED BY <2>2, <2>3, <2>4, <2>5
<1>9. ASSUME NEW r \in Requests, deadline(r) PROVE SandboxInv'
  <2>1. Continues(r, req[r].at)
    BY <1>9, RequestMoves, Zenon DEF TypeOK
  <2> QED BY <1>9, <2>1 DEF TypeOK, Present, ContainerIds, Outcomes, deadline, Continues, Raises,
    Moves, RowNamesContainer, Bound, Holding, ActiveStatus, ContainersAreHeld, OutcomeIsFinished
<1>10. ASSUME NEW r \in Requests, watch(r) PROVE SandboxInv'
  <2>1. Continues(r, "reload")
    BY <1>10, RequestMoves, Zenon DEF TypeOK
  <2>2. TypeOK'
    <3>1. kill_container(Its(r)) \/ UNCHANGED engine
      BY <1>10 DEF watch
    <3> QED BY <1>10, <2>1, <3>1, ContainerTypes DEF TypeOK, kill_container, watch, Continues, Moves
  <2>3. RowNamesContainer'
    BY <1>10, <2>1 DEF TypeOK, RowNamesContainer, Bound, Holding, ActiveStatus, watch,
      kill_container, Continues, Raises, Moves
  <2>4. ContainersAreHeld'
    BY <1>10, <2>1 DEF TypeOK, ContainersAreHeld, Bound, Holding, Present, watch, kill_container,
      Continues, Raises, Moves
  <2>5. OutcomeIsFinished'
    BY <1>10, <2>1 DEF TypeOK, OutcomeIsFinished, ActiveStatus, watch, kill_container, Continues,
      Raises, Moves
  <2> QED BY <2>2, <2>3, <2>4, <2>5
<1>11. ASSUME NEW r \in Requests, reload(r) PROVE SandboxInv'
  <2>1. Continues(r, "watch") \/ Continues(r, "exit") \/ Raises(r)
    BY <1>11, RequestMoves, Zenon DEF TypeOK
  <2> QED BY <1>11, <2>1 DEF TypeOK, Present, ContainerIds, Outcomes, reload, Continues, Raises,
    Moves, RowNamesContainer, Bound, Holding, ActiveStatus, ContainersAreHeld, OutcomeIsFinished
<1>12. ASSUME NEW r \in Requests, exit_reason(r) PROVE SandboxInv'
  <2>1. \/ Raises(r)
        \/ \E x \in Outcomes \ {"none"} : Moves(r, "consult", Its(r), req[r].registered, x)
    BY <1>12, RequestMoves DEF TypeOK
  <2> QED BY <1>12, <2>1 DEF TypeOK, Present, ContainerIds, Outcomes, exit_reason, Continues,
    Raises, Moves, RowNamesContainer, Bound, Holding, ActiveStatus, ContainersAreHeld,
    OutcomeIsFinished
<1>13. ASSUME NEW r \in Requests, consult(r) PROVE SandboxInv'
  <2>1. \E x \in {"CANCELLED", req[r].reason} : Moves(r, "finish", Its(r), req[r].registered, x)
    BY <1>13, RequestMoves, Zenon DEF TypeOK
  <2> QED BY <1>13, <2>1 DEF TypeOK, Present, ContainerIds, Outcomes, consult, Continues, Raises,
    Moves, RowNamesContainer, Bound, Holding, ActiveStatus, ContainersAreHeld, OutcomeIsFinished
<1>14. ASSUME NEW r \in Requests, finish(r) PROVE SandboxInv'
  <2>1. Continues(r, "remove") \/ Raises(r)
    BY <1>14, RequestMoves DEF TypeOK
  <2>2. \/ UNCHANGED tables /\ outcome # "none"
        \/ outcome' = req[r].reason /\ RowGoes("FINISHED")
    BY <1>14, RowUpdate DEF TypeOK, finish, ActiveStatus
  <2>3. TypeOK'
    BY <1>14, <2>1, <2>2, RequestTypes DEF TypeOK, Outcomes, finish, Continues, Raises, Moves,
      RowGoes
  <2>4. RowNamesContainer'
    BY <1>14, <2>1, <2>2 DEF TypeOK, RowNamesContainer, Bound, Holding, ActiveStatus, finish,
      Continues, Raises, Moves, RowGoes
  <2>5. ContainersAreHeld'
    BY <1>14, <2>1, <2>2 DEF TypeOK, ContainersAreHeld, Bound, Holding, Present, finish, Continues,
      Raises, Moves, RowGoes
  <2>6. OutcomeIsFinished'
    <3>1. req[r].reason # "none"
      BY <1>14 DEF OutcomeIsFinished, finish
    <3> QED BY <1>14, <2>1, <2>2, <3>1 DEF OutcomeIsFinished, finish, Continues, Raises, Moves,
      RowGoes
  <2> QED BY <2>3, <2>4, <2>5, <2>6
<1>15. ASSUME NEW r \in Requests, interrupt(r) PROVE SandboxInv'
  <2>1. Continues(r, "kill")
    BY <1>15, RequestMoves, Zenon DEF TypeOK
  <2>2. RowGoes(IF row.status = "FINISHED" THEN "FINISHED" ELSE "INTERRUPTED")
    BY <1>15, Interrupts DEF TypeOK, interrupt
  <2> QED BY <1>15, <2>1, <2>2 DEF TypeOK, Present, ContainerIds, Outcomes, interrupt, interrupted,
    Continues, Raises, Moves, RowGoes, RowNamesContainer, Bound, Holding, ActiveStatus,
    ContainersAreHeld, OutcomeIsFinished
<1>16. ASSUME NEW r \in Requests, kill(r) PROVE SandboxInv'
  <2>1. Continues(r, "remove")
    BY <1>16, RequestMoves, Zenon DEF TypeOK
  <2> QED BY <1>16, <2>1 DEF TypeOK, Present, ContainerIds, Outcomes, kill, kill_container,
    Continues, Raises, Moves, RowNamesContainer, Bound, Holding, ActiveStatus, ContainersAreHeld,
    OutcomeIsFinished
<1>17. ASSUME NEW r \in Requests, release(r) PROVE SandboxInv'
  <2>1. Continues(r, "forget")
    BY <1>17, RequestMoves, Zenon DEF TypeOK
  <2> QED BY <1>17, <2>1 DEF TypeOK, Present, ContainerIds, Outcomes, release, remove_container,
    Continues, Raises, Moves, RowNamesContainer, Bound, Holding, ActiveStatus, ContainersAreHeld,
    OutcomeIsFinished
<1>18. ASSUME NEW r \in Requests, forget(r) PROVE SandboxInv'
  <2>1. Continues(r, "done") \/ Continues(r, "failed")
    BY <1>18, RequestMoves, Zenon DEF TypeOK
  <2>2. TypeOK'
    BY <1>18, <2>1, Zenon DEF TypeOK, Present, ContainerIds, Outcomes, forget, Continues, Raises,
      Moves
  <2>3. RowNamesContainer'
    BY <1>18, <2>1 DEF TypeOK, RowNamesContainer, Bound, Holding, ActiveStatus, forget, Continues,
      Raises, Moves
  <2>4. ContainersAreHeld'
    BY <1>18, <2>1 DEF TypeOK, ContainersAreHeld, Bound, Holding, Present, forget, Continues,
      Raises, Moves
  <2>5. OutcomeIsFinished'
    BY <1>18, <2>1 DEF TypeOK, OutcomeIsFinished, ActiveStatus, forget, Continues, Raises, Moves
  <2> QED BY <2>2, <2>3, <2>4, <2>5
<1>19. ASSUME NEW r \in Requests, call_fails(r) PROVE SandboxInv'
  <2>1. \/ Continues(r, "failed")
        \/ req[r].at \in Holding /\ Raises(r)
        \/ req[r].at \in {"interrupt", "kill"} /\ Continues(r, "remove")
    <3>1. CASE Raise(r) /\ req[r].at \in Holding
      BY <3>1, RaiseContinues DEF TypeOK
    <3>2. CASE Go(r, "failed")
      <4>1. "failed" \in Positions
        BY DEF Positions, Over
      <4>2. req \in [Requests -> Request]
        BY DEF TypeOK
      <4>3. Continues(r, "failed")
        BY <3>2, <4>1, <4>2, GoContinues
      <4> QED BY <4>3
    <3>3. CASE Go(r, "remove") /\ req[r].at \in {"interrupt", "kill"}
      BY <3>3, GoContinues DEF TypeOK, Positions
    <3> QED BY <1>19, <3>1, <3>2, <3>3 DEF call_fails, Holding, Bound
  <2> QED BY <1>19, <2>1, SandboxAssumption DEF TypeOK, call_fails, Fault, Continues, Raises, Moves,
    RowNamesContainer, Bound, Holding, ActiveStatus, ContainersAreHeld, Present, OutcomeIsFinished
<1>20. ASSUME request_cancellation PROVE SandboxInv'
  <2>1. \/ row' = row
        \/ row.status \in ActiveStatus /\ RowGoes("CANCEL_REQUESTED")
    BY <1>20, RowUpdate DEF TypeOK, request_cancellation, ActiveStatus
  <2>2. TypeOK'
    <3>1. canceller' \in Cancellation
      BY <1>20 DEF TypeOK, request_cancellation, Cancellation, SandboxContainerRow
    <3> QED BY <1>20, <2>1, <3>1 DEF TypeOK, request_cancellation, RowGoes
  <2>3. RowNamesContainer'
    BY <1>20, <2>1 DEF TypeOK, RowNamesContainer, Bound, Holding, ActiveStatus,
      request_cancellation, RowGoes
  <2>4. ContainersAreHeld'
    BY <1>20, <2>1 DEF TypeOK, ContainersAreHeld, Bound, Holding, Present, request_cancellation,
      RowGoes
  <2>5. OutcomeIsFinished'
    BY <1>20, <2>1 DEF TypeOK, OutcomeIsFinished, ActiveStatus, request_cancellation, RowGoes
  <2> QED BY <2>2, <2>3, <2>4, <2>5
<1>21. ASSUME cancel PROVE SandboxInv'
  <2>1. TypeOK'
    <3>1. canceller' \in Cancellation
      BY <1>21 DEF TypeOK, cancel, Cancellation
    <3> QED BY <1>21, <3>1 DEF TypeOK, cancel
  <2>2. RowNamesContainer'
    BY <1>21 DEF TypeOK, RowNamesContainer, Bound, Holding, ActiveStatus, cancel
  <2>3. ContainersAreHeld'
    BY <1>21 DEF TypeOK, ContainersAreHeld, Bound, Holding, Present, cancel
  <2>4. OutcomeIsFinished'
    BY <1>21 DEF TypeOK, OutcomeIsFinished, ActiveStatus, cancel
  <2> QED BY <2>1, <2>2, <2>3, <2>4
<1>22. ASSUME cancel_kills PROVE SandboxInv'
  <2>1. TypeOK'
    <3>1. canceller' \in Cancellation
      BY <1>22 DEF TypeOK, cancel_kills, Cancellation
    <3> QED BY <1>22, <3>1, ContainerTypes DEF TypeOK, cancel_kills, kill_container
  <2>2. RowNamesContainer'
    BY <1>22 DEF TypeOK, RowNamesContainer, Bound, Holding, ActiveStatus, cancel_kills,
      kill_container
  <2>3. ContainersAreHeld'
    BY <1>22 DEF TypeOK, ContainersAreHeld, Bound, Holding, Present, cancel_kills, kill_container
  <2>4. OutcomeIsFinished'
    BY <1>22 DEF TypeOK, OutcomeIsFinished, ActiveStatus, cancel_kills, kill_container
  <2> QED BY <2>1, <2>2, <2>3, <2>4
<1>23. ASSUME NEW c \in Containers, exits(c) PROVE SandboxInv'
  BY <1>23 DEF TypeOK, Present, ContainerIds, Outcomes, exits, RowNamesContainer, Bound, Holding,
    ActiveStatus, ContainersAreHeld, OutcomeIsFinished
<1>24. ASSUME crash PROVE SandboxInv'
  <2>1. /\ req' \in [Requests -> Request]
        /\ \A r \in Requests : req'[r].at \in {req[r].at, "lost"} /\ req'[r].at \in Over
        /\ \A r \in Requests : req'[r].container = Its(r) /\ req'[r].registered = req[r].registered
    <3>1. \A r \in Requests :
            \E p \in Over : p \in {req[r].at, "lost"} /\ req'[r] = [req[r] EXCEPT !.at = p]
      BY <1>24 DEF crash, Over
    <3>2. ASSUME NEW r \in Requests
          PROVE  /\ req'[r] \in Request /\ req'[r].at \in {req[r].at, "lost"} /\ req'[r].at \in Over
                 /\ req'[r].container = Its(r) /\ req'[r].registered = req[r].registered
      <4>1. PICK p \in Over : p \in {req[r].at, "lost"} /\ req'[r] = [req[r] EXCEPT !.at = p]
        BY <3>1
      <4>2. req[r] \in Request
        BY DEF TypeOK
      <4> QED BY <4>1, <4>2 DEF Request, Positions
    <3>3. req' = [r \in Requests |-> req'[r]]
      BY <1>24 DEF crash
    <3> QED BY <3>2, <3>3
  <2>2. canceller' \in Cancellation
    BY <1>24 DEF TypeOK, crash, Cancellation
  <2>3. TypeOK'
    <3>1. faults' \in 0..MaxFaults
      BY <1>24, SandboxAssumption DEF TypeOK, crash, Fault
    <3> QED BY <1>24, <2>1, <2>2, <3>1, Zenon DEF TypeOK, crash, ContainerIds
  <2>4. RowNamesContainer'
    <3>1. row' = row /\ started' = started /\ manager' = "down"
      BY <1>24 DEF crash
    <3>2. ASSUME NEW r \in Requests
          PROVE  req'[r].at \notin Bound /\ req'[r].at \notin Holding /\ req'[r].at \notin {"list", "create"}
      BY <2>1 DEF Over, Bound, Holding
    <3> QED BY <2>1, <3>1, <3>2 DEF RowNamesContainer, Over
  <2>5. ContainersAreHeld' /\ OutcomeIsFinished'
    BY <1>24, <2>1 DEF TypeOK, ContainersAreHeld, OutcomeIsFinished, Over, crash, Fault
  <2> QED BY <2>3, <2>4, <2>5
<1>25. ASSUME restart PROVE SandboxInv'
  BY <1>25 DEF TypeOK, Present, ContainerIds, Outcomes, restart, RowNamesContainer, Bound, Holding,
    ActiveStatus, ContainersAreHeld, OutcomeIsFinished
<1>26. ASSUME reap PROVE SandboxInv'
  <2>1. \/ row' = row
        \/ row.status # "FINISHED" /\ manager = "interrupt" /\ RowGoes("INTERRUPTED")
    BY <1>26, RowUpdate DEF TypeOK, reap, ActiveStatus, kill_container, remove_container,
      interrupted
  <2>2. TypeOK'
    BY <1>26, <2>1, Zenon DEF TypeOK, Present, ContainerIds, Outcomes, reap, kill_container,
      remove_container, interrupted, RowGoes
  <2>3. RowNamesContainer'
    BY <1>26, <2>1 DEF TypeOK, RowNamesContainer, Bound, Holding, ActiveStatus, reap,
      kill_container, remove_container, interrupted, RowGoes
  <2>4. ContainersAreHeld'
    BY <1>26, <2>1 DEF TypeOK, ContainersAreHeld, Bound, Holding, Present, reap, kill_container,
      remove_container, interrupted, RowGoes
  <2>5. OutcomeIsFinished'
    BY <1>26, <2>1 DEF TypeOK, OutcomeIsFinished, ActiveStatus, reap, kill_container,
      remove_container, interrupted, RowGoes
  <2> QED BY <2>2, <2>3, <2>4, <2>5
<1>27. ASSUME UNCHANGED vars PROVE SandboxInv'
  BY <1>27 DEF TypeOK, RowNamesContainer, ContainersAreHeld, OutcomeIsFinished, vars
<1> QED BY <1>1, <1>2, <1>3, <1>4, <1>5, <1>6, <1>7, <1>8, <1>9, <1>10, <1>11, <1>12, <1>13, <1>14,
  <1>15, <1>16, <1>17, <1>18, <1>19, <1>20, <1>21, <1>22, <1>23, <1>24, <1>25, <1>26, <1>27 DEF Next,
  Handle

\* Only the container that SandboxContainerRow names ever starts, and without faults
\* the requests leave no container behind.
THEOREM NoContainerStrays == Spec => []NoStrayContainer
<1>1. SandboxInv => NoStrayContainer
  BY DEF SandboxInv, TypeOK, RowNamesContainer, ContainersAreHeld, NoStrayContainer, Bound, Holding,
     Present, Over
<1> QED BY SandboxInit, SandboxStep, <1>1, PTL DEF Spec

\* PostgresSandboxRunStore.finish has the last word on an execution.
THEOREM OutcomesAreFinal == Spec => OutcomeIsFinal
<1>1. SandboxInv /\ SandboxInv' /\ [Next]_vars =>
        [/\ outcome # "none" => outcome' = outcome /\ row'.status = "FINISHED"
         /\ row'.status = "FINISHED" => outcome' # "none"]_vars
  <2> SUFFICES ASSUME SandboxInv, SandboxInv', Next, outcome # "none" PROVE outcome' = outcome
    BY DEF SandboxInv, OutcomeIsFinished
  <2>1. ASSUME NEW r \in Requests, finish(r) PROVE outcome' = outcome
    BY <2>1 DEF finish, tables
  <2>2. ASSUME NEW r \in Requests, begin(r) \/ deadline(r) \/ call_fails(r) \/ (Handle(r) /\ ~finish(r))
        PROVE  outcome' = outcome
    BY <2>2 DEF Handle, begin, deadline, call_fails, list, create, register, insert, mark_running,
      bind, start,
      watch, reload, exit_reason, consult, interrupt, kill, release, forget, tables
  <2>3. ASSUME \/ request_cancellation \/ cancel \/ cancel_kills \/ (\E c \in Containers : exits(c))
               \/ crash \/ restart \/ reap
        PROVE  outcome' = outcome
    BY <2>3 DEF request_cancellation, cancel, cancel_kills, exits, crash, restart, reap, tables
  <2> QED BY <2>1, <2>2, <2>3 DEF Next
<1> QED BY SandboxInit, SandboxStep, <1>1, PTL DEF Spec, OutcomeIsFinal

-----------------------------------------------------------------------------
(* What the runner makes of the output.                                    *)

Exceeds(bytes) == (\E s \in O!Streams : bytes[s] > O!Limit[s]) \/ O!Total(bytes) > MaxTotal
AllKept(bytes, kept) == \A s \in O!Streams : kept[s] = O!Least(bytes[s], O!Limit[s])

\* What was counted and the frames in the pipe follow each other without a gap up to
\* what was written.
Contiguous ==
  /\ pipe = <<>> => O!Total(collector.bytes) = written.bytes
  /\ pipe # <<>> => /\ O!Total(collector.bytes) + pipe[1].bytes = pipe[1].upto
                    /\ pipe[Len(pipe)].upto = written.bytes
  /\ \A i \in 1..Len(pipe) - 1 : pipe[i].upto + pipe[i + 1].bytes = pipe[i + 1].upto

StreamInv ==
  /\ pipe \in Seq(O!Frame) /\ written.bytes \in Nat /\ collector \in O!_OutputCollector
  /\ Contiguous /\ AllKept(collector.bytes, collector.kept)
  /\ collector.limit_reached <=> Exceeds(collector.bytes)
  /\ collector.complete /\ ~collector.failed => pipe = <<>> /\ ~container.running

Stops == {"CANCELLED", "OUTPUT_LIMIT", "CPU_LIMIT", "TIMEOUT"}

\* What the runner knows when it is done with a container.
ReportInv ==
  /\ runner \in O!Runner /\ result \in O!SandboxExecution
  /\ runner.killed => runner.triggered # "no"
  /\ runner.at \in {"result", "done"} /\ runner.triggered # "no" => result.reason \in Stops
  /\ O!Done => /\ AllKept(result.counted, result.kept)
               /\ \A s \in O!Streams : result.truncated[s] <=> result.counted[s] > result.kept[s]

\* A collector that is done when the waits are over reads no more.
DrainInv ==
  /\ runner.at \in {"check", "reason", "result", "done"} => collector.complete
  /\ runner.at \in {"reason", "result", "done"} /\ collector.limit_reached => runner.triggered # "no"
  /\ runner.at \in {"result", "done"} /\ runner.triggered = "no" => result.reason \notin Stops
  /\ O!Done => result.counted = collector.bytes /\ (result.complete => ~collector.failed)

LEMMA LimitsAreNumbers ==
  ASSUME Sizes
  PROVE  /\ \A s \in O!Streams : O!Limit[s] \in Nat
         /\ O!Streams = {"stdout", "stderr"}
BY DEF Sizes, O!Limit, O!Streams

\* _append: one frame is counted, and as much of it kept as fits.
LEMMA AppendCounts ==
  ASSUME Sizes, NEW c \in O!_OutputCollector, NEW frame \in O!Frame,
         AllKept(c.bytes, c.kept), c.limit_reached <=> Exceeds(c.bytes)
  PROVE  LET d == O!_append(c, frame)
         IN  /\ d \in O!_OutputCollector /\ d.complete = c.complete /\ d.failed = c.failed
             /\ O!Total(d.bytes) = O!Total(c.bytes) + frame.bytes
             /\ AllKept(d.bytes, d.kept)
             /\ d.limit_reached <=> Exceeds(d.bytes)
<1> DEFINE s == frame.stream
           n == frame.bytes
           bytes == [c.bytes EXCEPT ![s] = @ + n]
           kept == [c.kept EXCEPT ![s] = O!Least(@ + n, O!Limit[s])]
           reached == c.limit_reached \/ bytes[s] > O!Limit[s] \/ O!Total(bytes) > MaxTotal
           d == O!_append(c, frame)
<1>1. s \in O!Streams /\ n \in Nat
  BY DEF O!Frame
<1>2. c.bytes \in [O!Streams -> Nat] /\ c.kept \in [O!Streams -> Nat] /\ c.limit_reached \in BOOLEAN
  BY DEF O!_OutputCollector
<1>3. d = [c EXCEPT !.bytes = bytes, !.kept = kept, !.limit_reached = reached]
  BY DEF O!_append
<1>4. /\ bytes \in [O!Streams -> Nat] /\ bytes[s] = c.bytes[s] + n
      /\ \A q \in O!Streams : q # s => bytes[q] = c.bytes[q]
  BY <1>1, <1>2
<1>5. /\ kept \in [O!Streams -> Nat] /\ kept[s] = O!Least(c.kept[s] + n, O!Limit[s])
      /\ \A q \in O!Streams : q # s => kept[q] = c.kept[q]
  <2>1. O!Least(c.kept[s] + n, O!Limit[s]) \in Nat
    BY <1>1, <1>2, LimitsAreNumbers DEF O!Least
  <2> QED BY <1>1, <1>2, <2>1
<1>6. reached \in BOOLEAN
  OBVIOUS
<1> HIDE DEF bytes, kept, d, n, s
<1>7. /\ d \in O!_OutputCollector /\ d.complete = c.complete /\ d.failed = c.failed
      /\ d.bytes = bytes /\ d.kept = kept /\ d.limit_reached = reached
  <2> HIDE DEF reached
  <2> QED BY <1>3, <1>4, <1>5, <1>6, Zenon DEF O!_OutputCollector
<1>8. O!Total(bytes) = O!Total(c.bytes) + n
  BY <1>1, <1>2, <1>4, LimitsAreNumbers DEF O!Total
<1>9. AllKept(bytes, kept)
  <2>1. c.kept[s] = O!Least(c.bytes[s], O!Limit[s])
    BY <1>1 DEF AllKept
  <2>2. kept[s] = O!Least(bytes[s], O!Limit[s])
    BY <1>1, <1>2, <1>4, <1>5, <2>1, LimitsAreNumbers DEF O!Least
  <2> QED BY <1>4, <1>5, <2>2 DEF AllKept
<1>10. reached <=> Exceeds(bytes)
  <2>1. \A q \in O!Streams : c.bytes[q] > O!Limit[q] => bytes[q] > O!Limit[q]
    BY <1>1, <1>2, <1>4, LimitsAreNumbers
  <2>2. O!Total(c.bytes) > MaxTotal => O!Total(bytes) > MaxTotal
    BY <1>1, <1>2, <1>8, LimitsAreNumbers DEF O!Total, Sizes
  <2> QED BY <1>1, <1>4, <2>1, <2>2 DEF Exceeds
<1> QED BY <1>7, <1>8, <1>9, <1>10 DEF d, n

LEMMA StreamInit == Sizes /\ O!Init => StreamInv
<1> SUFFICES ASSUME Sizes, O!Init PROVE StreamInv
  OBVIOUS
<1> DEFINE zero == [s \in O!Streams |-> 0]
<1>1. /\ pipe = <<>> /\ written.bytes = 0 /\ collector.bytes = zero /\ collector.kept = zero
      /\ collector.limit_reached = FALSE /\ collector.complete = FALSE
  BY DEF O!Init
<1>2. collector \in O!_OutputCollector
  BY DEF O!Init, O!_OutputCollector
<1>3. zero["stdout"] = 0 /\ zero["stderr"] = 0
  BY DEF O!Streams
<1>4. O!Total(zero) = 0 /\ AllKept(zero, zero) /\ ~Exceeds(zero)
  BY <1>3, LimitsAreNumbers DEF O!Total, AllKept, Exceeds, O!Least, Sizes
<1> HIDE DEF zero
<1>5. Contiguous
  BY <1>1, <1>4 DEF Contiguous
<1> QED BY <1>1, <1>2, <1>4, <1>5 DEF StreamInv

\* A step of the runner, of the clocks or the container's end.
Beside ==
  /\ UNCHANGED <<pipe, written, collector>> /\ (container'.running => container.running)

LEMMA StreamBeside ==
  ASSUME StreamInv, Beside
  PROVE  StreamInv'
BY DEF StreamInv, Beside, Contiguous, AllKept, Exceeds, O!Least, O!Total

LEMMA RunsBeside ==
  ASSUME O!exits \/ O!reaches_limit \/ O!run_created \/ UNCHANGED O!vars
  PROVE  Beside
<1>1. CASE O!exits
  BY <1>1 DEF O!exits, Beside
<1>2. CASE O!watch
  BY <1>2 DEF O!watch, Beside
<1>3. CASE O!reaches_limit \/ O!reload \/ O!drain \/ O!check \/ O!decide \/ O!execution \/ UNCHANGED O!vars
  BY <1>3, Zenon DEF O!reaches_limit, O!reload, O!drain, O!check, O!decide, O!execution, O!vars,
    Beside
<1> QED BY <1>1, <1>2, <1>3 DEF O!run_created

LEMMA WritesKeep ==
  ASSUME Sizes, StreamInv, NEW s \in O!Streams, NEW n \in Chunks, O!writes(s, n)
  PROVE  StreamInv'
<1> DEFINE frame == [stream |-> s, bytes |-> n, upto |-> written.bytes + n]
<1>1. /\ frame \in O!Frame /\ frame.bytes = n /\ frame.upto = written.bytes + n
      /\ n \in Nat /\ written.bytes \in Nat
  BY DEF O!Frame, Sizes, StreamInv
<1>2. /\ pipe' = Append(pipe, frame) /\ written'.bytes = written.bytes + n
      /\ container.running /\ container' = container /\ collector' = collector
  BY DEF O!writes
<1> HIDE DEF frame
<1>3. /\ pipe \in Seq(O!Frame) /\ pipe' \in Seq(O!Frame) /\ Len(pipe') = Len(pipe) + 1 /\ Len(pipe) \in Nat
      /\ pipe'[Len(pipe) + 1] = frame /\ \A i \in 1..Len(pipe) : pipe'[i] = pipe[i]
      /\ pipe' # <<>>
  BY <1>1, <1>2 DEF StreamInv
<1>4. Contiguous'
  <2>1. pipe'[Len(pipe')].upto = written'.bytes
    BY <1>1, <1>2, <1>3
  <2>2. O!Total(collector.bytes) + pipe'[1].bytes = pipe'[1].upto
    <3>1. CASE pipe = <<>>
      BY <1>1, <1>3, <3>1 DEF StreamInv, Contiguous
    <3>2. CASE pipe # <<>>
      BY <1>3, <3>2 DEF StreamInv, Contiguous
    <3> QED BY <3>1, <3>2
  <2>3. ASSUME NEW i \in 1..Len(pipe') - 1
        PROVE  pipe'[i].upto + pipe'[i + 1].bytes = pipe'[i + 1].upto
    <3>1. CASE i = Len(pipe)
      <4>1. pipe # <<>> /\ pipe'[i] = pipe[Len(pipe)] /\ pipe'[i + 1] = frame
        BY <1>3, <3>1
      <4>2. pipe'[i].upto = written.bytes
        BY <4>1 DEF StreamInv, Contiguous
      <4> QED BY <1>1, <4>1, <4>2
    <3>2. CASE i # Len(pipe)
      <4>1. i \in 1..Len(pipe) - 1 /\ pipe'[i] = pipe[i] /\ pipe'[i + 1] = pipe[i + 1]
        BY <1>3, <3>2
      <4> QED BY <4>1 DEF StreamInv, Contiguous
    <3> QED BY <3>1, <3>2
  <2> QED BY <1>2, <1>3, <2>1, <2>2, <2>3 DEF Contiguous, O!Total
<1>5. written'.bytes \in Nat
  BY <1>1, <1>2
<1>6. ~(collector.complete /\ ~collector.failed)
  BY <1>2 DEF StreamInv
<1> QED BY <1>2, <1>3, <1>4, <1>5, <1>6 DEF StreamInv, AllKept, Exceeds, O!Least, O!Total

LEMMA ConsumeKeeps ==
  ASSUME Sizes, StreamInv, O!consume
  PROVE  StreamInv'
<1>0. /\ collector \in O!_OutputCollector /\ ~collector.complete
      /\ written' = written /\ container' = container
  BY DEF StreamInv, O!consume
<1>1. ASSUME pipe # <<>>, pipe' = Tail(pipe), collector' = O!_append(collector, Head(pipe)) PROVE StreamInv'
  <2> DEFINE frame == Head(pipe)
  <2>1. frame \in O!Frame /\ frame = pipe[1] /\ frame.bytes \in Nat /\ frame.upto \in Nat
    <3>1. frame \in O!Frame /\ frame = pipe[1]
      BY <1>1 DEF StreamInv
    <3> HIDE DEF frame
    <3> QED BY <3>1 DEF O!Frame
  <2> HIDE DEF frame
  <2>2. collector' = O!_append(collector, frame)
    BY <1>1 DEF frame
  <2>3. /\ collector' \in O!_OutputCollector /\ collector'.complete = collector.complete
        /\ O!Total(collector'.bytes) = O!Total(collector.bytes) + frame.bytes
        /\ AllKept(collector'.bytes, collector'.kept)
        /\ collector'.limit_reached <=> Exceeds(collector'.bytes)
    BY <1>0, <2>1, <2>2, AppendCounts DEF StreamInv
  <2>4. /\ pipe' \in Seq(O!Frame) /\ Len(pipe) \in Nat /\ Len(pipe) >= 1 /\ Len(pipe') = Len(pipe) - 1
        /\ \A i \in 1..Len(pipe') : pipe'[i] = pipe[i + 1]
        /\ pipe' = <<>> <=> Len(pipe) = 1
    <3>1. /\ pipe' \in Seq(O!Frame) /\ Len(pipe) \in Nat /\ Len(pipe) >= 1 /\ Len(pipe') = Len(pipe) - 1
          /\ \A i \in 1..Len(pipe') : pipe'[i] = pipe[i + 1]
      BY <1>1 DEF StreamInv
    <3>2. pipe' = <<>> <=> Len(pipe') = 0
      BY <3>1
    <3> QED BY <3>1, <3>2
  <2>5. /\ O!Total(collector'.bytes) = frame.upto
        /\ pipe[Len(pipe)].upto = written.bytes
    BY <1>1, <2>1, <2>3 DEF StreamInv, Contiguous
  <2>6. \A i \in 1..Len(pipe) - 1 : pipe[i].upto + pipe[i + 1].bytes = pipe[i + 1].upto
    BY DEF StreamInv, Contiguous
  <2>7. Contiguous'
    <3>1. CASE pipe' = <<>>
      <4>1. Len(pipe) = 1 /\ Len(pipe') = 0 /\ frame = pipe[Len(pipe)]
        BY <2>1, <2>4, <3>1
      <4>2. O!Total(collector'.bytes) = written'.bytes
        BY <1>0, <2>5, <4>1
      <4> QED BY <3>1, <4>1, <4>2 DEF Contiguous
    <3>2. CASE pipe' # <<>>
      <4>1. pipe'[1] = pipe[2] /\ pipe[1].upto + pipe[2].bytes = pipe[2].upto
        BY <2>4, <2>6, <3>2
      <4>2. pipe'[Len(pipe')].upto = written'.bytes
        BY <1>0, <2>4, <2>5, <3>2
      <4>3. \A i \in 1..Len(pipe') - 1 : pipe'[i].upto + pipe'[i + 1].bytes = pipe'[i + 1].upto
        BY <2>4, <2>6
      <4> QED BY <2>1, <2>5, <3>2, <4>1, <4>2, <4>3 DEF Contiguous
    <3> QED BY <3>1, <3>2
  <2> QED BY <1>0, <2>3, <2>4, <2>7 DEF StreamInv
<1>2. ASSUME pipe' = pipe, NEW failed \in BOOLEAN, failed = FALSE => pipe = <<>> /\ ~container.running,
             \/ collector' = [collector EXCEPT !.complete = TRUE] /\ failed = FALSE
             \/ collector' = [collector EXCEPT !.complete = TRUE, !.failed = TRUE] /\ failed = TRUE
      PROVE  StreamInv'
  <2>1. /\ collector' \in O!_OutputCollector /\ collector'.bytes = collector.bytes
        /\ collector'.kept = collector.kept /\ collector'.limit_reached = collector.limit_reached
        /\ failed => collector'.failed
    BY <1>0, <1>2 DEF O!_OutputCollector
  <2> QED BY <1>0, <1>2, <2>1 DEF StreamInv, Contiguous, AllKept, Exceeds, O!Least, O!Total
<1> QED BY <1>1, <1>2, Zenon DEF O!consume

LEMMA StreamStep ==
  ASSUME Sizes, StreamInv, [O!Next]_O!vars
  PROVE  StreamInv'
BY StreamBeside, RunsBeside, WritesKeep, ConsumeKeeps, Zenon DEF O!Next

LEMMA ReportInit == O!Init => ReportInv /\ DrainInv
<1> SUFFICES ASSUME O!Init PROVE ReportInv /\ DrainInv
  OBVIOUS
<1>1. runner.at = "watch" /\ runner.killed = FALSE /\ runner \in O!Runner
  BY DEF O!Init, O!Runner
<1>2. result \in O!SandboxExecution
  BY DEF O!Init, O!NoResult, O!SandboxExecution
<1> QED BY <1>1, <1>2 DEF ReportInv, DrainInv, O!Done

\* How the runner goes on: its place, what it found and whether it killed.
Turns(at, triggered, dead) ==
  /\ runner' \in O!Runner
  /\ runner'.at = at /\ runner'.triggered = triggered /\ (runner'.killed <=> dead)

LEMMA RunnerTurns ==
  ASSUME runner \in O!Runner
  PROVE  /\ O!watch => Turns("reload", O!Trigger, runner.killed \/ (O!Trigger # "no" /\ container.running))
         /\ O!reload => \E at \in {"watch", "drain"} : Turns(at, runner.triggered, runner.killed)
         /\ O!drain => Turns("check", runner.triggered, runner.killed)
         /\ O!check => Turns("reason", IF runner.triggered = "no" /\ collector.limit_reached THEN "output_bytes"
                                       ELSE runner.triggered, runner.killed)
         /\ O!decide => Turns("result", runner.triggered, runner.killed)
         /\ O!execution => Turns("done", runner.triggered, runner.killed)
<1>1. ASSUME NEW at \in {"watch", "reload", "drain", "check", "reason", "result", "done"}
      PROVE  runner' = [runner EXCEPT !.at = at] => Turns(at, runner.triggered, runner.killed)
  BY <1>1 DEF O!Runner, Turns
<1>2. O!Trigger \in O!Triggers \cup {"no"}
  BY DEF O!Trigger, O!Triggers, O!Runner
<1>3. O!watch => Turns("reload", O!Trigger, runner.killed \/ (O!Trigger # "no" /\ container.running))
  <2> SUFFICES ASSUME O!watch
               PROVE  Turns("reload", O!Trigger, runner.killed \/ (O!Trigger # "no" /\ container.running))
    OBVIOUS
  <2>1. ASSUME NEW found \in O!Triggers \cup {"no"}, NEW dead \in BOOLEAN,
               runner' = [at |-> "reload", triggered |-> found, killed |-> dead]
        PROVE  Turns("reload", found, dead)
    BY <2>1 DEF O!Runner, Turns
  <2> QED BY <1>2, <2>1 DEF O!watch
<1>4. O!reload => \E at \in {"watch", "drain"} : Turns(at, runner.triggered, runner.killed)
  BY <1>1 DEF O!reload
<1>5. ASSUME O!check
      PROVE  Turns("reason", IF runner.triggered = "no" /\ collector.limit_reached THEN "output_bytes"
                             ELSE runner.triggered, runner.killed)
  <2>1. ASSUME NEW found \in O!Triggers \cup {"no"},
               runner' = [runner EXCEPT !.at = "reason", !.triggered = found]
        PROVE  Turns("reason", found, runner.killed)
    BY <2>1 DEF O!Runner, Turns
  <2>2. "output_bytes" \in O!Triggers /\ runner.triggered \in O!Triggers \cup {"no"}
    BY DEF O!Triggers, O!Runner
  <2> QED BY <1>5, <2>1, <2>2, Zenon DEF O!check
<1> QED BY <1>1, <1>3, <1>4, <1>5, Zenon DEF O!drain, O!decide, O!execution

\* _exit_reason: a limit that stopped the container is named, and only then.
LEMMA ReasonDecided ==
  ASSUME runner \in O!Runner, result \in O!SandboxExecution, O!decide
  PROVE  /\ result' \in O!SandboxExecution
         /\ result'.reason \in Stops <=> runner.triggered # "no"
<1>1. /\ O!_exit_reason(runner.triggered) \in O!Reasons
      /\ O!_exit_reason(runner.triggered) \in Stops <=> runner.triggered # "no"
  <2>1. runner.triggered \in O!Triggers \cup {"no"}
    BY DEF O!Runner
  <2>2. O!Ending \in O!Reasons \ Stops
    BY DEF O!Ending, O!Reasons, Stops
  <2>3. \A x \in O!Triggers : O!TriggeredReason[x] \in Stops
    BY DEF O!Triggers, O!TriggeredReason, Stops
  <2>4. Stops \subseteq O!Reasons /\ "no" \notin O!Triggers
    BY DEF Stops, O!Reasons, O!Triggers
  <2> QED BY <2>1, <2>2, <2>3, <2>4 DEF O!_exit_reason
<1>2. ASSUME NEW reason \in O!Reasons, result' = [result EXCEPT !.reason = reason]
      PROVE  result' \in O!SandboxExecution /\ result'.reason = reason
  BY <1>2 DEF O!SandboxExecution
<1> QED BY <1>1, <1>2 DEF O!decide

\* SandboxExecution is built from the collector as it is.
LEMMA ExecutionReports ==
  ASSUME Sizes, StreamInv, result \in O!SandboxExecution, O!execution
  PROVE  /\ result' \in O!SandboxExecution /\ result'.reason = result.reason
         /\ result'.counted = collector.bytes /\ result'.kept = collector.kept
         /\ \A s \in O!Streams : result'.truncated[s] <=> result'.counted[s] > result'.kept[s]
         /\ result'.complete => ~collector.failed
<1>1. PICK samples \in BOOLEAN :
        result' = [result EXCEPT !.counted = collector.bytes, !.kept = collector.kept,
                     !.truncated = [s \in O!Streams |-> collector.bytes[s] > collector.kept[s]],
                     !.complete = samples /\ ~collector.failed]
  BY Zenon DEF O!execution
<1>2. /\ collector.bytes \in [O!Streams -> Nat] /\ collector.kept \in [O!Streams -> Nat]
      /\ collector.failed \in BOOLEAN
  BY DEF StreamInv, O!_OutputCollector
<1> DEFINE cut == [s \in O!Streams |-> collector.bytes[s] > collector.kept[s]]
           whole == samples /\ ~collector.failed
<1>3. cut \in [O!Streams -> BOOLEAN] /\ whole \in BOOLEAN
  BY <1>2
<1>4. \A s \in O!Streams : cut[s] <=> collector.bytes[s] > collector.kept[s]
  BY Zenon
<1>5. whole => ~collector.failed
  OBVIOUS
<1>6. result' = [result EXCEPT !.counted = collector.bytes, !.kept = collector.kept, !.truncated = cut,
                               !.complete = whole]
  BY <1>1
<1> HIDE DEF cut, whole
<1>7. /\ result' \in O!SandboxExecution /\ result'.reason = result.reason
      /\ result'.counted = collector.bytes /\ result'.kept = collector.kept
      /\ result'.truncated = cut /\ result'.complete = whole
  BY <1>2, <1>3, <1>6 DEF O!SandboxExecution
<1> QED BY <1>4, <1>5, <1>7

LEMMA ReportStep ==
  ASSUME Sizes, StreamInv, ReportInv, [O!Next]_O!vars
  PROVE  ReportInv'
<1>0. runner \in O!Runner /\ result \in O!SandboxExecution
  BY DEF ReportInv
<1>1. ASSUME UNCHANGED <<runner, result>> PROVE ReportInv'
  BY <1>1 DEF ReportInv, O!Done, AllKept, O!Least
<1>2. CASE O!watch
  <2>1. /\ Turns("reload", O!Trigger, runner.killed \/ (O!Trigger # "no" /\ container.running))
        /\ result' = result
    BY <1>0, <1>2, RunnerTurns, Zenon DEF O!watch
  <2>2. runner.killed => O!Trigger # "no"
    BY DEF ReportInv, O!Trigger
  <2> QED BY <1>0, <2>1, <2>2 DEF Turns, ReportInv, O!Done
<1>3. CASE O!reload
  <2>1. result' = result /\ \E at \in {"watch", "drain"} : Turns(at, runner.triggered, runner.killed)
    BY <1>0, <1>3, RunnerTurns DEF O!reload
  <2> QED BY <1>0, <2>1 DEF Turns, ReportInv, O!Done
<1>4. CASE O!drain
  <2>1. Turns("check", runner.triggered, runner.killed) /\ result' = result
    BY <1>0, <1>4, RunnerTurns DEF O!drain
  <2> QED BY <1>0, <2>1 DEF Turns, ReportInv, O!Done
<1>5. CASE O!check
  <2>1. /\ Turns("reason", IF runner.triggered = "no" /\ collector.limit_reached THEN "output_bytes"
                           ELSE runner.triggered, runner.killed)
        /\ result' = result
    BY <1>0, <1>5, RunnerTurns DEF O!check
  <2> QED BY <1>0, <2>1 DEF Turns, ReportInv, O!Done
<1>6. CASE O!decide
  <2>1. Turns("result", runner.triggered, runner.killed)
    BY <1>0, <1>6, RunnerTurns
  <2> QED BY <1>0, <1>6, <2>1, ReasonDecided DEF Turns, ReportInv, O!Done
<1>7. CASE O!execution
  <2>1. Turns("done", runner.triggered, runner.killed) /\ runner.at = "result"
    BY <1>0, <1>7, RunnerTurns, Zenon DEF O!execution
  <2>2. AllKept(collector.bytes, collector.kept)
    BY DEF StreamInv
  <2>3. /\ result' \in O!SandboxExecution /\ result'.reason = result.reason
        /\ AllKept(result'.counted, result'.kept)
        /\ \A s \in O!Streams : result'.truncated[s] <=> result'.counted[s] > result'.kept[s]
    BY <1>0, <1>7, <2>2, ExecutionReports
  <2> QED BY <2>1, <2>3 DEF Turns, ReportInv, O!Done, AllKept
<1>8. CASE UNCHANGED O!vars \/ O!exits \/ O!reaches_limit \/ O!consume \/ \E s \in O!Streams, n \in Chunks : O!writes(s, n)
  BY <1>1, <1>8, Zenon DEF O!vars, O!exits, O!reaches_limit, O!consume, O!writes
<1> QED BY <1>2, <1>3, <1>4, <1>5, <1>6, <1>7, <1>8, Zenon DEF O!Next, O!run_created

LEMMA DrainStep ==
  ASSUME Sizes, ~SlowDrain, StreamInv, ReportInv, DrainInv, [O!Next]_O!vars
  PROVE  DrainInv'
<1>0. runner \in O!Runner /\ result \in O!SandboxExecution
  BY DEF ReportInv
<1>1. ASSUME UNCHANGED <<runner, result>>, collector' = collector \/ ~collector.complete PROVE DrainInv'
  BY <1>1 DEF DrainInv, O!Done
<1>2. CASE O!watch
  <2>1. runner'.at = "reload"
    BY <1>0, <1>2, RunnerTurns DEF Turns
  <2> QED BY <2>1 DEF DrainInv, O!Done
<1>3. CASE O!reload
  <2>1. runner'.at \in {"watch", "drain"}
    BY <1>0, <1>3, RunnerTurns DEF Turns
  <2> QED BY <2>1 DEF DrainInv, O!Done
<1>4. CASE O!drain
  <2>1. runner'.at = "check" /\ collector' = collector /\ collector.complete
    BY <1>0, <1>4, RunnerTurns DEF Turns, O!drain
  <2> QED BY <2>1 DEF DrainInv, O!Done
<1>5. CASE O!check
  <2>1. /\ runner'.at = "reason" /\ collector' = collector /\ collector.complete
        /\ collector.limit_reached => runner'.triggered # "no"
    BY <1>0, <1>5, RunnerTurns DEF Turns, O!check, DrainInv
  <2> QED BY <2>1 DEF DrainInv, O!Done
<1>6. CASE O!decide
  <2>1. /\ runner'.at = "result" /\ runner'.triggered = runner.triggered /\ runner.at = "reason"
        /\ collector' = collector
    BY <1>0, <1>6, RunnerTurns DEF Turns, O!decide
  <2> QED BY <1>0, <1>6, <2>1, ReasonDecided DEF DrainInv, O!Done
<1>7. CASE O!execution
  <2>1. /\ runner'.at = "done" /\ runner'.triggered = runner.triggered /\ runner.at = "result"
        /\ collector' = collector
    BY <1>0, <1>7, RunnerTurns, Zenon DEF Turns, O!execution
  <2> QED BY <1>0, <1>7, <2>1, ExecutionReports DEF DrainInv, O!Done
<1>8. CASE UNCHANGED O!vars \/ O!exits \/ O!reaches_limit \/ O!consume \/ \E s \in O!Streams, n \in Chunks : O!writes(s, n)
  BY <1>1, <1>8, Zenon DEF O!vars, O!exits, O!reaches_limit, O!consume, O!writes
<1> QED BY <1>2, <1>3, <1>4, <1>5, <1>6, <1>7, <1>8, Zenon DEF O!Next, O!run_created

LEMMA ReportSuffices ==
  ASSUME Sizes, StreamInv, ReportInv
  PROVE  O!KeptIsPrefix /\ O!KillIsExplained
<1>1. ASSUME O!Done, NEW s \in O!Streams
      PROVE  /\ result.kept[s] = O!Least(result.counted[s], O!Limit[s])
             /\ result.truncated[s] <=> result.counted[s] > O!Limit[s]
  <2>1. /\ result.kept[s] = O!Least(result.counted[s], O!Limit[s])
        /\ result.truncated[s] <=> result.counted[s] > result.kept[s]
    BY <1>1 DEF ReportInv, AllKept
  <2>2. result.counted[s] \in Nat /\ O!Limit[s] \in Nat
    BY LimitsAreNumbers DEF ReportInv, O!SandboxExecution
  <2> QED BY <2>1, <2>2 DEF O!Least
<1>2. O!KillIsExplained
  BY DEF ReportInv, O!KillIsExplained, O!Done, Stops
<1> QED BY <1>1, <1>2 DEF O!KeptIsPrefix

LEMMA DrainSuffices ==
  ASSUME Sizes, StreamInv, ReportInv, DrainInv
  PROVE  O!SuccessIsWithinLimits /\ O!CompleteCountsAll
<1>1. ASSUME O!Done, result.reason \in {"COMPLETED", "NON_ZERO_EXIT"}
      PROVE  /\ \A s \in O!Streams : result.counted[s] <= O!Limit[s]
             /\ O!Total(result.counted) <= MaxTotal
  <2>1. runner.triggered = "no" /\ ~collector.limit_reached /\ result.counted = collector.bytes
    BY <1>1 DEF O!Done, ReportInv, DrainInv, Stops
  <2>2. ~Exceeds(result.counted)
    BY <2>1 DEF StreamInv
  <2>3. \A s \in O!Streams : result.counted[s] \in Nat /\ O!Limit[s] \in Nat
    BY LimitsAreNumbers DEF ReportInv, O!SandboxExecution
  <2>4. O!Total(result.counted) \in Nat
    BY <2>3, LimitsAreNumbers DEF O!Total
  <2> QED BY <2>2, <2>3, <2>4 DEF Exceeds, Sizes
<1>2. ASSUME O!Done, result.complete PROVE O!Total(result.counted) = written.bytes
  <2>1. result.counted = collector.bytes /\ collector.complete /\ ~collector.failed
    BY <1>2 DEF O!Done, DrainInv
  <2> QED BY <2>1 DEF StreamInv, Contiguous
<1> QED BY <1>1, <1>2 DEF O!SuccessIsWithinLimits, O!CompleteCountsAll

\* What run_created reports of any output is true of it: the reason, the counts, what is
\* kept and whether it is all, as long as the collector is done when the waits are over.
THEOREM ReportsAreTruthful ==
  ASSUME ~SlowDrain
  PROVE  O!Spec => []ReportIsTruthful
<1>1. O!Init => StreamInv /\ ReportInv /\ DrainInv
  BY ReportsAssumption, StreamInit, ReportInit
<1>2. StreamInv /\ ReportInv /\ DrainInv /\ [O!Next]_O!vars => StreamInv' /\ ReportInv' /\ DrainInv'
  BY ReportsAssumption, StreamStep, ReportStep, DrainStep
<1>3. StreamInv /\ ReportInv /\ DrainInv => ReportIsTruthful
  BY ReportsAssumption, ReportSuffices, DrainSuffices DEF ReportIsTruthful, O!ReportIsTruthful
<1> QED BY <1>1, <1>2, <1>3, PTL DEF O!Spec

\* However slow the collector is, what run_created kept is the prefix the limit allows of
\* what it counted, and a container it killed is never reported to have ended by itself.
THEOREM ReportsKeepPrefixes == O!Spec => [](O!KeptIsPrefix /\ O!KillIsExplained)
<1>1. O!Init => StreamInv /\ ReportInv
  BY ReportsAssumption, StreamInit, ReportInit
<1>2. StreamInv /\ ReportInv /\ [O!Next]_O!vars => StreamInv' /\ ReportInv'
  BY ReportsAssumption, StreamStep, ReportStep
<1>3. StreamInv /\ ReportInv => O!KeptIsPrefix /\ O!KillIsExplained
  BY ReportsAssumption, ReportSuffices
<1> QED BY <1>1, <1>2, <1>3, PTL DEF O!Spec
=============================================================================
