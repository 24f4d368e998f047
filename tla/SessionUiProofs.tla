--------------------------- MODULE SessionUiProofs ---------------------------
(***************************************************************************)
(* The session logic's safety, for any number of workers.  HandleLive is   *)
(* what keeps a spawned worker from being the one whose handle is          *)
(* published; BusyPhaseOwned is inductive with it.                         *)
(***************************************************************************)
EXTENDS SessionUi, TLAPS

IInv == TypeOK /\ BusyPhaseOwned /\ HandleLive

LEMMA InitIInv == Init => IInv
<1> SUFFICES ASSUME Init PROVE IInv
  OBVIOUS
<1> USE WorkerAssumption
<1>1. phase \in Phases /\ pc \in [Worker -> Points]
  BY DEF Init, Phases, Points, ConnectPoints
<1>2. TypeOK
  BY <1>1 DEF Init, TypeOK, Pages, Hosts
<1>3. BusyPhaseOwned
  <2>1. CASE phase = "Idle"
    BY <2>1 DEF BusyPhaseOwned
  <2>2. CASE phase = "Connecting"
    <3>1. PICK s \in Worker : pc = [w \in Worker |-> IF w = s THEN "query" ELSE "idle"]
      BY <2>2 DEF Init
    <3>2. pc[s] \in ConnectPoints
      BY <3>1 DEF ConnectPoints
    <3> QED
      BY <2>2, <3>2 DEF BusyPhaseOwned, At
  <2> QED
    BY <2>1, <2>2 DEF Init
<1>4. HandleLive
  BY DEF Init, HandleLive
<1> QED
  BY <1>2, <1>3, <1>4 DEF IInv

-----------------------------------------------------------------------------
(* Spawning, and a worker's move, as facts about pc.                       *)

LEMMA SpawnFact ==
  ASSUME TypeOK, NEW p \in Points, Spawn(p)
  PROVE  \E w \in Worker : /\ pc[w] = "idle"
                           /\ pc'[w] = p
                           /\ \A v \in Worker \ {w} : pc'[v] = pc[v]
                           /\ pc' \in [Worker -> Points]
<1>1. PICK w \in Worker : pc[w] = "idle" /\ pc' = [pc EXCEPT ![w] = p]
  BY DEF Spawn
<1> QED
  BY <1>1 DEF TypeOK

LEMMA GotoFact ==
  ASSUME TypeOK, NEW w \in Worker, NEW a, NEW b \in Points, Goto(w, a, b)
  PROVE  /\ pc[w] = a
         /\ pc'[w] = b
         /\ \A v \in Worker \ {w} : pc'[v] = pc[v]
         /\ pc' \in [Worker -> Points]
BY DEF Goto, TypeOK

-----------------------------------------------------------------------------
LEMMA UiPreserves == ASSUME IInv, UiStep, patient' \in BOOLEAN PROVE IInv'
<1> USE WorkerAssumption DEF IInv
<1>a. TypeOK
  OBVIOUS
<1>p. {"query", "request", "quit"} \subseteq Points
  BY DEF Points, ConnectPoints, StartPoints, QuitPoints
<1>1. CASE ConnectNowhere
  BY <1>1 DEF ConnectNowhere, ui, core, TypeOK, Phases, BusyPhaseOwned, HandleLive, At
<1>2. CASE Connect
  <2>1. PICK w \in Worker : /\ pc[w] = "idle" /\ pc'[w] = "query"
                            /\ \A v \in Worker \ {w} : pc'[v] = pc[v]
                            /\ pc' \in [Worker -> Points]
    BY <1>2, <1>a, <1>p, SpawnFact DEF Connect
  <2>2. TypeOK'
    BY <1>2, <2>1 DEF Connect, core, TypeOK, Phases, Hosts
  <2>3. BusyPhaseOwned'
    BY <1>2, <2>1 DEF Connect, BusyPhaseOwned, At, ConnectPoints
  <2>4. HandleLive'
    BY <1>2, <2>1 DEF Connect, HandleLive, TypeOK
  <2> QED
    BY <2>2, <2>3, <2>4
<1>3. CASE StartApplication
  <2>1. PICK w \in Worker : /\ pc[w] = "idle" /\ pc'[w] = "request"
                            /\ \A v \in Worker \ {w} : pc'[v] = pc[v]
                            /\ pc' \in [Worker -> Points]
    BY <1>3, <1>a, <1>p, SpawnFact DEF StartApplication
  <2>2. TypeOK'
    BY <1>3, <2>1 DEF StartApplication, ui, core, TypeOK, Phases
  <2>3. BusyPhaseOwned'
    BY <1>3, <2>1 DEF StartApplication, BusyPhaseOwned, At, StartPoints
  <2>4. HandleLive'
    BY <1>3, <2>1 DEF StartApplication, HandleLive, TypeOK
  <2> QED
    BY <2>2, <2>3, <2>4
<1>4. CASE CancelHostApplication
  <2>1. PICK w \in Worker : /\ pc[w] = "idle" /\ pc'[w] = "quit"
                            /\ \A v \in Worker \ {w} : pc'[v] = pc[v]
                            /\ pc' \in [Worker -> Points]
    BY <1>4, <1>a, <1>p, SpawnFact DEF CancelHostApplication
  <2>2. TypeOK'
    BY <1>4, <2>1 DEF CancelHostApplication, RequestStop, TypeOK, Phases, Pages
  <2>3. BusyPhaseOwned'
    BY <1>4, <2>1 DEF CancelHostApplication, BusyPhaseOwned, At, QuitPoints
  <2>4. HandleLive'
    BY <1>4, <2>1 DEF CancelHostApplication, HandleLive
  <2> QED
    BY <2>2, <2>3, <2>4
<1>5. CASE StopStream \/ Shutdown
  <2>1. TypeOK'
    BY <1>5 DEF StopStream, Shutdown, RequestStop, TypeOK, Pages
  <2>2. BusyPhaseOwned' /\ HandleLive'
    BY <1>5 DEF StopStream, Shutdown, BusyPhaseOwned, HandleLive, At
  <2> QED
    BY <2>1, <2>2
<1>6. CASE Navigate
  <2>1. page' \in Pages /\ back' \in {"computers", "games"}
    BY <1>6 DEF Navigate, GoBack, Opens, TypeOK, Pages
  <2>2. TypeOK'
    BY <1>6, <2>1 DEF Navigate, core, TypeOK
  <2>3. BusyPhaseOwned' /\ HandleLive'
    BY <1>6 DEF Navigate, BusyPhaseOwned, HandleLive, At
  <2> QED
    BY <2>2, <2>3
<1> QED
  BY <1>1, <1>2, <1>3, <1>4, <1>5, <1>6 DEF UiStep, SetOut

-----------------------------------------------------------------------------
(* A worker's move from a to b keeps both invariants if every phase that a *)
(* answers for is answered for at b, and if a handle that may be published *)
(* at a may be published at b.                                             *)

LaunchPoints == StartPoints \cup QuitPoints \cup {"dropErr", "judgeErr"}
LivePoints == {"announce", "show", "consume", "dropOk", "dropErr"}

LEMMA OwnerMoves ==
  ASSUME IInv, NEW w \in Worker, NEW a, NEW b \in Points, Goto(w, a, b),
         phase' = phase \/ phase' \in {"Idle", "Ready", "SessionPrepared", "Failed"},
         phase' = "Connecting" \/ phase' = "Pairing" =>
           (a \in ConnectPoints => b \in ConnectPoints),
         phase' = "Launching" => (a \in LaunchPoints => b \in LaunchPoints),
         phase' = "Streaming" => (a \in StreamPoints => b \in StreamPoints)
  PROVE  BusyPhaseOwned'
<1>1. /\ pc[w] = a
      /\ pc'[w] = b
      /\ \A v \in Worker \ {w} : pc'[v] = pc[v]
  BY GotoFact DEF IInv
<1>2. phase' \in {"Connecting", "Pairing"} => \E v \in Worker : pc'[v] \in ConnectPoints
  BY <1>1 DEF IInv, BusyPhaseOwned, At
<1>3. phase' = "Launching" => \E v \in Worker : pc'[v] \in LaunchPoints
  BY <1>1 DEF IInv, BusyPhaseOwned, At, LaunchPoints
<1>4. phase' = "Streaming" => \E v \in Worker : pc'[v] \in StreamPoints
  BY <1>1 DEF IInv, BusyPhaseOwned, At
<1> QED
  BY <1>2, <1>3, <1>4 DEF BusyPhaseOwned, At, LaunchPoints

LEMMA HandleMoves ==
  ASSUME IInv, NEW w \in Worker, NEW a, NEW b \in Points, Goto(w, a, b),
         control' = control,
         a \in LivePoints => b \in LivePoints
  PROVE  HandleLive'
<1>1. /\ pc[w] = a
      /\ pc'[w] = b
      /\ \A v \in Worker \ {w} : pc'[v] = pc[v]
  BY GotoFact DEF IInv
<1> QED
  BY <1>1 DEF IInv, HandleLive, LivePoints, TypeOK

(* A worker that sets a phase it will itself replace.                      *)
LEMMA WorkerSets ==
  ASSUME IInv, NEW w \in Worker, NEW a, NEW b \in Points, Goto(w, a, b),
         \/ phase' \in {"Connecting", "Pairing"} /\ b \in ConnectPoints
         \/ phase' = "Streaming" /\ b \in StreamPoints
  PROVE  BusyPhaseOwned'
<1>1. pc'[w] = b
  BY GotoFact DEF IInv
<1> QED
  BY <1>1 DEF BusyPhaseOwned, At

LEMMA WorkerTypes ==
  ASSUME TypeOK, NEW w \in Worker, patient' \in BOOLEAN,
         WorkerStep(w) \/ WaitForPin(w) \/ PairingStage(w) \/ EndStream(w)
  PROVE  TypeOK'
<1> USE DEF TypeOK
<1>p. \A p \in ConnectPoints \cup StartPoints \cup StreamPoints \cup QuitPoints
              \cup {"idle", "computers", "games"} : p \in Points
  BY DEF Points
<1> DEFINE Places(b) == pc' = [pc EXCEPT ![w] = b]
<1>q. ASSUME NEW b \in Points, Places(b) PROVE pc' \in [Worker -> Points]
  BY <1>q
<1> HIDE DEF Places
<1>1. pc' \in [Worker -> Points]
  <2> USE DEF ConnectPoints, StartPoints, StreamPoints, QuitPoints, Places
  <2>1. CASE FetchServerInfo(w) \/ PublishHost(w) \/ ConnectFails(w)
    BY <1>p, <1>q, <2>1 DEF FetchServerInfo, PublishHost, ConnectFails, SetPhase, Goto
  <2>2. CASE SessionGranted(w) \/ SessionRefused(w) \/ ClaimCore(w) \/ BringUpFails(w)
    BY <1>p, <1>q, <2>2 DEF SessionGranted, SessionRefused, ClaimCore, BringUpFails, SetPhase, Goto
  <2>3. CASE PublishHandle(w) \/ Announce(w) \/ ShowStream(w) \/ DropHandle(w)
    BY <1>p, <1>q, <2>3 DEF PublishHandle, Announce, ShowStream, DropHandle, SetPhase, SetPage, Goto
  <2>4. CASE JudgeOk(w) \/ JudgeErr(w) \/ Prepare(w)
    BY <1>p, <1>q, <2>4 DEF JudgeOk, JudgeErr, Prepare, SetPhase, Goto
  <2>5. CASE QuitFails(w) \/ QuitAnswered(w) \/ Ready(w) \/ GoHome(w)
    BY <1>p, <1>q, <2>5 DEF QuitFails, QuitAnswered, Ready, GoHome, SetPhase, SetPage, Goto
  <2>6. CASE WaitForPin(w) \/ PairingStage(w) \/ EndStream(w)
    BY <1>p, <1>q, <2>6 DEF WaitForPin, PairingStage, EndStream, SetPhase, Goto
  <2> QED
    BY <2>1, <2>2, <2>3, <2>4, <2>5, <2>6 DEF WorkerStep
<1>2. /\ phase' \in Phases
      /\ page' \in Pages
      /\ back' = back
      /\ host' \in Hosts
      /\ apps' \in BOOLEAN
      /\ open' = open
  <2> USE DEF Phases, Pages, Hosts, ui, core, SetPhase, SetPage
  <2>1. CASE FetchServerInfo(w) \/ PublishHost(w) \/ ConnectFails(w) \/ SessionGranted(w)
    BY <2>1 DEF FetchServerInfo, PublishHost, ConnectFails, SessionGranted
  <2>2. CASE SessionRefused(w) \/ ClaimCore(w) \/ BringUpFails(w) \/ PublishHandle(w)
    BY <2>2 DEF SessionRefused, ClaimCore, BringUpFails, PublishHandle
  <2>3. CASE Announce(w) \/ ShowStream(w) \/ DropHandle(w) \/ JudgeOk(w) \/ JudgeErr(w)
    BY <2>3 DEF Announce, ShowStream, DropHandle, JudgeOk, JudgeErr
  <2>4. CASE Prepare(w) \/ QuitFails(w) \/ QuitAnswered(w) \/ Ready(w) \/ GoHome(w)
    BY <2>4 DEF Prepare, QuitFails, QuitAnswered, Ready, GoHome
  <2>5. CASE WaitForPin(w) \/ PairingStage(w) \/ EndStream(w)
    BY <2>5 DEF WaitForPin, PairingStage, EndStream
  <2> QED
    BY <2>1, <2>2, <2>3, <2>4, <2>5 DEF WorkerStep
<1>3. /\ control' \in Worker \cup {NoWorker}
      /\ active' \in Worker \cup {NoWorker}
      /\ stopped' \in SUBSET Worker
  <2> USE DEF ui, core, SetPhase, SetPage
  <2>1. CASE FetchServerInfo(w) \/ PublishHost(w) \/ ConnectFails(w) \/ SessionGranted(w)
    BY <2>1 DEF FetchServerInfo, PublishHost, ConnectFails, SessionGranted
  <2>2. CASE SessionRefused(w) \/ ClaimCore(w) \/ BringUpFails(w) \/ PublishHandle(w)
    BY <2>2 DEF SessionRefused, ClaimCore, BringUpFails, PublishHandle
  <2>3. CASE Announce(w) \/ ShowStream(w) \/ DropHandle(w) \/ JudgeOk(w) \/ JudgeErr(w)
    BY <2>3 DEF Announce, ShowStream, DropHandle, JudgeOk, JudgeErr
  <2>4. CASE Prepare(w) \/ QuitFails(w) \/ QuitAnswered(w) \/ Ready(w) \/ GoHome(w)
    BY <2>4 DEF Prepare, QuitFails, QuitAnswered, Ready, GoHome
  <2>5. CASE WaitForPin(w) \/ PairingStage(w) \/ EndStream(w)
    BY <2>5 DEF WaitForPin, PairingStage, EndStream
  <2> QED
    BY <2>1, <2>2, <2>3, <2>4, <2>5 DEF WorkerStep
<1> QED
  BY <1>1, <1>2, <1>3

-----------------------------------------------------------------------------
LEMMA WorkerPreserves ==
  ASSUME IInv, NEW w \in Worker, patient' \in BOOLEAN,
         WorkerStep(w) \/ WaitForPin(w) \/ PairingStage(w) \/ EndStream(w)
  PROVE  IInv'
<1>t. TypeOK'
  BY WorkerTypes DEF IInv
<1>g. SUFFICES BusyPhaseOwned' /\ HandleLive'
  BY <1>t DEF IInv
<1> USE DEF Points, ConnectPoints, StartPoints, StreamPoints, QuitPoints,
           LaunchPoints, LivePoints
<1>1. CASE FetchServerInfo(w)
  <2>1. Goto(w, "query", "contact") /\ control' = control
    BY <1>1 DEF FetchServerInfo, SetPhase
  <2>2. BusyPhaseOwned'
    BY <1>1, <2>1, WorkerSets DEF FetchServerInfo, SetPhase
  <2>3. HandleLive'
    BY <2>1, HandleMoves
  <2> QED
    BY <2>2, <2>3
<1>2. CASE WaitForPin(w)
  <2>1. Goto(w, "contact", "pair") /\ control' = control
    BY <1>2 DEF WaitForPin, SetPhase
  <2>2. BusyPhaseOwned'
    BY <1>2, <2>1, WorkerSets DEF WaitForPin, SetPhase
  <2>3. HandleLive'
    BY <2>1, HandleMoves
  <2> QED
    BY <2>2, <2>3
<1>3. CASE PairingStage(w)
  <2>1. Goto(w, "pair", "pair") /\ control' = control
    BY <1>3 DEF PairingStage, SetPhase
  <2>2. BusyPhaseOwned'
    BY <1>3, <2>1, WorkerSets DEF PairingStage, SetPhase
  <2>3. HandleLive'
    BY <2>1, HandleMoves
  <2> QED
    BY <2>2, <2>3
<1>4. CASE Announce(w)
  <2>1. Goto(w, "announce", "show") /\ control' = control
    BY <1>4 DEF Announce, SetPhase
  <2>2. BusyPhaseOwned'
    BY <1>4, <2>1, WorkerSets DEF Announce, SetPhase
  <2>3. HandleLive'
    BY <2>1, HandleMoves
  <2> QED
    BY <2>2, <2>3
<1>5. CASE PublishHost(w)
  <2>1. control' = control
    BY <1>5 DEF PublishHost
  <2>2. CASE Goto(w, "contact", "connected")
    <3>1. BusyPhaseOwned'
      BY <1>5, <2>2, OwnerMoves DEF PublishHost, Goto
    <3>2. HandleLive'
      BY <2>1, <2>2, HandleMoves
    <3> QED
      BY <3>1, <3>2
  <2>3. CASE Goto(w, "pair", "connected")
    <3>1. BusyPhaseOwned'
      BY <1>5, <2>3, OwnerMoves DEF PublishHost, Goto
    <3>2. HandleLive'
      BY <2>1, <2>3, HandleMoves
    <3> QED
      BY <3>1, <3>2
  <2> QED
    BY <1>5, <2>2, <2>3 DEF PublishHost
<1>6. CASE ConnectFails(w)
  <2>1. control' = control
    BY <1>6 DEF ConnectFails, SetPhase
  <2>2. PICK p \in {"query", "contact", "pair"} : Goto(w, p, "idle")
    BY <1>6 DEF ConnectFails, SetPhase
  <2>3. BusyPhaseOwned'
    BY <1>6, OwnerMoves DEF ConnectFails, SetPhase, Goto
  <2>4. CASE p = "query"
    BY <2>1, <2>2, <2>3, <2>4, HandleMoves
  <2>5. CASE p = "contact"
    BY <2>1, <2>2, <2>3, <2>5, HandleMoves
  <2>6. CASE p = "pair"
    BY <2>1, <2>2, <2>3, <2>6, HandleMoves
  <2> QED
    BY <2>4, <2>5, <2>6
<1>7. CASE SessionGranted(w)
  <2>1. Goto(w, "request", "claim") /\ control' = control
    BY <1>7 DEF SessionGranted
  <2>2. BusyPhaseOwned'
    BY <1>7, <2>1, OwnerMoves DEF SessionGranted
  <2>3. HandleLive'
    BY <2>1, HandleMoves
  <2> QED
    BY <2>2, <2>3
<1>8. CASE SessionRefused(w)
  <2>1. Goto(w, "request", "idle") /\ control' = control
    BY <1>8 DEF SessionRefused, SetPhase
  <2>2. BusyPhaseOwned'
    BY <1>8, <2>1, OwnerMoves DEF SessionRefused, SetPhase
  <2>3. HandleLive'
    BY <2>1, HandleMoves
  <2> QED
    BY <2>2, <2>3
<1>9. CASE ClaimCore(w)
  <2>1. control' = control
    BY <1>9 DEF ClaimCore
  <2>2. CASE Goto(w, "claim", "bringUp")
    <3>1. BusyPhaseOwned'
      BY <1>9, <2>2, OwnerMoves DEF ClaimCore, Goto
    <3>2. HandleLive'
      BY <2>1, <2>2, HandleMoves
    <3> QED
      BY <3>1, <3>2
  <2>3. CASE Goto(w, "claim", "dropErr")
    <3>1. BusyPhaseOwned'
      BY <1>9, <2>3, OwnerMoves DEF ClaimCore, Goto
    <3>2. HandleLive'
      BY <2>1, <2>3, HandleMoves
    <3> QED
      BY <3>1, <3>2
  <2> QED
    BY <1>9, <2>2, <2>3 DEF ClaimCore
<1>10. CASE BringUpFails(w)
  <2>1. Goto(w, "bringUp", "dropErr") /\ control' = control
    BY <1>10 DEF BringUpFails
  <2>2. BusyPhaseOwned'
    BY <1>10, <2>1, OwnerMoves DEF BringUpFails
  <2>3. HandleLive'
    BY <2>1, HandleMoves
  <2> QED
    BY <2>2, <2>3
<1>11. CASE ShowStream(w)
  <2>1. Goto(w, "show", "consume") /\ control' = control
    BY <1>11 DEF ShowStream, SetPage
  <2>2. BusyPhaseOwned'
    BY <1>11, <2>1, OwnerMoves DEF ShowStream, SetPage
  <2>3. HandleLive'
    BY <2>1, HandleMoves
  <2> QED
    BY <2>2, <2>3
<1>12. CASE EndStream(w)
  <2>1. control' = control
    BY <1>12 DEF EndStream
  <2>2. CASE Goto(w, "consume", "dropOk")
    <3>1. BusyPhaseOwned'
      BY <1>12, <2>2, OwnerMoves DEF EndStream, Goto
    <3>2. HandleLive'
      BY <2>1, <2>2, HandleMoves
    <3> QED
      BY <3>1, <3>2
  <2>3. CASE Goto(w, "consume", "dropErr")
    <3>1. BusyPhaseOwned'
      BY <1>12, <2>3, OwnerMoves DEF EndStream, Goto
    <3>2. HandleLive'
      BY <2>1, <2>3, HandleMoves
    <3> QED
      BY <3>1, <3>2
  <2> QED
    BY <1>12, <2>2, <2>3 DEF EndStream
<1>13. CASE JudgeErr(w)
  <2>1. Goto(w, "judgeErr", "games") /\ control' = control
    BY <1>13 DEF JudgeErr, SetPhase
  <2>2. BusyPhaseOwned'
    BY <1>13, <2>1, OwnerMoves DEF JudgeErr, SetPhase
  <2>3. HandleLive'
    BY <2>1, HandleMoves
  <2> QED
    BY <2>2, <2>3
<1>14. CASE Prepare(w)
  <2>1. Goto(w, "prepare", "games") /\ control' = control
    BY <1>14 DEF Prepare, SetPhase
  <2>2. BusyPhaseOwned'
    BY <1>14, <2>1, OwnerMoves DEF Prepare, SetPhase
  <2>3. HandleLive'
    BY <2>1, HandleMoves
  <2> QED
    BY <2>2, <2>3
<1>15. CASE QuitFails(w)
  <2>1. Goto(w, "quit", "idle") /\ control' = control
    BY <1>15 DEF QuitFails, SetPhase
  <2>2. BusyPhaseOwned'
    BY <1>15, <2>1, OwnerMoves DEF QuitFails, SetPhase
  <2>3. HandleLive'
    BY <2>1, HandleMoves
  <2> QED
    BY <2>2, <2>3
<1>16. CASE QuitAnswered(w)
  <2>1. Goto(w, "quit", "quitOk") /\ control' = control
    BY <1>16 DEF QuitAnswered
  <2>2. BusyPhaseOwned'
    BY <1>16, <2>1, OwnerMoves DEF QuitAnswered
  <2>3. HandleLive'
    BY <2>1, HandleMoves
  <2> QED
    BY <2>2, <2>3
<1>17. CASE Ready(w)
  <2>1. control' = control
    BY <1>17 DEF Ready, SetPhase
  <2>2. CASE Goto(w, "connected", "computers")
    <3>1. BusyPhaseOwned'
      BY <1>17, <2>2, OwnerMoves DEF Ready, SetPhase, Goto
    <3>2. HandleLive'
      BY <2>1, <2>2, HandleMoves
    <3> QED
      BY <3>1, <3>2
  <2>3. CASE Goto(w, "quitOk", "games")
    <3>1. BusyPhaseOwned'
      BY <1>17, <2>3, OwnerMoves DEF Ready, SetPhase, Goto
    <3>2. HandleLive'
      BY <2>1, <2>3, HandleMoves
    <3> QED
      BY <3>1, <3>2
  <2> QED
    BY <1>17, <2>2, <2>3 DEF Ready, SetPhase
<1>18. CASE GoHome(w)
  <2>1. control' = control
    BY <1>18 DEF GoHome, SetPage
  <2>2. CASE Goto(w, "computers", "idle")
    <3>1. BusyPhaseOwned'
      BY <1>18, <2>2, OwnerMoves DEF GoHome, SetPage, Goto
    <3>2. HandleLive'
      BY <2>1, <2>2, HandleMoves
    <3> QED
      BY <3>1, <3>2
  <2>3. CASE Goto(w, "games", "idle")
    <3>1. BusyPhaseOwned'
      BY <1>18, <2>3, OwnerMoves DEF GoHome, SetPage, Goto
    <3>2. HandleLive'
      BY <2>1, <2>3, HandleMoves
    <3> QED
      BY <3>1, <3>2
  <2> QED
    BY <1>18, <2>2, <2>3 DEF GoHome, SetPage
<1>19. CASE JudgeOk(w)
  <2>1. control' = control /\ phase' = phase
    BY <1>19 DEF JudgeOk
  <2>2. CASE phase = "Streaming"
    <3>1. Goto(w, "judgeOk", "prepare")
      BY <1>19, <2>2 DEF JudgeOk
    <3> QED
      BY <2>1, <2>2, <3>1, OwnerMoves, HandleMoves
  <2>3. CASE phase # "Streaming"
    <3>1. Goto(w, "judgeOk", "idle")
      BY <1>19, <2>3 DEF JudgeOk
    <3> QED
      BY <2>1, <2>3, <3>1, OwnerMoves, HandleMoves
  <2> QED
    BY <2>2, <2>3
<1>20. CASE PublishHandle(w)
  <2>1. Goto(w, "bringUp", "announce") /\ control' = w /\ phase' = phase
    BY <1>20 DEF PublishHandle
  <2>2. pc'[w] = "announce"
    BY <2>1, GotoFact DEF IInv
  <2>3. HandleLive'
    BY <2>1, <2>2 DEF HandleLive
  <2>4. BusyPhaseOwned'
    BY <2>1, OwnerMoves
  <2> QED
    BY <2>3, <2>4
<1>21. CASE DropHandle(w)
  <2>1. HandleLive'
    BY <1>21 DEF DropHandle, HandleLive
  <2>2. phase' = phase
    BY <1>21 DEF DropHandle
  <2>3. CASE Goto(w, "dropOk", "judgeOk")
    BY <2>1, <2>2, <2>3, OwnerMoves
  <2>4. CASE Goto(w, "dropErr", "judgeErr")
    BY <2>1, <2>2, <2>4, OwnerMoves
  <2> QED
    BY <1>21, <2>3, <2>4 DEF DropHandle
<1> QED
  BY <1>1, <1>2, <1>3, <1>4, <1>5, <1>6, <1>7, <1>8, <1>9, <1>10, <1>11,
     <1>12, <1>13, <1>14, <1>15, <1>16, <1>17, <1>18, <1>19, <1>20, <1>21 DEF WorkerStep

LEMMA NextPreserves == ASSUME IInv, [Next]_vars PROVE IInv'
<1>p. patient' \in BOOLEAN
  BY DEF Next, vars, IInv, TypeOK
<1>1. CASE UiStep
  BY <1>p, <1>1, UiPreserves
<1>2. ASSUME NEW w \in Worker,
             WorkerStep(w) \/ WaitForPin(w) \/ PairingStage(w) \/ EndStream(w)
      PROVE  IInv'
  BY <1>p, <1>2, WorkerPreserves
<1>3. CASE UNCHANGED vars
  BY <1>3 DEF vars, ui, core, IInv, TypeOK, BusyPhaseOwned, HandleLive, At
<1> QED
  BY <1>1, <1>2, <1>3 DEF Next, PatientNext, UiStep

LEMMA IInvHolds == Spec => []IInv
BY InitIInv, NextPreserves, PTL DEF Spec

-----------------------------------------------------------------------------
(* Phase, page, handle and the workers' places keep their types, whatever  *)
(* operations overlap.                                                     *)
THEOREM TypeCorrect == Spec => []TypeOK
<1>1. IInv => TypeOK
  BY DEF IInv
<1> QED
  BY IInvHolds, <1>1, PTL

(* However many operations overlap, a phase that makes the UI refuse       *)
(* clicks always has a worker that will replace it.                        *)
THEOREM UiNeverLocked == Spec => []BusyPhaseOwned
<1>1. IInv => BusyPhaseOwned
  BY DEF IInv
<1> QED
  BY IInvHolds, <1>1, PTL

(* The published stream handle is never that of a worker that has cleaned  *)
(* up.                                                                     *)
THEOREM HandleSafe == Spec => []HandleLive
<1>1. IInv => HandleLive
  BY DEF IInv
<1> QED
  BY IInvHolds, <1>1, PTL

-----------------------------------------------------------------------------
(* A patient user has one worker at most on its way to or from a stream,   *)
(* so that nobody else takes its handle away.                              *)
StreamBound == StartPoints \cup StreamPoints
Alone ==
  \A u, w \in Worker : pc[u] \in StreamBound /\ pc[w] \in StreamBound => u = w
Handled ==
  \A w \in Worker : pc[w] \in {"announce", "show", "consume"} => control = w \/ w \in stopped
PInv == IInv /\ (patient => Alone /\ Handled)

(* Whoever is still patient after a step took one that patience allows.    *)
LEMMA PatientSteps ==
  ASSUME TypeOK, [Next]_vars, patient'
  PROVE  patient /\ (PatientNext \/ UNCHANGED vars)
BY DEF Next, vars, TypeOK

LEMMA AlonePreserved ==
  ASSUME TypeOK, Alone, PatientNext \/ UNCHANGED vars
  PROVE  Alone'
<1> USE DEF TypeOK, Alone, StreamBound, StartPoints, StreamPoints, ConnectPoints, QuitPoints
<1>1. CASE StartApplication /\ Quiet
  BY <1>1 DEF StartApplication, Spawn, Quiet
<1>2. CASE Connect \/ CancelHostApplication
  BY <1>2 DEF Connect, CancelHostApplication, Spawn
<1>3. CASE pc' = pc
  BY <1>3
<1>4. ASSUME NEW w \in Worker, WorkerStep(w) \/ WaitForPin(w) \/ PairingStage(w) \/ EndStream(w)
      PROVE  Alone'
  <2>1. PICK to \in Points :
          /\ pc' = [pc EXCEPT ![w] = to]
          /\ to \in StreamBound => pc[w] \in StreamBound
    BY <1>4
       DEF Points, WorkerStep, WaitForPin, PairingStage, EndStream, FetchServerInfo, PublishHost,
           ConnectFails, SessionGranted, SessionRefused, ClaimCore, BringUpFails, PublishHandle,
           Announce, ShowStream, DropHandle, JudgeOk, JudgeErr, Prepare, QuitFails,
           QuitAnswered, Ready, GoHome, SetPhase, SetPage, Goto
  <2> QED
    BY <2>1
<1> QED
  BY <1>1, <1>2, <1>3, <1>4
     DEF PatientNext, SetOut, vars, ConnectNowhere, StopStream, Shutdown, Navigate

LEMMA HandledPreserved ==
  ASSUME TypeOK, Alone, Handled, PatientNext \/ UNCHANGED vars
  PROVE  Handled'
<1> USE DEF TypeOK, Handled
<1>1. CASE ConnectNowhere \/ Navigate \/ UNCHANGED vars
  BY <1>1 DEF ConnectNowhere, Navigate, ui, core, vars
<1>2. CASE Connect \/ StartApplication
  BY <1>2 DEF Connect, StartApplication, Spawn, ui, core
<1>3. CASE CancelHostApplication \/ StopStream \/ Shutdown
  BY <1>3 DEF CancelHostApplication, StopStream, Shutdown, Spawn, RequestStop
<1>4. ASSUME NEW w \in Worker, WorkerStep(w) \/ WaitForPin(w) \/ PairingStage(w) \/ EndStream(w)
      PROVE  Handled'
  <2>1. CASE ClaimCore(w)
    BY <2>1 DEF ClaimCore, Goto, ui
  <2>2. CASE PublishHandle(w)
    <3>1. \A u \in Worker \ {w} : pc[u] \notin {"announce", "show", "consume"}
      BY <2>2 DEF PublishHandle, Goto, Alone, StreamBound, StartPoints, StreamPoints
    <3> QED
      BY <2>2, <3>1 DEF PublishHandle, Goto
  <2>3. CASE DropHandle(w)
    <3>1. \A u \in Worker \ {w} : pc[u] \notin {"announce", "show", "consume"}
      BY <2>3 DEF DropHandle, Goto, Alone, StreamBound, StartPoints, StreamPoints
    <3> QED
      BY <2>3, <3>1 DEF DropHandle, Goto
  <2>4. CASE Announce(w) \/ ShowStream(w) \/ EndStream(w)
    BY <2>4 DEF Announce, ShowStream, EndStream, SetPhase, SetPage, Goto, ui, core
  <2>5. CASE ~(ClaimCore(w) \/ PublishHandle(w) \/ DropHandle(w)
                \/ Announce(w) \/ ShowStream(w) \/ EndStream(w))
    <3>1. /\ UNCHANGED <<control, stopped>>
          /\ \E to \in Points \ {"announce", "show", "consume"} : pc' = [pc EXCEPT ![w] = to]
      BY <1>4, <2>5
         DEF Points, WorkerStep, WaitForPin, PairingStage, FetchServerInfo, PublishHost,
             ConnectFails, SessionGranted, SessionRefused, BringUpFails, JudgeOk, JudgeErr,
             Prepare, QuitFails, QuitAnswered, Ready, GoHome, SetPhase, SetPage, Goto, ui, core,
             ConnectPoints, StartPoints, StreamPoints, QuitPoints
    <3> QED
      BY <3>1
  <2> QED
    BY <2>1, <2>2, <2>3, <2>4, <2>5
<1> QED
  BY <1>1, <1>2, <1>3, <1>4 DEF PatientNext, SetOut

(* For any number of workers, a user who waits for one operation before    *)
(* starting the next can stop every stream.                                *)
THEOREM PatientStops == Spec => []PatientCanStop
<1>1. Init => PInv
  BY InitIInv DEF PInv, Init, Alone, Handled, StreamBound, StartPoints, StreamPoints
<1>2. ASSUME PInv, [Next]_vars
      PROVE  PInv'
  <2>1. TypeOK
    BY <1>2 DEF PInv, IInv
  <2>2. CASE patient'
    <3>1. patient /\ (PatientNext \/ UNCHANGED vars)
      BY <1>2, <2>1, <2>2, PatientSteps
    <3>2. Alone /\ Handled
      BY <1>2, <3>1 DEF PInv
    <3>3. Alone' /\ Handled'
      BY <2>1, <3>1, <3>2, AlonePreserved, HandledPreserved
    <3> QED
      BY <1>2, <3>3, NextPreserves DEF PInv
  <2>3. CASE ~patient'
    BY <1>2, <2>3, NextPreserves DEF PInv
  <2> QED
    BY <2>2, <2>3
<1>3. PInv => PatientCanStop
  BY DEF PInv, Handled, PatientCanStop, StreamCanBeStopped
<1> QED
  BY <1>1, <1>2, <1>3, PTL DEF Spec

-----------------------------------------------------------------------------
(***************************************************************************)
(* The transport core.  That one variable stands for it here, where module *)
(* Connection has a dozen, is sound as long as workers take it and give it *)
(* back the way Connection is proved to hand it out: as a mutex.           *)
(***************************************************************************)
CoreLease == INSTANCE Mutex WITH Thread <- Worker, Nobody <- NoWorker, holder <- active

(* A worker has the core from its claim until its stream ends or fails to  *)
(* come up.                                                                *)
CorePoints == {"bringUp", "announce", "show", "consume"}
LeaseInv == \A w \in Worker : active = w <=> pc[w] \in CorePoints

(* Where a step may lead a worker that neither takes nor returns the core. *)
LEMMA CoreKept ==
  ASSUME IInv, LeaseInv, [Next]_vars,
         \A w \in Worker : ~ClaimCore(w) /\ ~BringUpFails(w) /\ ~EndStream(w)
  PROVE  UNCHANGED active /\ LeaseInv'
<1> USE DEF LeaseInv, CorePoints
<1>a. TypeOK
  BY DEF IInv
<1>1. CASE Connect \/ StartApplication \/ CancelHostApplication
  <2>1. UNCHANGED active
    BY <1>1 DEF Connect, StartApplication, CancelHostApplication, core
  <2>2. PICK p \in {"query", "request", "quit"} : Spawn(p)
    BY <1>1 DEF Connect, StartApplication, CancelHostApplication
  <2> QED
    BY <1>a, <2>1, <2>2 DEF Spawn, TypeOK
<1>2. CASE ConnectNowhere \/ StopStream \/ Shutdown \/ Navigate \/ UNCHANGED vars
  BY <1>2 DEF ConnectNowhere, StopStream, Shutdown, Navigate, vars, core
<1>3. ASSUME NEW w \in Worker, WorkerStep(w) \/ WaitForPin(w) \/ PairingStage(w)
      PROVE  UNCHANGED active /\ LeaseInv'
  <2>1. UNCHANGED active
    BY <1>3
       DEF WorkerStep, WaitForPin, PairingStage, FetchServerInfo, PublishHost,
           ConnectFails, SessionGranted, SessionRefused, PublishHandle, Announce,
           ShowStream, DropHandle, JudgeOk, JudgeErr, Prepare, QuitFails, QuitAnswered,
           Ready, GoHome, SetPhase, SetPage, core
  <2>2. PICK to \in Points :
          /\ pc' = [pc EXCEPT ![w] = to]
          /\ to \in CorePoints <=> pc[w] \in CorePoints
    BY <1>3
       DEF Points, ConnectPoints, StartPoints, StreamPoints, QuitPoints, WorkerStep,
           WaitForPin, PairingStage, FetchServerInfo, PublishHost, ConnectFails,
           SessionGranted, SessionRefused, PublishHandle, Announce, ShowStream,
           DropHandle, JudgeOk, JudgeErr, Prepare, QuitFails, QuitAnswered, Ready,
           GoHome, SetPhase, SetPage, Goto
  <2> QED
    BY <1>a, <2>1, <2>2 DEF TypeOK
<1> QED
  BY <1>1, <1>2, <1>3 DEF Next, PatientNext, SetOut

(* A claim acquires the core, the end of a stream or of an attempt to      *)
(* bring one up releases it.                                               *)
LEMMA CoreChangesHands ==
  ASSUME IInv, LeaseInv, NEW w \in Worker, ClaimCore(w) \/ BringUpFails(w) \/ EndStream(w)
  PROVE  /\ UNCHANGED active \/ CoreLease!Acquire(w) \/ CoreLease!Release(w)
         /\ LeaseInv'
<1> USE WorkerAssumption
        DEF LeaseInv, CorePoints, IInv, TypeOK, Goto, CoreLease!Acquire, CoreLease!Release
<1>1. CASE ClaimCore(w)
  BY <1>1 DEF ClaimCore
<1>2. CASE BringUpFails(w)
  BY <1>2 DEF BringUpFails
<1>3. CASE EndStream(w)
  BY <1>3 DEF EndStream
<1> QED
  BY <1>1, <1>2, <1>3

(* However many workers there are and whatever they overlap, the core is   *)
(* claimed only while nobody has it and given up only by the worker that   *)
(* has it: the workers use it as Connection allows.                        *)
THEOREM CoreIsLeased == Spec => CoreLease!Spec
<1>1. Init => CoreLease!Init /\ LeaseInv
  BY WorkerAssumption DEF Init, CoreLease!Init, LeaseInv, CorePoints
<1>2. ASSUME IInv, LeaseInv, [Next]_vars
      PROVE  [CoreLease!Next]_active /\ LeaseInv'
  BY <1>2, CoreKept, CoreChangesHands DEF CoreLease!Next
<1> QED
  BY IInvHolds, <1>1, <1>2, PTL DEF Spec, CoreLease!Spec

=============================================================================
