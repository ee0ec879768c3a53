---------------------------- MODULE NetworkProofs ----------------------------
(***************************************************************************)
(* The server of 4_sem/Network, for any number of workers, machines and    *)
(* threads and whatever fails, comes late or crashes: the tasks tile the   *)
(* interval, a printed result has every task's part, and no task is given  *)
(* unless every task has its worker.                                       *)
(***************************************************************************)
EXTENDS Network, TLAPS

(* A connection is accepted once, only while get_tcp_connections runs, and *)
(* after it gave up none is open.                                          *)
Ends ==
  /\ \A w \in Worker : worker[w] \in {"off", "recvfrom", "connect"} => end[w] = "none"
  /\ getter \in {"none", "socket"} => \A w \in Worker : end[w] = "none"
  /\ getter = "done" /\ Len(conn) # Size => \A w \in Worker : end[w] # "open"

Conns ==
  /\ \A i \in 1..Len(conn) : end[conn[i]] \in {"open", "closed"}
  /\ \A i, j \in 1..Len(conn) : conn[i] = conn[j] => i = j

Handlers ==
  /\ main \in {"divide_work", "create_getter"} => getter = "none"
  /\ main \in {"get_result", "join"} => getter = "done"
  /\ \A i \in Task : /\ handler[i] # "none" => getter = "done"
                     /\ handler[i] = "recv" => i \in 1..Len(conn)
                     /\ handler[i] = "part" => part[i] = i

(* A worker's task is the one its connection was accepted for, and it      *)
(* answers that task.                                                      *)
Given ==
  \A w \in Worker :
    /\ given[w] # NoTask => /\ getter = "done"
                            /\ Len(conn) = Size
                            /\ given[w] \in 1..Len(conn)
                            /\ conn[given[w]] = w
    /\ answer[w] \in {NoTask, given[w]}

Sums ==
  /\ \A k \in 1..Len(sum) : sum[k] = k
  /\ outcome = "printed" => Len(sum) = Size /\ Size # 0

NetInv == TypeOK /\ Ends /\ Conns /\ Handlers /\ Given /\ Sums

-----------------------------------------------------------------------------
(* The tasks tile the interval. *)

LEMMA SizeFacts ==
  /\ Size \in Nat /\ Machines \in Nat /\ Threads \in Nat /\ Size <= Threads
  /\ MaxCrashes \in Nat
BY NetworkAssumption DEF Size

LEMMA Monotone ==
  ASSUME NEW a \in Int, NEW b \in Int, NEW n \in Nat, a <= b
  PROVE  a * n <= b * n
<1>1. (b - a) * n = b * n - a * n
  OBVIOUS
<1>2. (b - a) * n >= 0
  OBVIOUS
<1>3. QED
  BY <1>1, <1>2

LEMMA Share ==
  ASSUME Size # 0
  PROVE  Threads \div Size \in Nat \ {0} /\ Size * (Threads \div Size) <= Threads
<1> DEFINE n == Threads \div Size
<1>1. n \in Int /\ Threads = Size * n + (Threads % Size) /\ Threads % Size \in 0..(Size - 1)
  BY SizeFacts
<1>2. n >= 1
  <2> SUFFICES ASSUME n <= 0 PROVE FALSE
    BY <1>1
  <2>1. Size * n <= 0
    BY <1>1, SizeFacts
  <2>2. QED
    BY <1>1, <2>1, SizeFacts
<1>3. QED
  BY <1>1, <1>2, SizeFacts

(* divide_work: every unit of the interval is in one task and in no other. *)
THEOREM TasksTile ==
  ASSUME Size # 0
  PROVE  \A u \in 0..(Threads - 1) :
           \E i \in Task : u \in Units(i) /\ \A j \in Task : u \in Units(j) => j = i
<1> DEFINE n == Threads \div Size
<1>1. n \in Nat \ {0} /\ Size * n <= Threads
  BY Share
<1>2. ASSUME NEW i \in Task
      PROVE  /\ TaskBegin(i) = (i - 1) * n
             /\ TaskEnd(i) = IF i < Size THEN i * n ELSE Threads
             /\ TaskBegin(i) \in Int /\ TaskEnd(i) \in Int
  <2>1. i \in Int /\ (i - 1) * n + n = i * n
    BY <1>1, SizeFacts DEF Task
  <2>2. QED
    BY <1>1, <2>1, SizeFacts DEF TaskBegin, TaskEnd, TaskThreads
<1>3. ASSUME NEW i \in Task, NEW j \in Task, i < j
      PROVE  TaskEnd(i) <= TaskBegin(j)
  <2>1. i \in Int /\ j \in Int /\ i <= j - 1 /\ i < Size
    BY <1>3, SizeFacts DEF Task
  <2>2. i * n <= (j - 1) * n
    BY <1>1, <2>1, Monotone
  <2>3. QED
    BY <1>2, <2>1, <2>2
<1> SUFFICES ASSUME NEW u \in 0..(Threads - 1)
             PROVE  \E i \in Task : u \in Units(i) /\ \A j \in Task : u \in Units(j) => j = i
  OBVIOUS
<1>4. \E i \in Task : u \in Units(i)
  <2>1. CASE (Size - 1) * n <= u
    <3>1. Size \in Task
      BY SizeFacts DEF Task
    <3>2. TaskBegin(Size) = (Size - 1) * n /\ TaskEnd(Size) = Threads
      BY <1>2, <3>1, SizeFacts
    <3>3. u \in Units(Size)
      BY <1>1, <2>1, <3>2, SizeFacts DEF Units
    <3>4. QED
      BY <3>1, <3>3
  <2>2. CASE ~ ((Size - 1) * n <= u)
    <3> DEFINE q == u \div n
    <3>1. u \in Nat /\ q \in Nat /\ q * n <= u /\ u < (q + 1) * n
      BY <1>1, SizeFacts
    <3>2. q + 1 < Size
      <4> SUFFICES ASSUME Size - 1 <= q PROVE FALSE
        BY <3>1, SizeFacts
      <4>1. (Size - 1) * n <= q * n
        BY <1>1, <3>1, Monotone, SizeFacts
      <4>2. QED
        BY <1>1, <2>2, <3>1, <4>1, SizeFacts
    <3>3. q + 1 \in Task
      BY <3>1, <3>2, SizeFacts DEF Task
    <3>4. TaskBegin(q + 1) = q * n /\ TaskEnd(q + 1) = (q + 1) * n
      BY <1>2, <3>1, <3>2, <3>3
    <3>5. u \in Units(q + 1)
      BY <1>1, <3>1, <3>4 DEF Units
    <3>6. QED
      BY <3>3, <3>5
  <2>3. QED
    BY <2>1, <2>2
<1>5. ASSUME NEW i \in Task, NEW j \in Task, u \in Units(i), u \in Units(j)
      PROVE  j = i
  <2>1. /\ i \in Int /\ j \in Int
        /\ TaskBegin(i) <= u /\ u < TaskEnd(i)
        /\ TaskBegin(j) <= u /\ u < TaskEnd(j)
    BY <1>2, <1>5, SizeFacts DEF Units, Task
  <2>2. ~ (i < j) /\ ~ (j < i)
    BY <1>2, <1>3, <2>1
  <2>3. QED
    BY <2>1, <2>2
<1>6. QED
  BY <1>4, <1>5

-----------------------------------------------------------------------------
(* The invariant. *)

LEMMA NetInit == Init => NetInv
<1> SUFFICES ASSUME Init PROVE NetInv
  OBVIOUS
<1>1. conn = <<>> /\ sum = <<>> /\ conn \in Seq(Worker) /\ sum \in Seq(Task)
  BY DEF Init
<1>2. Len(conn) = 0 /\ Len(sum) = 0
  BY <1>1
<1>3. TypeOK
  BY <1>1, <1>2, SizeFacts DEF Init, TypeOK
<1>4. Ends /\ Conns /\ Handlers /\ Given /\ Sums
  BY <1>2 DEF Init, Ends, Conns, Handlers, Given, Sums
<1>5. QED
  BY <1>3, <1>4 DEF NetInv

LEMMA TypeStep == NetInv /\ [Next]_vars => TypeOK'
<1> SUFFICES ASSUME NetInv, [Next]_vars PROVE TypeOK'
  OBVIOUS
<1> USE SizeFacts DEF NetInv, TypeOK
<1>1. CASE DivideWork
  BY <1>1 DEF DivideWork, MainFails, net
<1>2. CASE CreateGetter
  BY <1>2 DEF CreateGetter, MainFails, net
<1>3. CASE CreateSender
  BY <1>3 DEF CreateSender, MainFails, net
<1>4. CASE JoinGetter
  BY <1>4 DEF JoinGetter, net
<1>5. CASE Exit
  BY <1>5 DEF Exit, Close
<1>6. ASSUME NEW i \in Task, CreateHandler(i) PROVE TypeOK'
  BY <1>6 DEF CreateHandler, MainFails, net
<1>7. ASSUME NEW i \in Task, Join(i) PROVE TypeOK'
  <2>1. sum' \in Seq(Task) /\ Len(sum') <= Size
    <3>1. CASE handler[i] = "part"
      <4>1. part[i] \in Task /\ Len(sum) < Size
        BY <1>7, <3>1 DEF Join, Handlers, Task
      <4>2. sum' = Append(sum, part[i])
        BY <1>7, <3>1 DEF Join
      <4>3. QED
        BY <4>1, <4>2
    <3>2. CASE handler[i] # "part"
      BY <1>7, <3>2 DEF Join
    <3>3. QED
      BY <3>1, <3>2
  <2>2. /\ main' \in {"join", "exit"} /\ outcome' \in {"none", "printed", "failed"}
        /\ UNCHANGED <<getter, sender, handler, conn, part, net, worker, status, crashes, trouble>>
    BY <1>7 DEF Join, MainFails
  <2>3. QED
    BY <2>1, <2>2 DEF net
<1>8. CASE Listen
  BY <1>8 DEF Listen, net
<1>9. CASE AllAccepted
  BY <1>9 DEF AllAccepted, Close
<1>10. CASE GiveUp
  BY <1>10 DEF GiveUp, Close
<1>11. ASSUME NEW w \in Worker, Accept(w) PROVE TypeOK'
  <2>1. conn' \in Seq(Worker) /\ Len(conn') <= Size
    BY <1>11 DEF Accept
  <2>2. end' \in [Worker -> {"none", "backlog", "open", "closed"}]
    BY <1>11 DEF Accept
  <2>3. QED
    BY <1>11, <2>1, <2>2 DEF Accept
<1>12. CASE SenderCancelled
  BY <1>12 DEF SenderCancelled
<1>13. CASE SendHelloError
  BY <1>13 DEF SendHelloError, net
<1>14. ASSUME NEW w \in Worker, SendHello(w) PROVE TypeOK'
  BY <1>14 DEF SendHello, server
<1>15. ASSUME NEW i \in Task, HandlerSend(i) PROVE TypeOK'
  <2>1. given' \in [Worker -> Task \cup {NoTask}]
    BY <1>15 DEF HandlerSend
  <2>2. handler' \in [Task -> {"none", "send", "recv", "part", "null"}]
    BY <1>15 DEF HandlerSend
  <2>3. QED
    BY <1>15, <2>1, <2>2 DEF HandlerSend
<1>16. ASSUME NEW i \in Task, HandlerRecv(i) PROVE TypeOK'
  <2>1. conn[i] \in Worker
    BY <1>16 DEF HandlerRecv, Handlers
  <2>2. answer[conn[i]] \in Task \cup {NoTask}
    BY <2>1
  <2>3. part' \in [Task -> Task \cup {NoTask}]
    BY <1>16, <2>2 DEF HandlerRecv
  <2>4. handler' \in [Task -> {"none", "send", "recv", "part", "null"}]
    BY <1>16 DEF HandlerRecv
  <2>5. QED
    BY <1>16, <2>3, <2>4 DEF HandlerRecv, net
<1>17. ASSUME NEW w \in Worker, StartWorker(w) \/ GetHello(w) \/ HelloTimeout(w) PROVE TypeOK'
  <2>1. UNCHANGED <<server, net, crashes, trouble>>
    BY <1>17 DEF StartWorker, GetHello, HelloTimeout
  <2>2. /\ worker' \in [Worker -> {"off", "recvfrom", "connect", "recv", "Integrate",
                                  "send_res", "send_ping", "done"}]
        /\ status' \in [Worker -> {"none", "success", "failure", "refused"}]
    BY <1>17 DEF StartWorker, GetHello, HelloTimeout, WorkerGoes, WorkerEnds
  <2>3. QED
    BY <2>1, <2>2 DEF server, net
<1>18. ASSUME NEW w \in Worker, Connect(w) PROVE TypeOK'
  BY <1>18 DEF Connect, WorkerGoes, WorkerEnds, server
<1>19. ASSUME NEW w \in Worker, RecvTask(w) \/ Integrate(w) PROVE TypeOK'
  BY <1>19 DEF RecvTask, Integrate, WorkerGoes, WorkerEnds, server, net
<1>20. ASSUME NEW w \in Worker, SendRes(w) PROVE TypeOK'
  <2>1. UNCHANGED <<server, end, hello, given, crashes, trouble>>
    BY <1>20 DEF SendRes
  <2>2. answer' \in [Worker -> Task \cup {NoTask}]
    BY <1>20 DEF SendRes
  <2>3. /\ worker' \in [Worker -> {"off", "recvfrom", "connect", "recv", "Integrate",
                                  "send_res", "send_ping", "done"}]
        /\ status' \in [Worker -> {"none", "success", "failure", "refused"}]
    BY <1>20 DEF SendRes, WorkerGoes, WorkerEnds
  <2>4. QED
    BY <2>1, <2>2, <2>3 DEF server
<1>21. ASSUME NEW w \in Worker, SendPing(w) PROVE TypeOK'
  BY <1>21 DEF SendPing, WorkerGoes, WorkerEnds, server, net
<1>22. ASSUME NEW w \in Worker, Crash(w) PROVE TypeOK'
  BY <1>22 DEF Crash, WorkerEnds, server
<1>23. CASE UNCHANGED vars
  BY <1>23 DEF vars, server, net
<1>24. QED
  BY <1>1, <1>2, <1>3, <1>4, <1>5, <1>6, <1>7, <1>8, <1>9, <1>10, <1>11, <1>12, <1>13,
     <1>14, <1>15, <1>16, <1>17, <1>18, <1>19, <1>20, <1>21, <1>22, <1>23
     DEF Next, Main, Getter, AcceptTimeout, AcceptError, Handler, WorkerStep

(* Which steps change a connection, and how. *)
LEMMA EndsStep == NetInv /\ [Next]_vars => Ends' /\ Conns'
<1> SUFFICES ASSUME NetInv, [Next]_vars PROVE Ends' /\ Conns'
  OBVIOUS
<1> USE SizeFacts DEF NetInv
<1>1. ASSUME UNCHANGED <<end, conn, worker>>, getter' = getter PROVE Ends' /\ Conns'
  BY <1>1 DEF Ends, Conns
<1>2. CASE DivideWork \/ CreateSender \/ JoinGetter \/ SenderCancelled \/ SendHelloError
           \/ UNCHANGED vars
  BY <1>1, <1>2 DEF DivideWork, CreateSender, JoinGetter, SenderCancelled,
     SendHelloError, net, vars, server
<1>3. ASSUME NEW i \in Task, CreateHandler(i) \/ Join(i) \/ HandlerSend(i) \/ HandlerRecv(i)
      PROVE  Ends' /\ Conns'
  BY <1>1, <1>3 DEF CreateHandler, Join, HandlerSend, HandlerRecv, net
<1>4. ASSUME NEW w \in Worker, SendHello(w) PROVE Ends' /\ Conns'
  BY <1>1, <1>4 DEF SendHello, server
<1>5. CASE CreateGetter
  BY <1>5 DEF CreateGetter, Handlers, Ends, Conns, net
<1>6. CASE Exit
  <2>1. /\ \A w \in Worker : end'[w] = IF end[w] \in {"backlog", "open"} THEN "closed" ELSE end[w]
        /\ UNCHANGED <<getter, conn, worker>>
    BY <1>6 DEF Exit, Close
  <2>2. \A i \in 1..Len(conn) : conn[i] \in Worker
    BY DEF TypeOK
  <2>3. QED
    BY <2>1, <2>2 DEF Ends, Conns
<1>7. CASE Listen
  <2>1. CASE getter' = "accept"
    BY <1>7, <2>1 DEF Listen, Ends, Conns, net
  <2>2. CASE getter' = "done"
    BY <1>7, <2>2 DEF Listen, Ends, Conns, net
  <2>3. QED
    BY <1>7, <2>1, <2>2 DEF Listen
<1>8. CASE AllAccepted
  <2>1. /\ \A w \in Worker : end'[w] = IF end[w] = "backlog" THEN "closed" ELSE end[w]
        /\ Len(conn) = Size /\ getter' = "done" /\ UNCHANGED <<conn, worker>>
    BY <1>8 DEF AllAccepted, Close
  <2>2. \A i \in 1..Len(conn) : conn[i] \in Worker
    BY DEF TypeOK
  <2>3. QED
    BY <2>1, <2>2 DEF Ends, Conns
<1>9. CASE GiveUp
  <2>1. /\ \A w \in Worker : end'[w] = IF end[w] \in {"backlog", "open"} THEN "closed" ELSE end[w]
        /\ getter' = "done" /\ UNCHANGED <<conn, worker>>
    BY <1>9 DEF GiveUp, Close
  <2>2. \A i \in 1..Len(conn) : conn[i] \in Worker
    BY DEF TypeOK
  <2>3. QED
    BY <2>1, <2>2 DEF Ends, Conns
<1>10. ASSUME NEW w \in Worker, Accept(w) PROVE Ends' /\ Conns'
  <2>1. /\ conn' = Append(conn, w) /\ conn \in Seq(Worker) /\ getter = "accept"
        /\ end[w] = "backlog" /\ end' = [end EXCEPT ![w] = "open"]
        /\ UNCHANGED <<getter, worker>> /\ end \in [Worker -> {"none", "backlog", "open", "closed"}]
    BY <1>10 DEF Accept, TypeOK
  <2>2. Ends'
    BY <2>1 DEF Ends
  <2>3. \A i \in 1..Len(conn) : conn[i] \in Worker /\ conn[i] # w
    BY <2>1 DEF Conns
  <2>4. /\ Len(conn') = Len(conn) + 1 /\ Len(conn) \in Nat /\ conn'[Len(conn) + 1] = w
        /\ \A i \in 1..Len(conn) : conn'[i] = conn[i]
    BY <2>1
  <2>5. \A i \in 1..Len(conn') : i \in 1..Len(conn) \/ i = Len(conn) + 1
    BY <2>4
  <2>6. Conns'
    BY <2>1, <2>3, <2>4, <2>5 DEF Conns
  <2>7. QED
    BY <2>2, <2>6
<1>11. ASSUME NEW w \in Worker, Connect(w) PROVE Ends' /\ Conns'
  <2>1. /\ worker[w] = "connect" /\ end[w] = "none"
        /\ end \in [Worker -> {"none", "backlog", "open", "closed"}]
        /\ \A v \in Worker \ {w} : worker'[v] = worker[v]
        /\ worker'[w] \in {"recv", "done"} /\ UNCHANGED <<getter, conn>>
    BY <1>11 DEF Connect, WorkerGoes, WorkerEnds, server, Ends, TypeOK
  <2>2. \/ UNCHANGED end
        \/ (getter = "accept" /\ end' = [end EXCEPT ![w] = "backlog"])
    BY <1>11 DEF Connect
  <2>3. \A i \in 1..Len(conn) : conn[i] \in Worker /\ conn[i] # w
    BY <2>1 DEF Conns, TypeOK
  <2>4. Ends'
    BY <2>1, <2>2 DEF Ends
  <2>5. Conns'
    BY <2>1, <2>2, <2>3 DEF Conns
  <2>6. QED
    BY <2>4, <2>5
<1>12. ASSUME NEW w \in Worker,
              \/ StartWorker(w) \/ GetHello(w) \/ HelloTimeout(w) \/ RecvTask(w)
              \/ Integrate(w) \/ SendRes(w) \/ SendPing(w) \/ Crash(w)
       PROVE  Ends' /\ Conns'
  <2>1. UNCHANGED <<getter, conn, end>>
    BY <1>12 DEF StartWorker, GetHello, HelloTimeout, RecvTask, Integrate, SendRes,
       SendPing, Crash, server, net
  <2>2. /\ \A v \in Worker \ {w} : worker'[v] = worker[v]
        /\ worker'[w] \in {"off", "recvfrom", "connect"}
             => worker[w] \in {"off", "recvfrom", "connect"}
    BY <1>12 DEF StartWorker, GetHello, HelloTimeout, RecvTask, Integrate, SendRes,
       SendPing, Crash, WorkerGoes, WorkerEnds, TypeOK
  <2>3. QED
    BY <2>1, <2>2 DEF Ends, Conns
<1>13. QED
  BY <1>2, <1>3, <1>4, <1>5, <1>6, <1>7, <1>8, <1>9, <1>10, <1>11, <1>12
     DEF Next, Main, Getter, AcceptTimeout, AcceptError, Handler, WorkerStep

(* The getter's end, and the connections it leaves, are final.             *)
LEMMA GetterStep ==
  NetInv /\ [Next]_vars =>
    /\ getter = "done" => UNCHANGED <<getter, conn>>
    /\ Len(conn) <= Len(conn') /\ \A i \in 1..Len(conn) : conn'[i] = conn[i]
<1> SUFFICES ASSUME NetInv, [Next]_vars
             PROVE  /\ getter = "done" => UNCHANGED <<getter, conn>>
                    /\ Len(conn) <= Len(conn') /\ \A i \in 1..Len(conn) : conn'[i] = conn[i]
  OBVIOUS
<1>1. conn \in Seq(Worker) /\ Len(conn) \in Nat
  BY DEF NetInv, TypeOK
<1>2. CASE UNCHANGED <<getter, conn>>
  BY <1>1, <1>2
<1>3. CASE CreateGetter \/ Listen \/ AllAccepted \/ GiveUp
  BY <1>1, <1>3 DEF CreateGetter, Listen, AllAccepted, GiveUp, NetInv, Handlers
<1>4. ASSUME NEW w \in Worker, Accept(w)
      PROVE  /\ getter = "done" => UNCHANGED <<getter, conn>>
             /\ Len(conn) <= Len(conn') /\ \A i \in 1..Len(conn) : conn'[i] = conn[i]
  BY <1>1, <1>4 DEF Accept
<1>5. \/ UNCHANGED <<getter, conn>>
      \/ CreateGetter \/ Listen \/ AllAccepted \/ GiveUp
      \/ \E w \in Worker : Accept(w)
  BY DEF Next, Main, Getter, AcceptTimeout, AcceptError, Handler, WorkerStep, DivideWork,
     CreateSender, JoinGetter, Exit, CreateHandler, Join, SenderCancelled, SendHelloError,
     SendHello, HandlerSend, HandlerRecv, StartWorker, GetHello, HelloTimeout, Connect,
     RecvTask, Integrate, SendRes, SendPing, Crash, vars, server
<1>6. QED
  BY <1>2, <1>3, <1>4, <1>5

LEMMA HandlersStep == NetInv /\ [Next]_vars => Handlers'
<1> SUFFICES ASSUME NetInv, [Next]_vars PROVE Handlers'
  OBVIOUS
<1>1. /\ getter = "done" => getter' = "done"
      /\ \A i \in 1..Len(conn) : i \in 1..Len(conn')
      /\ conn \in Seq(Worker) /\ Len(conn) \in Nat /\ Len(conn') \in Nat
      /\ Handlers
  <2>1. conn' \in Seq(Worker)
    BY TypeStep DEF TypeOK
  <2>2. QED
    BY <2>1, GetterStep DEF NetInv, TypeOK
<1>2. ASSUME UNCHANGED <<main, handler, part>>,
             main \in {"divide_work", "create_getter"} => getter' = getter
      PROVE  Handlers'
  BY <1>1, <1>2 DEF Handlers
<1>3. CASE SenderCancelled \/ SendHelloError \/ UNCHANGED vars
  BY <1>2, <1>3 DEF SenderCancelled, SendHelloError, vars, server
<1>4. ASSUME NEW w \in Worker,
             \/ SendHello(w) \/ StartWorker(w) \/ GetHello(w) \/ HelloTimeout(w)
             \/ Connect(w) \/ RecvTask(w) \/ Integrate(w) \/ SendRes(w) \/ SendPing(w)
             \/ Crash(w)
      PROVE  Handlers'
  BY <1>2, <1>4 DEF SendHello, StartWorker, GetHello, HelloTimeout, Connect, RecvTask,
     Integrate, SendRes, SendPing, Crash, server
<1>5. CASE Listen \/ AllAccepted \/ GiveUp \/ \E w \in Worker : Accept(w)
  <2>1. UNCHANGED <<main, handler, part>> /\ getter # "none"
    BY <1>5 DEF Listen, AllAccepted, GiveUp, Accept
  <2>2. QED
    BY <1>1, <1>2, <2>1 DEF Handlers
<1>6. CASE DivideWork \/ CreateGetter \/ CreateSender \/ JoinGetter \/ Exit
  <2>1. UNCHANGED <<handler, part>>
    BY <1>6 DEF DivideWork, CreateGetter, CreateSender, JoinGetter, Exit
  <2>2. main' \in {"divide_work", "create_getter"} => getter' = "none"
    BY <1>1, <1>6 DEF DivideWork, CreateGetter, CreateSender, JoinGetter, Exit, MainFails,
       Handlers
  <2>3. main' \in {"get_result", "join"} => getter' = "done"
    BY <1>1, <1>6 DEF DivideWork, CreateGetter, CreateSender, JoinGetter, Exit, MainFails
  <2>4. QED
    BY <1>1, <2>1, <2>2, <2>3 DEF Handlers
<1>7. ASSUME NEW k \in Task, CreateHandler(k) PROVE Handlers'
  <2>1. getter = "done" /\ UNCHANGED <<getter, conn, part>> /\ main' \in {"get_result", "join", "exit"}
    BY <1>1, <1>7 DEF CreateHandler, Handlers, MainFails
  <2>2. \A i \in Task : handler'[i] = handler[i] \/ handler'[i] = "send"
    BY <1>7 DEF CreateHandler, NetInv, TypeOK
  <2>3. QED
    BY <1>1, <2>1, <2>2 DEF Handlers
<1>8. ASSUME NEW k \in Task, Join(k) PROVE Handlers'
  <2>1. /\ getter = "done" /\ UNCHANGED <<getter, conn, part, handler>>
        /\ main' \in {"join", "exit"}
    BY <1>1, <1>8 DEF Join, Handlers, MainFails
  <2>2. QED
    BY <1>1, <2>1 DEF Handlers
<1>9. ASSUME NEW k \in Task, HandlerSend(k) PROVE Handlers'
  <2>1. UNCHANGED <<main, getter, conn, part>>
    BY <1>9 DEF HandlerSend
  <2>2. /\ \A i \in Task \ {k} : handler'[i] = handler[i]
        /\ handler'[k] = "null" \/ (handler'[k] = "recv" /\ k \in 1..Len(conn))
        /\ handler[k] # "none"
    BY <1>1, <1>9 DEF HandlerSend, Connected, NetInv, TypeOK
  <2>3. QED
    BY <1>1, <2>1, <2>2 DEF Handlers
<1>10. ASSUME NEW k \in Task, HandlerRecv(k) PROVE Handlers'
  <2>1. UNCHANGED <<main, getter, conn>> /\ handler[k] = "recv" /\ k \in 1..Len(conn)
    BY <1>1, <1>10 DEF HandlerRecv, Handlers
  <2>2. /\ \A i \in Task \ {k} : handler'[i] = handler[i] /\ part'[i] = part[i]
        /\ \/ handler'[k] = "null"
           \/ handler'[k] = "part" /\ part'[k] = answer[conn[k]] /\ answer[conn[k]] # NoTask
    BY <1>10 DEF HandlerRecv, NetInv, TypeOK
  <2>3. conn[k] \in Worker
    BY <1>1, <2>1
  <2>4. answer[conn[k]] # NoTask => answer[conn[k]] = k
    <3> SUFFICES ASSUME answer[conn[k]] # NoTask PROVE answer[conn[k]] = k
      OBVIOUS
    <3>1. /\ answer[conn[k]] = given[conn[k]]
          /\ given[conn[k]] \in 1..Len(conn) /\ conn[given[conn[k]]] = conn[k]
      BY <2>3 DEF NetInv, Given
    <3>2. QED
      BY <2>1, <3>1 DEF NetInv, Conns
  <2>5. QED
    BY <1>1, <2>1, <2>2, <2>4 DEF Handlers
<1>11. QED
  BY <1>3, <1>4, <1>5, <1>6, <1>7, <1>8, <1>9, <1>10
     DEF Next, Main, Getter, AcceptTimeout, AcceptError, Handler, WorkerStep

LEMMA GivenStep == NetInv /\ [Next]_vars => Given'
<1> SUFFICES ASSUME NetInv, [Next]_vars, NEW w \in Worker
             PROVE  /\ given'[w] # NoTask => /\ getter' = "done"
                                             /\ Len(conn') = Size
                                             /\ given'[w] \in 1..Len(conn')
                                             /\ conn'[given'[w]] = w
                    /\ answer'[w] \in {NoTask, given'[w]}
  BY DEF Given
<1>1. /\ getter = "done" => UNCHANGED <<getter, conn>>
      /\ given[w] # NoTask => /\ getter = "done"
                              /\ Len(conn) = Size
                              /\ given[w] \in 1..Len(conn)
                              /\ conn[given[w]] = w
      /\ answer[w] \in {NoTask, given[w]}
  BY GetterStep DEF NetInv, Given
<1>2. CASE given'[w] = given[w] /\ answer'[w] \in {NoTask, answer[w], given[w]}
  BY <1>1, <1>2
<1>3. ASSUME NEW i \in Task, HandlerSend(i), given' # given
      PROVE  /\ given'[w] # NoTask => /\ getter' = "done"
                                      /\ Len(conn') = Size
                                      /\ given'[w] \in 1..Len(conn')
                                      /\ conn'[given'[w]] = w
             /\ answer'[w] \in {NoTask, given'[w]}
  <2>1. /\ i \in 1..Len(conn) /\ conn[i] \in Worker /\ end[conn[i]] = "open"
        /\ given' = [given EXCEPT ![conn[i]] = i]
        /\ UNCHANGED <<getter, conn, answer>>
    BY <1>3 DEF HandlerSend, Connected, NetInv, TypeOK
  <2>2. getter = "done"
    BY <1>3 DEF HandlerSend, NetInv, Handlers
  <2>3. Len(conn) = Size
    BY <2>1, <2>2 DEF NetInv, Ends
  <2>4. CASE w # conn[i]
    <3>1. given'[w] = given[w]
      BY <2>1, <2>4 DEF NetInv, TypeOK
    <3>2. QED
      BY <1>1, <2>1, <3>1
  <2>5. CASE w = conn[i]
    <3>1. given'[w] = i
      BY <2>1, <2>5 DEF NetInv, TypeOK
    <3>2. given[w] # NoTask => given[w] = i
      BY <1>1, <2>1, <2>5 DEF NetInv, Conns
    <3>3. QED
      BY <1>1, <2>1, <2>2, <2>3, <2>5, <3>1, <3>2
  <2>6. QED
    BY <2>4, <2>5
<1>4. ASSUME NEW v \in Worker, SendRes(v) \/ Crash(v)
      PROVE  given'[w] = given[w] /\ answer'[w] \in {NoTask, answer[w], given[w]}
  BY <1>4 DEF SendRes, Crash, NetInv, TypeOK
<1>5. \/ UNCHANGED <<given, answer>>
      \/ \E i \in Task : HandlerSend(i) /\ given' # given
      \/ \E v \in Worker : SendRes(v) \/ Crash(v)
  BY DEF Next, Main, Getter, AcceptTimeout, AcceptError, Handler, WorkerStep, DivideWork,
     CreateGetter, CreateSender, JoinGetter, Exit, CreateHandler, Join, Listen, Accept,
     AllAccepted, GiveUp, SenderCancelled, SendHelloError, SendHello, HandlerSend,
     HandlerRecv, StartWorker, GetHello, HelloTimeout, Connect, RecvTask, Integrate,
     SendPing, vars, net
<1>6. QED
  BY <1>2, <1>3, <1>4, <1>5

LEMMA SumsStep == NetInv /\ [Next]_vars => Sums'
<1> SUFFICES ASSUME NetInv, [Next]_vars PROVE Sums'
  OBVIOUS
<1>1. /\ sum \in Seq(Task) /\ Len(sum) \in Nat
      /\ \A k \in 1..Len(sum) : sum[k] = k
      /\ outcome = "printed" => Len(sum) = Size /\ Size # 0
  BY DEF NetInv, TypeOK, Sums
<1>2. CASE sum' = sum /\ outcome' \in {outcome, "failed"}
  BY <1>1, <1>2 DEF Sums
<1>3. ASSUME NEW i \in Task, Join(i), handler[i] = "part"
      PROVE  Sums'
  <2>1. /\ i = Len(sum) + 1 /\ sum' = Append(sum, i) /\ i <= Size
        /\ outcome' = outcome \/ i = Size
    BY <1>3 DEF Join, NetInv, Handlers, Task
  <2>2. /\ Len(sum') = i /\ sum'[i] = i
        /\ \A k \in 1..Len(sum) : sum'[k] = sum[k]
    BY <1>1, <2>1
  <2>3. \A k \in 1..Len(sum') : sum'[k] = k
    BY <1>1, <2>1, <2>2
  <2>4. outcome' = "printed" => Len(sum') = Size /\ Size # 0
    BY <1>1, <2>1, <2>2, SizeFacts
  <2>5. QED
    BY <2>3, <2>4 DEF Sums
<1>4. \/ sum' = sum /\ outcome' \in {outcome, "failed"}
      \/ \E i \in Task : Join(i) /\ handler[i] = "part"
  BY DEF Next, Main, Getter, AcceptTimeout, AcceptError, Handler, WorkerStep, DivideWork,
     CreateGetter, CreateSender, JoinGetter, Exit, CreateHandler, Join, Listen, Accept,
     AllAccepted, GiveUp, SenderCancelled, SendHelloError, SendHello, HandlerSend,
     HandlerRecv, StartWorker, GetHello, HelloTimeout, Connect, RecvTask, Integrate,
     SendRes, SendPing, Crash, MainFails, vars, server
<1>5. QED
  BY <1>2, <1>3, <1>4

LEMMA NetInvariant == Spec => []NetInv
<1>1. NetInv /\ [Next]_vars => NetInv'
  BY TypeStep, EndsStep, HandlersStep, GivenStep, SumsStep DEF NetInv
<1>2. QED
  BY NetInit, <1>1, PTL DEF Spec

-----------------------------------------------------------------------------
(* The theorems. *)

(* Every reachable state is well-typed: a joined part is a task's.         *)
THEOREM Typing == Spec => []TypeOK
<1>1. NetInv => TypeOK
  BY DEF NetInv
<1>2. QED
  BY <1>1, NetInvariant, PTL

(* get_tcp_connections: no worker is given a task unless every task has a  *)
(* worker.                                                                 *)
THEOREM NoTaskAlone == Spec => []AllOrNothing
<1>1. NetInv => AllOrNothing
  BY DEF NetInv, Given, AllOrNothing
<1>2. QED
  BY <1>1, NetInvariant, PTL

(* get_result: a printed result has every unit of the interval in exactly  *)
(* one of the parts it adds.                                               *)
THEOREM PrintedIsWhole == Spec => []ResultIsWhole
<1>1. NetInv => ResultIsWhole
  <2> SUFFICES ASSUME NetInv, outcome = "printed", NEW u \in 0..(Threads - 1)
               PROVE  \E k \in DOMAIN sum :
                        /\ u \in Units(sum[k])
                        /\ \A l \in DOMAIN sum : u \in Units(sum[l]) => l = k
    BY DEF ResultIsWhole
  <2>1. DOMAIN sum = Task /\ \A k \in Task : sum[k] = k
    BY DEF NetInv, Sums, TypeOK, Task
  <2>2. Size # 0
    BY DEF NetInv, Sums
  <2>3. QED
    BY <2>1, <2>2, TasksTile
<1>2. QED
  BY <1>1, NetInvariant, PTL
=============================================================================
