------------------------------- MODULE Network -------------------------------
(***************************************************************************)
(* 4_sem/Network: a server splits an integral between workers on other     *)
(* machines.  run_server broadcasts hellos from one thread while another   *)
(* accepts a connection for each task; then one handler thread for each    *)
(* task sends it and waits for the part.  run_worker answers a hello with  *)
(* a connection, computes one task and sends its part back.                *)
(*                                                                         *)
(* A part is the number of the task it answers.  A descriptor that was     *)
(* closed, or never opened and so 0 from calloc(), refuses send(): also    *)
(* when the sender thread's UDP socket has its number by then, since that  *)
(* one is not connected.                                                   *)
(***************************************************************************)
EXTENDS Integers, Sequences

CONSTANTS Worker,     \* machines on which run_worker is started or not
          Machines,   \* the argument n_machines
          Threads,    \* the argument n_threads
          Troubles,   \* what may go wrong: a run meets all of it or nothing
          MaxCrashes  \* at most this many workers crash

ASSUME NetworkAssumption == /\ Machines \in Nat
                            /\ Threads \in Nat
                            /\ Troubles \subseteq {"timeouts", "errors", "crashes"}
                            /\ MaxCrashes \in Nat

(* divide_work() makes so many tasks; listen() has room for ten workers.   *)
Size == IF Machines < Threads THEN Machines ELSE Threads
Task == 1..Size
NoTask == 0

(* The interval, from begin to end, in units of interval_per_thread: every *)
(* task has as many units as threads, and the last one takes what is left. *)
TaskThreads(i) ==
  IF i < Size THEN Threads \div Size ELSE Threads - (Size - 1) * (Threads \div Size)

TaskBegin(i) == (i - 1) * (Threads \div Size)

(* Mutant: the last task is one like the others. *)
TaskEndOfEqual(i) == TaskBegin(i) + Threads \div Size

TaskEnd(i) == IF i < Size THEN TaskBegin(i) + TaskThreads(i) ELSE Threads

Units(i) == TaskBegin(i)..(TaskEnd(i) - 1)

VARIABLES
  main,      \* the server's main thread
  getter,    \* its thread in get_tcp_connections()
  sender,    \* its thread in send_hellos()
  handler,   \* its threads in work_handler()
  conn,      \* the workers accepted, in the order of their tasks
  part,      \* what each handler returns
  sum,       \* the parts that get_result() has added
  outcome,   \* what run_server prints
  end,       \* the server's end of each worker's connection
  hello,     \* whether a hello lies in the worker's UDP socket
  given,     \* the task sent to each worker
  answer,    \* the part each worker has sent
  worker,    \* the worker's next call
  status,    \* how the worker ended
  crashes,
  trouble    \* of the run: Troubles, or {}; it never changes

server == <<main, getter, sender, handler, conn, part, sum, outcome>>
net == <<end, hello, given, answer>>
vars == <<server, net, worker, status, crashes, trouble>>

Init ==
  /\ main = "divide_work"
  /\ getter = "none"
  /\ sender = "none"
  /\ handler = [i \in Task |-> "none"]
  /\ conn = <<>>
  /\ part = [i \in Task |-> NoTask]
  /\ sum = <<>>
  /\ outcome = "none"
  /\ end = [w \in Worker |-> "none"]
  /\ hello = [w \in Worker |-> FALSE]
  /\ given = [w \in Worker |-> NoTask]
  /\ answer = [w \in Worker |-> NoTask]
  /\ worker = [w \in Worker |-> "off"]
  /\ status = [w \in Worker |-> "none"]
  /\ crashes = 0
  /\ trouble \in {{}, Troubles}

(* The timeouts of the sockets may pass; calls may fail for want of a      *)
(* resource.                                                               *)
Slow   == "timeouts" \in trouble
Faulty == "errors" \in trouble

ServerUp == main # "done"

Close(states) ==
  end' = [w \in Worker |-> IF end[w] \in states THEN "closed" ELSE end[w]]

-----------------------------------------------------------------------------
(* The server's main thread: run_server and get_result. *)

MainFails ==
  /\ main' = "exit"
  /\ outcome' = "failed"

(* E_INVAL for no machine or no thread. *)
DivideWork ==
  /\ main = "divide_work"
  /\ \/ /\ Size # 0
        /\ main' = "create_getter"
        /\ UNCHANGED outcome
     \/ /\ Size = 0 \/ Faulty
        /\ MainFails
  /\ UNCHANGED <<getter, sender, handler, conn, part, sum, net, worker, status, crashes, trouble>>

CreateGetter ==
  /\ main = "create_getter"
  /\ \/ /\ main' = "create_sender"
        /\ getter' = "socket"
        /\ UNCHANGED outcome
     \/ /\ Faulty
        /\ MainFails
        /\ UNCHANGED getter
  /\ UNCHANGED <<sender, handler, conn, part, sum, net, worker, status, crashes, trouble>>

CreateSender ==
  /\ main = "create_sender"
  /\ \/ /\ main' = "join_getter"
        /\ sender' = "running"
        /\ UNCHANGED outcome
     \/ /\ Faulty
        /\ MainFails
        /\ UNCHANGED sender
  /\ UNCHANGED <<getter, handler, conn, part, sum, net, worker, status, crashes, trouble>>

(* The getter's error is only printed: get_result() runs in any case.      *)
JoinGetter ==
  /\ main = "join_getter"
  /\ getter = "done"
  /\ main' = "get_result"
  /\ sender' = IF sender = "running" THEN "cancelled" ELSE sender
  /\ UNCHANGED <<getter, handler, conn, part, sum, outcome, net, worker, status, crashes, trouble>>

CreateHandler(i) ==
  /\ main = "get_result"
  /\ handler[i] = "none"
  /\ \A j \in Task : j < i => handler[j] # "none"
  /\ \/ /\ handler' = [handler EXCEPT ![i] = "send"]
        /\ main' = IF i = Size THEN "join" ELSE main
        /\ UNCHANGED outcome
     \/ /\ Faulty
        /\ MainFails
        /\ UNCHANGED handler
  /\ UNCHANGED <<getter, sender, conn, part, sum, net, worker, status, crashes, trouble>>

Join(i) ==
  /\ main = "join"
  /\ i = Len(sum) + 1
  /\ \/ /\ handler[i] = "part"
        /\ sum' = Append(sum, part[i])
        /\ IF i = Size THEN main' = "exit" /\ outcome' = "printed"
                       ELSE UNCHANGED <<main, outcome>>
     \/ /\ handler[i] = "null"
        /\ MainFails
        /\ UNCHANGED sum
  /\ UNCHANGED <<getter, sender, handler, conn, part, net, worker, status, crashes, trouble>>

(* The sockets of the tasks are closed, and with the return from main()    *)
(* every other one; the remaining threads end.                             *)
Exit ==
  /\ main = "exit"
  /\ main' = "done"
  /\ Close({"backlog", "open"})
  /\ UNCHANGED <<getter, sender, handler, conn, part, sum, outcome>>
  /\ UNCHANGED <<hello, given, answer, worker, status, crashes, trouble>>

Main ==
  \/ DivideWork \/ CreateGetter \/ CreateSender \/ JoinGetter \/ Exit
  \/ \E i \in Task : CreateHandler(i) \/ Join(i)

-----------------------------------------------------------------------------
(* get_tcp_connections *)

Listen ==
  /\ getter = "socket"
  /\ \/ getter' = "accept"
     \/ Faulty /\ getter' = "done"
  /\ UNCHANGED <<main, sender, handler, conn, part, sum, outcome>>
  /\ UNCHANGED <<net, worker, status, crashes, trouble>>

Accept(w) ==
  /\ getter = "accept"
  /\ Len(conn) < Size
  /\ end[w] = "backlog"
  /\ conn' = Append(conn, w)
  /\ end' = [end EXCEPT ![w] = "open"]
  /\ UNCHANGED <<main, getter, sender, handler, part, sum, outcome>>
  /\ UNCHANGED <<hello, given, answer, worker, status, crashes, trouble>>

(* Mutant: the code falls through to exit_close_sockets. *)
AllAcceptedFallsThrough ==
  /\ getter = "accept"
  /\ Len(conn) = Size
  /\ getter' = "done"
  /\ Close({"backlog", "open"})
  /\ UNCHANGED <<main, sender, handler, conn, part, sum, outcome>>
  /\ UNCHANGED <<hello, given, answer, worker, status, crashes, trouble>>

AllAccepted ==
  /\ getter = "accept"
  /\ Len(conn) = Size
  /\ getter' = "done"
  /\ Close({"backlog"})
  /\ UNCHANGED <<main, sender, handler, conn, part, sum, outcome>>
  /\ UNCHANGED <<hello, given, answer, worker, status, crashes, trouble>>

(* Mutant: the sockets accepted so far stay open. *)
GiveUpKeeps ==
  /\ getter = "accept"
  /\ Len(conn) < Size
  /\ getter' = "done"
  /\ Close({"backlog"})
  /\ UNCHANGED <<main, sender, handler, conn, part, sum, outcome>>
  /\ UNCHANGED <<hello, given, answer, worker, status, crashes, trouble>>

GiveUp ==
  /\ getter = "accept"
  /\ Len(conn) < Size
  /\ getter' = "done"
  /\ Close({"backlog", "open"})
  /\ UNCHANGED <<main, sender, handler, conn, part, sum, outcome>>
  /\ UNCHANGED <<hello, given, answer, worker, status, crashes, trouble>>

(* Mutant: the listening socket has no SO_RCVTIMEO. *)
AcceptNeverTimesOut == FALSE /\ GiveUp

(* Nobody has connected for ten seconds. *)
AcceptTimeout ==
  /\ Slow
  /\ \A w \in Worker : end[w] # "backlog"
  /\ GiveUp

AcceptError == ServerUp /\ Faulty /\ GiveUp

Getter ==
  /\ ServerUp
  /\ \/ Listen \/ AllAccepted \/ AcceptTimeout
     \/ \E w \in Worker : Accept(w)

-----------------------------------------------------------------------------
(* send_hellos: a broadcast reaches the workers that have bound their port *)
(* one by one, as datagrams may be lost and there is always a next one.    *)

SendHello(w) ==
  /\ ServerUp
  /\ sender = "running"
  /\ worker[w] = "recvfrom"
  /\ hello' = [hello EXCEPT ![w] = TRUE]
  /\ UNCHANGED <<server, end, given, answer, worker, status, crashes, trouble>>

(* The thread is cancelled in sendto() or close(). *)
SenderCancelled ==
  /\ ServerUp
  /\ sender = "cancelled"
  /\ sender' = "gone"
  /\ \E S \in SUBSET {w \in Worker : worker[w] = "recvfrom"} :
       hello' = [w \in Worker |-> w \in S \/ hello[w]]
  /\ UNCHANGED <<main, getter, handler, conn, part, sum, outcome>>
  /\ UNCHANGED <<end, given, answer, worker, status, crashes, trouble>>

SendHelloError ==
  /\ ServerUp
  /\ sender = "running"
  /\ Faulty
  /\ sender' = "gone"
  /\ UNCHANGED <<main, getter, handler, conn, part, sum, outcome>>
  /\ UNCHANGED <<net, worker, status, crashes, trouble>>

-----------------------------------------------------------------------------
(* work_handler *)

Connected(i) == i \in DOMAIN conn /\ end[conn[i]] = "open"

(* send() fails without a connection, and may where the worker has gone.   *)
HandlerSend(i) ==
  /\ handler[i] = "send"
  /\ \/ /\ Connected(i)
        /\ given' = [given EXCEPT ![conn[i]] = i]
        /\ handler' = [handler EXCEPT ![i] = "recv"]
     \/ /\ Connected(i) => (Faulty \/ worker[conn[i]] = "done")
        /\ handler' = [handler EXCEPT ![i] = "null"]
        /\ UNCHANGED given
  /\ UNCHANGED <<main, getter, sender, conn, part, sum, outcome>>
  /\ UNCHANGED <<end, hello, answer, worker, status, crashes, trouble>>

(* select() has no timeout: it returns when there is a part or when the    *)
(* worker has closed the connection; it or recv() may fail.                *)
HandlerRecv(i) ==
  /\ handler[i] = "recv"
  /\ \/ /\ answer[conn[i]] # NoTask
        /\ part' = [part EXCEPT ![i] = answer[conn[i]]]
        /\ handler' = [handler EXCEPT ![i] = "part"]
     \/ /\ Faulty \/ (answer[conn[i]] = NoTask /\ worker[conn[i]] = "done")
        /\ handler' = [handler EXCEPT ![i] = "null"]
        /\ UNCHANGED part
  /\ UNCHANGED <<main, getter, sender, conn, sum, outcome, net, worker, status, crashes, trouble>>

Handler(i) == ServerUp /\ (HandlerSend(i) \/ HandlerRecv(i))

-----------------------------------------------------------------------------
(* run_worker *)

WorkerGoes(w, from, to) ==
  /\ worker[w] = from
  /\ worker' = [worker EXCEPT ![w] = to]
  /\ UNCHANGED status

WorkerEnds(w, from, how) ==
  /\ worker[w] = from
  /\ worker' = [worker EXCEPT ![w] = "done"]
  /\ status' = [status EXCEPT ![w] = how]

StartWorker(w) ==
  /\ \/ WorkerGoes(w, "off", "recvfrom")
     \/ Faulty /\ WorkerEnds(w, "off", "failure")
  /\ UNCHANGED <<server, net, crashes, trouble>>

GetHello(w) ==
  /\ hello[w]
  /\ WorkerGoes(w, "recvfrom", "connect")
  /\ UNCHANGED <<server, net, crashes, trouble>>

(* Mutant: the UDP socket has no SO_RCVTIMEO. *)
HelloNeverTimesOut(w) == FALSE /\ WorkerEnds(w, "recvfrom", "failure")

(* Twenty seconds without a hello. *)
HelloTimeout(w) ==
  /\ Slow
  /\ ~ hello[w]
  /\ WorkerEnds(w, "recvfrom", "failure")
  /\ UNCHANGED <<server, net, crashes, trouble>>

(* The kernel completes the connection while somebody listens; socket(),   *)
(* set_keepalive() or connect() may fail.                                  *)
Connect(w) ==
  /\ \/ /\ ServerUp /\ getter = "accept"
        /\ WorkerGoes(w, "connect", "recv")
        /\ end' = [end EXCEPT ![w] = "backlog"]
     \/ /\ ~ (ServerUp /\ getter = "accept")
        /\ WorkerEnds(w, "connect", "refused")
        /\ UNCHANGED end
     \/ /\ Faulty
        /\ WorkerEnds(w, "connect", "failure")
        /\ UNCHANGED end
  /\ UNCHANGED <<server, hello, given, answer, crashes, trouble>>

(* A task that was sent before the server closed can still be received.    *)
RecvTask(w) ==
  /\ \/ given[w] # NoTask /\ WorkerGoes(w, "recv", "Integrate")
     \/ given[w] = NoTask /\ end[w] = "closed" /\ WorkerEnds(w, "recv", "failure")
  /\ UNCHANGED <<server, net, crashes, trouble>>

Integrate(w) ==
  /\ \/ WorkerGoes(w, "Integrate", "send_res")
     \/ Faulty /\ WorkerEnds(w, "Integrate", "failure")
  /\ UNCHANGED <<server, net, crashes, trouble>>

(* What is sent to a closed connection is lost, and send() may tell.       *)
SendRes(w) ==
  /\ \/ /\ WorkerGoes(w, "send_res", "send_ping")
        /\ answer' = IF end[w] = "open" THEN [answer EXCEPT ![w] = given[w]] ELSE answer
     \/ /\ end[w] = "closed"
        /\ WorkerEnds(w, "send_res", "failure")
        /\ UNCHANGED answer
  /\ UNCHANGED <<server, end, hello, given, crashes, trouble>>

SendPing(w) ==
  /\ \/ WorkerEnds(w, "send_ping", "success")
     \/ end[w] = "closed" /\ WorkerEnds(w, "send_ping", "failure")
  /\ UNCHANGED <<server, net, crashes, trouble>>

WorkerStep(w) ==
  \/ GetHello(w) \/ HelloTimeout(w) \/ Connect(w) \/ RecvTask(w)
  \/ Integrate(w) \/ SendRes(w) \/ SendPing(w)

(* The worker's end closes, at the latest when the keepalive probes of its *)
(* machine stay unanswered; what it has sent last may be lost.             *)
Crash(w) ==
  /\ "crashes" \in trouble
  /\ crashes < MaxCrashes
  /\ crashes' = crashes + 1
  /\ worker[w] \notin {"off", "done"}
  /\ WorkerEnds(w, worker[w], "failure")
  /\ \E a \in {answer[w], NoTask} : answer' = [answer EXCEPT ![w] = a]
  /\ UNCHANGED <<server, end, hello, given, trouble>>

-----------------------------------------------------------------------------
Next ==
  \/ Main \/ Getter \/ AcceptError \/ SenderCancelled \/ SendHelloError
  \/ \E i \in Task : Handler(i)
  \/ \E w \in Worker : SendHello(w) \/ StartWorker(w) \/ WorkerStep(w) \/ Crash(w)

Spec == Init /\ [][Next]_vars

(* Threads and processes that can run do, timeouts pass, and of an endless *)
(* series of broadcasts one reaches each machine that listens.             *)
FairSpec ==
  /\ Spec
  /\ WF_vars(Main) /\ WF_vars(Getter) /\ WF_vars(SenderCancelled)
  /\ \A i \in Task : WF_vars(Handler(i))
  /\ \A w \in Worker : WF_vars(WorkerStep(w)) /\ WF_vars(SendHello(w))

-----------------------------------------------------------------------------
(* Properties. *)

TypeOK ==
  /\ main \in {"divide_work", "create_getter", "create_sender", "join_getter",
               "get_result", "join", "exit", "done"}
  /\ getter \in {"none", "socket", "accept", "done"}
  /\ sender \in {"none", "running", "cancelled", "gone"}
  /\ handler \in [Task -> {"none", "send", "recv", "part", "null"}]
  /\ conn \in Seq(Worker) /\ Len(conn) <= Size
  /\ part \in [Task -> Task \cup {NoTask}]
  /\ sum \in Seq(Task) /\ Len(sum) <= Size
  /\ outcome \in {"none", "printed", "failed"}
  /\ end \in [Worker -> {"none", "backlog", "open", "closed"}]
  /\ hello \in [Worker -> BOOLEAN]
  /\ given \in [Worker -> Task \cup {NoTask}]
  /\ answer \in [Worker -> Task \cup {NoTask}]
  /\ worker \in [Worker -> {"off", "recvfrom", "connect", "recv", "Integrate",
                            "send_res", "send_ping", "done"}]
  /\ status \in [Worker -> {"none", "success", "failure", "refused"}]
  /\ crashes \in 0..MaxCrashes
  /\ trouble \subseteq Troubles

(* A printed result has every unit of the interval in exactly one of the   *)
(* parts get_result has added, although any worker may have crashed or     *)
(* come too late.                                                          *)
ResultIsWhole ==
  outcome = "printed" =>
    \A u \in 0..(Threads - 1) :
      \E k \in DOMAIN sum : /\ u \in Units(sum[k])
                            /\ \A l \in DOMAIN sum : u \in Units(sum[l]) => l = k

(* No worker is given a task unless there is a worker for every task: when *)
(* get_tcp_connections gives up, get_result still starts its handlers, and *)
(* they must find the connections closed.                                  *)
AllOrNothing ==
  (\E w \in Worker : given[w] # NoTask) => Len(conn) = Size

(* run_server comes to an end whichever workers come, crash or stay away,  *)
(* as its accept() times out.                                              *)
ServerEnds == Slow => <>(main = "done")

(* Workers that were started come to an end, also those that wait for a    *)
(* hello nobody sends, for a task they are not given or for a server gone. *)
WorkersEnd == Slow => []<>(\A w \in Worker : worker[w] \in {"off", "done"})

(* With workers enough, and where nothing fails, crashes or is late, the   *)
(* server prints the result, unless a hello was answered before or after   *)
(* it listened.                                                            *)
Delivers ==
  (trouble = {} /\ \A w \in Worker : worker[w] # "off") ~>
    (outcome = "printed" \/ \E w \in Worker : status[w] = "refused")
=============================================================================
