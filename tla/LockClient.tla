-------------------------------- MODULE LockClient --------------------------------
(***************************************************************************)
(* TGELock of libtgelock.h: the client of the lock server that an open or  *)
(* a release of a large file talks to while it copies (tgefs.cc).  lock()  *)
(* asks the server and starts a detached thread that renews the lock, as   *)
(* the server forgets it otherwise; unlock() gives it back.  Each client   *)
(* is a handler with a TGELock on its stack, of this host or another.  The *)
(* server, tgelockd, is not in the repository: it grants one lock to one   *)
(* client at a time, and is modelled from what the client expects of it.   *)
(***************************************************************************)
EXTENDS Naturals, Sequences, FiniteSets

CONSTANTS Clients,
          None,      (* no client, or nobody that has the mutex           *)
          Settings,  (* see Setting                                       *)
          Update,    (* UPDATE_INTERVAL_IN_SECONDS                        *)
          Expire,    (* EXPIRE_INTERVAL_IN_SECONDS                        *)
          Retries,   (* NUMBER_OF_RETRIES                                 *)
          MaxUnread  (* bound of the lines of a slow client               *)

(* slow: the clients whose threads or network are not fast in comparison with the
   intervals, that cannot connect or create threads, or that the server disconnects.
   crashes: clients may die. *)
Setting == [slow : SUBSET Clients, crashes : BOOLEAN]

ASSUME LockClientAssumption == /\ None \notin Clients
                               /\ Settings \subseteq Setting
                               /\ {Update, Expire, Retries, MaxUnread} \subseteq Nat \ {0}
                               /\ Update < Expire

VARIABLES setting,
          pc,        (* the handler: "idle" without a TGELock, "dead" with its daemon  *)
          weHave,    (* weHaveTheLock                                                  *)
          thread,    (* its renewing thread: "none", "sleep" or "recv"                 *)
          dangling,  (* clients whose thread has outlived its TGELock                  *)
          mutex,     (* owner of objectState_mutex: "main", "thread" or None           *)
          timer,     (* how long the handler has waited for a line                     *)
          sleep,     (* how long the thread has slept                                  *)
          tries,     (* tryCount                                                       *)
          conn,      (* the stream: "none", "open", or what the server left: "ended", "reset" *)
          sent,      (* lines under way to the server                                  *)
          answers,   (* lines OK under way back or unread                              *)
          holder,    (* who has the server's lock                                      *)
          age,       (* for how long it has not been renewed                           *)
          queue      (* who waits for it                                               *)

client == <<pc, weHave, thread, dangling, mutex, timer, sleep, tries>>
network == <<conn, sent, answers>>
server == <<holder, age, queue>>
vars == <<setting, client, network, server>>

Init == /\ setting \in Settings
        /\ pc = [c \in Clients |-> "idle"]
        /\ weHave = [c \in Clients |-> FALSE]
        /\ thread = [c \in Clients |-> "none"]
        /\ dangling = {}
        /\ mutex = [c \in Clients |-> None]
        /\ timer = [c \in Clients |-> 0] /\ sleep = [c \in Clients |-> 0]
        /\ tries = [c \in Clients |-> 0]
        /\ conn = [c \in Clients |-> "none"]
        /\ sent = [c \in Clients |-> <<>>] /\ answers = [c \in Clients |-> 0]
        /\ holder = None /\ age = 0 /\ queue = <<>>

NoWait(c) == /\ timer' = [timer EXCEPT ![c] = 0]
             /\ tries' = [tries EXCEPT ![c] = 0]

Goto(c, l) == pc' = [pc EXCEPT ![c] = l]

(* operator<< on the stream: what goes to a connection that is lost is lost. *)
Send(c, lines) == sent' = [sent EXCEPT ![c] = IF conn[c] = "open" THEN @ \o lines ELSE @]

(* delete mySocketStream: the end of the stream follows what was sent. *)
DeleteStream(c) == /\ conn' = [conn EXCEPT ![c] = "none"]
                   /\ answers' = [answers EXCEPT ![c] = 0]
                   /\ Send(c, <<"FIN">>)

------------------------------------------------------------------------------
(* lock(). *)

(* Connected, it asks.  (Bound: the server has read all of the connection before.) *)
Connect(c) ==
  /\ pc[c] = "idle" /\ sent[c] = <<>>
  /\ conn' = [conn EXCEPT ![c] = "open"]
  /\ sent' = [sent EXCEPT ![c] = @ \o <<"L">>]
  /\ answers' = [answers EXCEPT ![c] = 0]
  /\ Goto(c, "wait")
  /\ NoWait(c)
  /\ UNCHANGED <<setting, weHave, thread, dangling, mutex, sleep, server>>

(* No connection: lock() fails, and the handler copies without the lock. *)
ConnectFails(c) ==
  /\ pc[c] = "idle" /\ c \in setting.slow
  /\ Goto(c, "copy")
  /\ UNCHANGED <<setting, weHave, thread, dangling, mutex, timer, sleep, tries, network, server>>

(* The answer OK starts the thread, whose creation nobody checks. *)
LockOK(c) ==
  /\ pc[c] = "wait" /\ answers[c] > 0
  /\ mutex[c] = None
  /\ answers' = [answers EXCEPT ![c] = @ - 1]
  /\ weHave' = [weHave EXCEPT ![c] = TRUE]
  /\ \/ thread' = [thread EXCEPT ![c] = "sleep"]
     \/ c \in setting.slow /\ UNCHANGED thread
  /\ sleep' = [sleep EXCEPT ![c] = 0]
  /\ NoWait(c)
  /\ Goto(c, "copy")
  /\ UNCHANGED <<setting, dangling, mutex, conn, sent, server>>

(* No line came in time: once more, and in the end the handler copies without. *)
LockTimeout(c) ==
  /\ pc[c] = "wait" /\ answers[c] = 0
  /\ conn[c] = "open" /\ timer[c] >= Update
  /\ timer' = [timer EXCEPT ![c] = 0]
  /\ IF tries[c] + 1 < Retries THEN tries' = [tries EXCEPT ![c] = @ + 1] /\ UNCHANGED pc
     ELSE tries' = [tries EXCEPT ![c] = 0] /\ Goto(c, "copy")
  /\ UNCHANGED <<setting, weHave, thread, dangling, mutex, sleep, network, server>>

(* Variant: it waits for another line. *)
LockErrorIgnored(c) ==
  /\ pc[c] = "wait" /\ conn[c] = "reset" /\ answers[c] = 0
  /\ UNCHANGED vars

(* recv fails on a connection that was reset; on one that has ended it returns 0, and
   recv_line_with_timeout asks again for ever: there is no step. *)
LockError(c) ==
  /\ pc[c] = "wait" /\ conn[c] = "reset" /\ answers[c] = 0
  /\ NoWait(c)
  /\ Goto(c, "copy")
  /\ UNCHANGED <<setting, weHave, thread, dangling, mutex, sleep, network, server>>

------------------------------------------------------------------------------
(* run(), the renewing thread. *)

(* Variant: the thread ends. *)
WakeOnce(c) ==
  /\ thread[c] = "sleep" /\ sleep[c] >= Update
  /\ mutex[c] = None
  /\ thread' = [thread EXCEPT ![c] = "none"]
  /\ sleep' = [sleep EXCEPT ![c] = 0]
  /\ UNCHANGED <<setting, pc, weHave, dangling, mutex, timer, tries, network, server>>

(* It has slept; under the mutex it looks whether to go on, and renews. *)
Wake(c) ==
  /\ thread[c] = "sleep" /\ sleep[c] >= Update
  /\ mutex[c] = None
  /\ c \in setting.slow => Len(sent[c]) + answers[c] < MaxUnread
  /\ \/ /\ weHave[c] /\ conn[c] # "none"
        /\ Send(c, <<"L">>)
        /\ thread' = [thread EXCEPT ![c] = "recv"]
        /\ UNCHANGED weHave
     \/ /\ ~weHave[c] \/ conn[c] # "open"
        /\ weHave' = [weHave EXCEPT ![c] = FALSE]
        /\ thread' = [thread EXCEPT ![c] = "none"]
        /\ UNCHANGED sent
  /\ sleep' = [sleep EXCEPT ![c] = 0]
  /\ UNCHANGED <<setting, pc, dangling, mutex, timer, tries, conn, answers, server>>

(* Variant: it reads no answers. *)
ReceiveNothing(c) ==
  /\ thread[c] = "recv"
  /\ thread' = [thread EXCEPT ![c] = "sleep"]
  /\ UNCHANGED <<setting, pc, weHave, dangling, mutex, timer, sleep, tries, network, server>>

(* Without the mutex it reads a line, if one is there within a microsecond: as a rule the
   answer to the renewal before. *)
Receive(c) ==
  /\ thread[c] = "recv"
  /\ conn[c] # "reset" /\ (conn[c] = "ended" => answers[c] > 0)
  /\ answers' = [answers EXCEPT ![c] = IF @ > 0 THEN @ - 1 ELSE 0]
  /\ thread' = [thread EXCEPT ![c] = "sleep"]
  /\ UNCHANGED <<setting, pc, weHave, dangling, mutex, timer, sleep, tries, conn, sent, server>>

ReceiveError(c) ==
  /\ thread[c] = "recv" /\ conn[c] = "reset"
  /\ mutex[c] = None
  /\ weHave' = [weHave EXCEPT ![c] = FALSE]
  /\ thread' = [thread EXCEPT ![c] = "none"]
  /\ UNCHANGED <<setting, pc, dangling, mutex, timer, sleep, tries, network, server>>

(* The thread of a TGELock that is gone uses the memory it was in: it ends, or takes the
   next TGELock made there for its own and renews that one's lock. *)
Dangling(c) ==
  /\ c \in dangling
  /\ dangling' = dangling \ {c}
  /\ \/ UNCHANGED sent
     \/ weHave[c] /\ Send(c, <<"L">>)
  /\ UNCHANGED <<setting, pc, weHave, thread, mutex, timer, sleep, tries, conn, answers, server>>

------------------------------------------------------------------------------
(* unlock(), and the end of the TGELock right after it.  A thread that still runs, as it
   does unless it has failed, is not waited for. *)

Destroyed(c) == /\ Goto(c, "idle")
                /\ thread' = [thread EXCEPT ![c] = "none"]
                /\ dangling' = IF thread[c] = "none" THEN dangling ELSE dangling \cup {c}
                /\ sleep' = [sleep EXCEPT ![c] = 0]
                /\ NoWait(c)
                /\ DeleteStream(c)

(* Variant: nothing is sent. *)
UnlockSilently(c) ==
  /\ pc[c] = "copy" /\ mutex[c] = None
  /\ weHave[c]
  /\ weHave' = [weHave EXCEPT ![c] = FALSE]
  /\ mutex' = [mutex EXCEPT ![c] = "main"]
  /\ timer' = [timer EXCEPT ![c] = 0]
  /\ Goto(c, "bye")
  /\ UNCHANGED <<setting, thread, dangling, sleep, tries, network, server>>

(* A lock that is believed to be held is given back. *)
Unlock(c) ==
  /\ pc[c] = "copy" /\ mutex[c] = None
  /\ weHave[c]
  /\ weHave' = [weHave EXCEPT ![c] = FALSE]
  /\ mutex' = [mutex EXCEPT ![c] = "main"]
  /\ Send(c, <<"U">>)
  /\ timer' = [timer EXCEPT ![c] = 0]
  /\ Goto(c, "bye")
  /\ UNCHANGED <<setting, thread, dangling, sleep, tries, conn, answers, server>>

(* Variant: the line must come. *)
ByeAnswered(c) ==
  /\ pc[c] = "bye"
  /\ answers[c] > 0
  /\ mutex' = [mutex EXCEPT ![c] = None]
  /\ Destroyed(c)
  /\ UNCHANGED <<setting, weHave, server>>

(* Any line will do for its answer; or none comes in time, or recv fails. *)
Bye(c) ==
  /\ pc[c] = "bye"
  /\ answers[c] > 0 \/ timer[c] >= Update \/ conn[c] = "reset"
  /\ mutex' = [mutex EXCEPT ![c] = None]
  /\ Destroyed(c)
  /\ UNCHANGED <<setting, weHave, server>>

(* There was no lock, or the thread has found out that it is lost. *)
UnlockNothing(c) ==
  /\ pc[c] = "copy" /\ mutex[c] = None
  /\ ~weHave[c]
  /\ Destroyed(c)
  /\ UNCHANGED <<setting, weHave, mutex, server>>

------------------------------------------------------------------------------
(* The server, the network and the clock. *)

(* A line that came over a connection that has ended since is not answered. *)
Answer(c, rest) ==
  answers' = [answers EXCEPT ![c] =
                IF conn[c] = "open" /\ \A i \in DOMAIN rest : rest[i] # "FIN" THEN @ + 1 ELSE @]

Place(c) == CHOOSE i \in DOMAIN queue : queue[i] = c

Waits(c) == \E i \in DOMAIN queue : queue[i] = c

(* Everybody waits once. *)
Others(c) == IF Waits(c) THEN SubSeq(queue, 1, Place(c) - 1) \o SubSeq(queue, Place(c) + 1, Len(queue))
             ELSE queue

Ask(c) == /\ Head(sent[c]) = "L"
          /\ IF holder = c \/ (holder = None /\ Others(c) = <<>>)
             THEN /\ holder' = c /\ age' = 0
                  /\ queue' = Others(c)
                  /\ Answer(c, Tail(sent[c]))
             ELSE /\ queue' = Others(c) \o <<c>>
                  /\ UNCHANGED <<holder, age, answers>>

GiveBack(c) == /\ Head(sent[c]) = "U"
               /\ IF holder = c THEN holder' = None /\ age' = 0 ELSE UNCHANGED <<holder, age>>
               /\ Answer(c, Tail(sent[c]))
               /\ UNCHANGED queue

Finish(c) == /\ Head(sent[c]) = "FIN"
             /\ queue' = Others(c)
             /\ UNCHANGED <<holder, age, answers>>

Serve(c) == /\ sent[c] # <<>>
            /\ Ask(c) \/ GiveBack(c) \/ Finish(c)
            /\ sent' = [sent EXCEPT ![c] = Tail(@)]
            /\ UNCHANGED <<setting, client, conn>>

Grant == /\ holder = None /\ queue # <<>>
         /\ holder' = Head(queue) /\ age' = 0
         /\ queue' = Tail(queue)
         /\ Answer(Head(queue), sent[Head(queue)])
         /\ UNCHANGED <<setting, client, conn, sent>>

Forget == /\ holder # None /\ age >= Expire
          /\ holder' = None /\ age' = 0
          /\ UNCHANGED <<setting, client, network, queue>>

Close(c) == /\ c \in setting.slow /\ conn[c] = "open"
            /\ \E how \in {"ended", "reset"} : conn' = [conn EXCEPT ![c] = how]
            /\ sent' = [sent EXCEPT ![c] = <<>>]
            /\ queue' = Others(c)
            /\ UNCHANGED <<setting, client, answers, holder, age>>

(* The daemon of the client dies; started again, it is another client. *)
Crash(c) == /\ setting.crashes /\ pc[c] # "dead"
            /\ Goto(c, "dead")
            /\ weHave' = [weHave EXCEPT ![c] = FALSE]
            /\ thread' = [thread EXCEPT ![c] = "none"]
            /\ dangling' = dangling \ {c}
            /\ mutex' = [mutex EXCEPT ![c] = None]
            /\ sleep' = [sleep EXCEPT ![c] = 0]
            /\ NoWait(c)
            /\ DeleteStream(c)
            /\ UNCHANGED <<setting, server>>

(* Nothing is due that takes no time. *)
Quiet == /\ \A c \in Clients \ setting.slow :
              /\ sent[c] = <<>>
              /\ pc[c] = "wait" => answers[c] = 0
              /\ ~(thread[c] = "sleep" /\ sleep[c] >= Update)
              /\ thread[c] # "recv"
         /\ ~(holder = None /\ queue # <<>>)
         /\ ~(holder # None /\ age >= Expire)

Older(t, bound) == IF t < bound THEN t + 1 ELSE t

Tick == /\ Quiet
        /\ timer' = [c \in Clients |-> IF pc[c] \in {"wait", "bye"} THEN Older(timer[c], Update) ELSE 0]
        /\ sleep' = [c \in Clients |-> IF thread[c] = "sleep" THEN Older(sleep[c], Update) ELSE 0]
        /\ age' = IF holder = None THEN 0 ELSE Older(age, Expire)
        /\ UNCHANGED <<setting, pc, weHave, thread, dangling, mutex, tries, network, holder, queue>>

------------------------------------------------------------------------------
Handler(c) == \/ LockOK(c) \/ LockTimeout(c) \/ LockError(c)
              \/ Unlock(c) \/ Bye(c) \/ UnlockNothing(c)

Thread(c) == Wake(c) \/ Receive(c) \/ ReceiveError(c) \/ Dangling(c)

Next == \/ \E c \in Clients : \/ Connect(c) \/ ConnectFails(c)
                              \/ Handler(c) \/ Thread(c)
                              \/ Serve(c) \/ Close(c) \/ Crash(c)
        \/ Grant \/ Forget \/ Tick

(* Handlers and threads run, copies end, the server works, and no number of steps keeps time
   from passing. *)
Fairness == /\ \A c \in Clients : /\ WF_vars(Handler(c)) /\ WF_vars(Thread(c))
                                  /\ WF_vars(Serve(c))
            /\ WF_vars(Grant) /\ WF_vars(Forget) /\ SF_vars(Tick)

Spec == Init /\ [][Next]_vars /\ Fairness

------------------------------------------------------------------------------
TypeOK == /\ setting \in Settings
          /\ pc \in [Clients -> {"idle", "wait", "copy", "bye", "dead"}]
          /\ weHave \in [Clients -> BOOLEAN]
          /\ thread \in [Clients -> {"none", "sleep", "recv"}]
          /\ dangling \in SUBSET Clients
          /\ mutex \in [Clients -> {"main", None}]
          /\ timer \in [Clients -> 0..Update] /\ sleep \in [Clients -> 0..Update]
          /\ tries \in [Clients -> 0..Retries - 1]
          /\ conn \in [Clients -> {"none", "open", "ended", "reset"}]
          /\ sent \in [Clients -> Seq({"L", "U", "FIN"})]
          /\ answers \in [Clients -> Nat]
          /\ holder \in Clients \cup {None} /\ age \in 0..Expire
          /\ queue \in Seq(Clients)

Believes(c) == pc[c] = "copy" /\ weHave[c]

(* The server knows as holder whoever copies in the belief of having its lock, for as long
   as the copying takes, if its thread and network keep up: so two hosts do not.  What a
   slow client does too late takes nothing from it. *)
LockIsHeld == \A c \in Clients \ setting.slow : Believes(c) => holder = c

(* Then the answers of a long copying do not pile up either, although the thread seldom
   reads the one to its last renewal: two, and one that a dangling thread asked for. *)
AnswersBounded == \A c \in Clients \ setting.slow : pc[c] = "copy" => answers[c] <= 3

(* Both calls come to an end, whoever else has the lock and whatever becomes of the
   connection, unless the server ends it while they wait. *)
CallsReturn == \A c \in Clients :
                  pc[c] \in {"wait", "bye"} ~> pc[c] \notin {"wait", "bye"} \/ conn[c] = "ended"

(* When the unlock() of a fast client returns, the server has the lock back, or the line
   that gives it back is under way, although any line may have passed for its answer. *)
GivenBack == [][\A c \in Clients \ setting.slow :
                  pc[c] = "bye" /\ pc'[c] = "idle" =>
                     holder # c \/ \E i \in DOMAIN sent[c] : sent[c][i] = "U"]_vars
================================================================================
