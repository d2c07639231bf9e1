---------------------------- MODULE LockClientProofs ----------------------------
(***************************************************************************)
(* What LockClient guarantees for any number of clients, any intervals     *)
(* with Update < Expire, and any set of slow clients among them: a client  *)
(* that keeps up has the server's lock while it believes so, gives it back,*)
(* and lets no answers pile up.  For each such client the invariant says   *)
(* what is under way between it and the server at each stage of its copy.  *)
(***************************************************************************)
EXTENDS LockClient, SequenceTheorems, TLAPS

Fast == Clients \ setting.slow

OnceEach == \A i, j \in DOMAIN queue : queue[i] = queue[j] => i = j

AllL(lines) == \A i \in 1..Len(lines) : lines[i] = "L"

Asking(c) == pc[c] = "wait" \/ (pc[c] = "copy" /\ ~weHave[c])

(* The connection and the thread at each stage. *)
Staged(c) == /\ conn[c] = IF pc[c] \in {"wait", "copy", "bye"} THEN "open" ELSE "none"
             /\ weHave[c] => pc[c] = "copy"
             /\ Asking(c) \/ pc[c] \in {"idle", "dead"} => thread[c] = "none"
             /\ Believes(c) => thread[c] # "none"

(* Until the lock is granted there is one line under way, or one place in the queue, or
   one answer; no time passes between that and its reading. *)
Asked(c) == Asking(c) =>
  /\ Len(sent[c]) + answers[c] <= 1 /\ AllL(sent[c])
  /\ Waits(c) => sent[c] = <<>> /\ answers[c] = 0
  /\ pc[c] = "wait" /\ answers[c] = 1 => holder = c /\ age = 0

(* The server's clock is not ahead of the thread's, or a renewal is under way. *)
Renewed(c) == Believes(c) => /\ holder = c /\ age <= Update
                             /\ AllL(sent[c]) /\ ~Waits(c)
                             /\ sent[c] = <<>> => age <= sleep[c]

Due(c) == Len(sent[c]) + IF c \in dangling THEN 1 ELSE 0

(* How many answers there may be, and how many are still to come. *)
Read(c) == Believes(c) => /\ Due(c) <= 2
                          /\ sleep[c] > 0 => Due(c) <= 1
                          /\ answers[c] + Due(c) <= IF thread[c] = "sleep" THEN 2 ELSE 3

(* After unlock() has sent its line, that line is the last. *)
Returning(c) == pc[c] = "bye" =>
  /\ ~Waits(c)
  /\ sent[c] = <<>> => holder # c
  /\ sent[c] # <<>> => /\ holder = c /\ age <= Update
                       /\ sent[c][Len(sent[c])] = "U"
                       /\ \A i \in 1..Len(sent[c]) - 1 : sent[c][i] = "L"

(* The server knows that a connection is gone when it has read all of it. *)
Gone(c) == pc[c] \in {"idle", "dead"} => /\ sent[c] = <<>> => ~Waits(c)
                                         /\ sent[c] # <<>> => sent[c][Len(sent[c])] = "FIN"

ClientInv(c) == /\ Staged(c) /\ Asked(c) /\ Renewed(c) /\ Read(c) /\ Returning(c) /\ Gone(c)

IInv == TypeOK /\ OnceEach /\ \A c \in Fast : ClientInv(c)

------------------------------------------------------------------------------
(* The queue. *)

LEMMA Joined ==
  ASSUME NEW s, NEW n \in Nat, NEW k \in 1..n,
         NEW before, \A i \in 1..k - 1 : before[i] = s[i],
         NEW after, \A i \in 1..n - k : after[i] = s[k + i],
         NEW q, \A i \in 1..n - 1 : q[i] = IF i <= k - 1 THEN before[i] ELSE after[i - (k - 1)],
         NEW i \in 1..n - 1
  PROVE  q[i] = s[IF i < k THEN i ELSE i + 1]
<1>1. CASE i < k
  <2>1. i <= k - 1 /\ i \in 1..k - 1
    BY <1>1
  <2>2. QED
    BY <1>1, <2>1
<1>2. CASE ~(i < k)
  <2>1. ~(i <= k - 1) /\ i - (k - 1) \in 1..n - k /\ k + (i - (k - 1)) = i + 1
    BY <1>2
  <2>2. q[i] = after[i - (k - 1)]
    BY <2>1
  <2>3. after[i - (k - 1)] = s[k + (i - (k - 1))]
    BY <2>1
  <2>4. QED
    BY <1>2, <2>1, <2>2, <2>3
<1>3. QED
  BY <1>1, <1>2

LEMMA Removal ==
  ASSUME NEW s \in Seq(Clients), NEW k \in 1..Len(s)
  PROVE  LET q == SubSeq(s, 1, k - 1) \o SubSeq(s, k + 1, Len(s))
         IN  /\ q \in Seq(Clients) /\ Len(q) = Len(s) - 1
             /\ \A i \in 1..Len(q) : q[i] = s[IF i < k THEN i ELSE i + 1]
<1> DEFINE n == Len(s)
           before == SubSeq(s, 1, k - 1)
           after == SubSeq(s, k + 1, n)
           q == before \o after
<1>0. n \in Nat /\ k \in 1..n /\ \A i \in 1..n : s[i] \in Clients
  BY LenProperties, ElementOfSeq
<1>1. /\ before \in Seq(Clients)
      /\ Len(before) = IF 1 <= k - 1 THEN k - 1 - 1 + 1 ELSE 0
      /\ \A i \in 1..k - 1 - 1 + 1 : before[i] = s[1 + i - 1]
  <2>1. 1 \in Int /\ k - 1 \in Int /\ \A i \in 1..k - 1 : s[i] \in Clients
    BY <1>0
  <2>2. QED
    BY <2>1, SubSeqProperties
<1>2. /\ after \in Seq(Clients)
      /\ Len(after) = IF k + 1 <= n THEN n - (k + 1) + 1 ELSE 0
      /\ \A i \in 1..n - (k + 1) + 1 : after[i] = s[k + 1 + i - 1]
  <2>1. k + 1 \in Int /\ n \in Int /\ \A i \in k + 1..n : s[i] \in Clients
    BY <1>0
  <2>2. QED
    BY <2>1, SubSeqProperties
<1>3. /\ q \in Seq(Clients) /\ Len(q) = Len(before) + Len(after)
      /\ \A i \in 1..Len(before) + Len(after) :
           q[i] = IF i <= Len(before) THEN before[i] ELSE after[i - Len(before)]
  BY <1>1, <1>2, ConcatProperties
<1> HIDE DEF q, before, after, n
<1>4. Len(before) = k - 1 /\ Len(after) = n - k /\ Len(q) = n - 1
  BY <1>0, <1>1, <1>2, <1>3
<1>5. \A i \in 1..k - 1 : before[i] = s[i]
  <2> SUFFICES ASSUME NEW i \in 1..k - 1 PROVE before[i] = s[i]
    OBVIOUS
  <2>1. i \in 1..k - 1 - 1 + 1 /\ 1 + i - 1 = i
    BY <1>0
  <2>2. QED
    BY <1>1, <2>1
<1>6. \A i \in 1..n - k : after[i] = s[k + i]
  <2> SUFFICES ASSUME NEW i \in 1..n - k PROVE after[i] = s[k + i]
    OBVIOUS
  <2>1. i \in 1..n - (k + 1) + 1 /\ k + 1 + i - 1 = k + i
    BY <1>0
  <2>2. QED
    BY <1>2, <2>1
<1>7. \A i \in 1..n - 1 : q[i] = IF i <= k - 1 THEN before[i] ELSE after[i - (k - 1)]
  <2>1. Len(before) + Len(after) = n - 1
    BY <1>3, <1>4
  <2>2. QED
    BY <1>3, <1>4, <2>1
<1>8. \A i \in 1..n - 1 : q[i] = s[IF i < k THEN i ELSE i + 1]
  BY <1>0, <1>5, <1>6, <1>7, Joined
<1>9. QED
  BY <1>3, <1>4, <1>8 DEF q, before, after, n

LEMMA OthersWait ==
  ASSUME TypeOK, OnceEach, NEW c \in Clients
  PROVE  /\ Others(c) \in Seq(Clients)
         /\ \A i, j \in 1..Len(Others(c)) : Others(c)[i] = Others(c)[j] => i = j
         /\ \A i \in 1..Len(Others(c)) : Others(c)[i] # c /\ Waits(Others(c)[i])
<1>0. queue \in Seq(Clients) /\ DOMAIN queue = 1..Len(queue) /\ Len(queue) \in Nat
  BY DEF TypeOK
<1>1. CASE ~Waits(c)
  BY <1>0, <1>1 DEF Others, Waits, OnceEach
<1>2. CASE Waits(c)
  <2> DEFINE k == Place(c)
             q == Others(c)
             was(i) == IF i < k THEN i ELSE i + 1
  <2>1. k \in 1..Len(queue) /\ queue[k] = c
    BY <1>0, <1>2 DEF Waits, Place
  <2>2. q = SubSeq(queue, 1, k - 1) \o SubSeq(queue, k + 1, Len(queue))
    BY <1>2 DEF Others
  <2> HIDE DEF k, q
  <2>3. q \in Seq(Clients) /\ Len(q) = Len(queue) - 1 /\ \A i \in 1..Len(q) : q[i] = queue[was(i)]
    BY <1>0, <2>1, <2>2, Removal
  <2>4. \A i \in 1..Len(q) : was(i) \in 1..Len(queue) /\ was(i) # k
    BY <1>0, <2>1, <2>3
  <2>5. \A i, j \in 1..Len(q) : was(i) = was(j) => i = j
    BY <1>0, <2>1, <2>3
  <2> HIDE DEF was
  <2>6. \A i, j \in 1..Len(q) : q[i] = q[j] => i = j
    BY <1>0, <2>3, <2>4, <2>5 DEF OnceEach
  <2>7. \A i \in 1..Len(q) : q[i] # c /\ Waits(q[i])
    BY <1>0, <2>1, <2>3, <2>4 DEF OnceEach, Waits
  <2>8. QED
    BY <2>3, <2>6, <2>7 DEF q
<1>3. QED
  BY <1>1, <1>2

(* Whoever waits afterwards has waited before. *)
LEMMA LeaveQueue ==
  ASSUME TypeOK, OnceEach, NEW c \in Clients, queue' = Others(c)
  PROVE  /\ queue' \in Seq(Clients) /\ OnceEach'
         /\ ~Waits(c)' /\ \A d \in Clients : Waits(d)' => Waits(d)
<1> DEFINE q == Others(c)
<1>1. /\ q \in Seq(Clients)
      /\ \A i, j \in 1..Len(q) : q[i] = q[j] => i = j
      /\ \A i \in 1..Len(q) : q[i] # c /\ Waits(q[i])
  BY OthersWait
<1>2. queue' = q
  OBVIOUS
<1> HIDE DEF q
<1>3. DOMAIN (queue') = 1..Len(queue')
  BY <1>1, <1>2
<1>4. QED
  BY <1>1, <1>2, <1>3 DEF OnceEach, Waits

LEMMA JoinQueue ==
  ASSUME TypeOK, OnceEach, NEW c \in Clients, queue' = Others(c) \o <<c>>
  PROVE  /\ queue' \in Seq(Clients) /\ OnceEach'
         /\ \A d \in Clients \ {c} : Waits(d)' => Waits(d)
<1> DEFINE q == Others(c)
<1>1. /\ q \in Seq(Clients)
      /\ \A i, j \in 1..Len(q) : q[i] = q[j] => i = j
      /\ \A i \in 1..Len(q) : q[i] # c /\ Waits(q[i])
  BY OthersWait
<1>2. queue' = q \o <<c>>
  OBVIOUS
<1> HIDE DEF q
<1>3. queue' \in Seq(Clients) /\ Len(queue') = Len(q) + 1 /\ DOMAIN (queue') = 1..Len(queue')
  <2>1. <<c>> \in Seq(Clients) /\ Len(<<c>>) = 1
    OBVIOUS
  <2>2. q \o <<c>> \in Seq(Clients) /\ Len(q \o <<c>>) = Len(q) + 1
    BY <1>1, <2>1, ConcatProperties
  <2>3. queue' \in Seq(Clients) /\ Len(queue') = Len(q) + 1
    BY <1>2, <2>2
  <2>4. QED
    BY <2>3, LenProperties
<1>4. \A i \in 1..Len(queue') : queue'[i] = IF i <= Len(q) THEN q[i] ELSE c
  BY <1>1, <1>2
<1>5. OnceEach'
  BY <1>1, <1>3, <1>4 DEF OnceEach
<1>6. \A d \in Clients \ {c} : Waits(d)' => Waits(d)
  BY <1>1, <1>3, <1>4 DEF Waits
<1>7. QED
  BY <1>3, <1>5, <1>6

LEMMA HeadOfQueue ==
  ASSUME TypeOK, OnceEach, queue # <<>>, queue' = Tail(queue)
  PROVE  /\ queue' \in Seq(Clients) /\ OnceEach'
         /\ Head(queue) \in Clients /\ Waits(Head(queue))
         /\ \A d \in Clients : Waits(d)' => Waits(d) /\ d # Head(queue)
<1>1. queue \in Seq(Clients) /\ Len(queue) \in Nat \ {0} /\ DOMAIN queue = 1..Len(queue)
  BY DEF TypeOK
<1>2. queue' \in Seq(Clients) /\ Len(queue') = Len(queue) - 1 /\ DOMAIN (queue') = 1..Len(queue')
  BY <1>1
<1>3. \A i \in 1..Len(queue') : queue'[i] = queue[i + 1]
  BY <1>1, <1>2
<1>4. Head(queue) = queue[1]
  BY <1>1
<1>5. Head(queue) \in Clients /\ Waits(Head(queue))
  BY <1>1, <1>4 DEF Waits
<1>6. OnceEach'
  BY <1>1, <1>2, <1>3 DEF OnceEach
<1>7. \A d \in Clients : Waits(d)' => Waits(d) /\ d # Head(queue)
  BY <1>1, <1>2, <1>3, <1>4 DEF OnceEach, Waits
<1>8. QED
  BY <1>2, <1>5, <1>6, <1>7

------------------------------------------------------------------------------
(* Types. *)

Message == {"L", "U", "FIN"}

LEMMA Intervals == /\ Update \in Nat \ {0} /\ Expire \in Nat \ {0} /\ Retries \in Nat \ {0}
                   /\ Update < Expire /\ None \notin Clients
                   /\ 0 \in 0..Update /\ 0 \in 0..Expire /\ 0 \in 0..Retries - 1
BY LockClientAssumption

LEMMA Lines ==
  ASSUME TypeOK, NEW c \in Clients
  PROVE  /\ sent \in [Clients -> Seq(Message)]
         /\ \A x \in Message : Send(c, <<x>>) => sent' \in [Clients -> Seq(Message)]
         /\ sent[c] # <<>> => /\ [sent EXCEPT ![c] = Tail(@)] \in [Clients -> Seq(Message)]
                              /\ Len(Tail(sent[c])) = Len(sent[c]) - 1
                              /\ \A i \in 1..Len(Tail(sent[c])) : Tail(sent[c])[i] = sent[c][i + 1]
<1>1. sent \in [Clients -> Seq(Message)]
  BY DEF TypeOK, Message
<1>2. ASSUME NEW x \in Message, Send(c, <<x>>)
      PROVE  sent' \in [Clients -> Seq(Message)]
  <2>1. <<x>> \in Seq(Message)
    OBVIOUS
  <2>2. sent[c] \o <<x>> \in Seq(Message)
    BY <1>1, <2>1, ConcatProperties
  <2>3. QED
    BY <1>1, <1>2, <2>2 DEF Send
<1>3. ASSUME sent[c] # <<>>
      PROVE  /\ [sent EXCEPT ![c] = Tail(@)] \in [Clients -> Seq(Message)]
             /\ Len(Tail(sent[c])) = Len(sent[c]) - 1
             /\ \A i \in 1..Len(Tail(sent[c])) : Tail(sent[c])[i] = sent[c][i + 1]
  <2>1. sent[c] \in Seq(Message)
    BY <1>1
  <2>2. /\ Tail(sent[c]) \in Seq(Message)
        /\ Len(Tail(sent[c])) = Len(sent[c]) - 1
        /\ \A i \in 1..Len(Tail(sent[c])) : Tail(sent[c])[i] = sent[c][i + 1]
    BY <1>3, <2>1, HeadTailProperties
  <2>3. QED
    BY <1>1, <2>2
<1>4. QED
  BY <1>1, <1>2, <1>3

LEMMA ServerType ==
  ASSUME TypeOK, OnceEach, NEW c \in Clients, Serve(c)
  PROVE  /\ queue' \in Seq(Clients) /\ OnceEach'
         /\ answers' \in [Clients -> Nat] /\ holder' \in Clients \cup {None} /\ age' \in 0..Expire
         /\ \A d \in Clients \ {c} : Waits(d)' => Waits(d)
<1>1. /\ queue \in Seq(Clients) /\ answers \in [Clients -> Nat]
      /\ holder \in Clients \cup {None} /\ age \in 0..Expire /\ 0 \in 0..Expire
  BY Intervals DEF TypeOK
<1>2. \A rest : Answer(c, rest) => answers' \in [Clients -> Nat]
  BY <1>1 DEF Answer
<1>3. CASE Ask(c)
  <2>1. CASE holder' = c /\ age' = 0 /\ queue' = Others(c) /\ Answer(c, Tail(sent[c]))
    BY <1>1, <1>2, <2>1, LeaveQueue
  <2>2. CASE queue' = Others(c) \o <<c>> /\ UNCHANGED <<holder, age, answers>>
    BY <1>1, <2>2, JoinQueue
  <2>3. QED
    BY <1>3, <2>1, <2>2 DEF Ask
<1>4. CASE GiveBack(c)
  <2>1. Answer(c, Tail(sent[c])) /\ UNCHANGED queue /\ \/ holder' = None /\ age' = 0
                                                       \/ UNCHANGED <<holder, age>>
    BY <1>4 DEF GiveBack
  <2>2. QED
    BY <1>1, <1>2, <2>1 DEF OnceEach, Waits
<1>5. CASE Finish(c)
  BY <1>1, <1>5, LeaveQueue DEF Finish
<1>6. QED
  BY <1>3, <1>4, <1>5 DEF Serve

LEMMA QueueKept == ASSUME OnceEach, UNCHANGED queue PROVE OnceEach'
BY DEF OnceEach

LEMMA NextTypeOK == TypeOK /\ OnceEach /\ [Next]_vars => TypeOK' /\ OnceEach'
<1> SUFFICES ASSUME TypeOK, OnceEach, [Next]_vars PROVE TypeOK' /\ OnceEach'
  OBVIOUS
<1> USE Intervals DEF TypeOK, network, server, client
<1>1. ASSUME NEW c \in Clients, Connect(c) PROVE TypeOK' /\ OnceEach'
  <2>1. sent' \in [Clients -> Seq(Message)]
    BY <1>1, Lines DEF Connect, Message, Send
  <2>2. TypeOK'
    BY <1>1, <2>1 DEF Connect, Message, Goto, NoWait
  <2>3. QED
    BY <1>1, <2>2, QueueKept DEF Connect
<1>2. ASSUME NEW c \in Clients, ConnectFails(c) PROVE TypeOK' /\ OnceEach'
  <2>1. TypeOK'
    BY <1>2 DEF ConnectFails, Goto
  <2>2. QED
    BY <1>2, <2>1, QueueKept DEF ConnectFails
<1>3. ASSUME NEW c \in Clients, LockOK(c) PROVE TypeOK' /\ OnceEach'
  <2>a. answers' \in [Clients -> Nat]
    <3>1. answers[c] - 1 \in Nat
      BY <1>3 DEF LockOK
    <3>2. QED
      BY <1>3, <3>1 DEF LockOK
  <2>b. thread' \in [Clients -> {"none", "sleep", "recv"}]
    BY <1>3 DEF LockOK
  <2>1. TypeOK'
    BY <1>3, <2>a, <2>b DEF LockOK, Goto, NoWait
  <2>2. QED
    BY <1>3, <2>1, QueueKept DEF LockOK
<1>4. ASSUME NEW c \in Clients, LockTimeout(c) PROVE TypeOK' /\ OnceEach'
  <2>a. /\ tries' \in [Clients -> 0..Retries - 1]
        /\ pc' \in [Clients -> {"idle", "wait", "copy", "bye", "dead"}]
    <3>1. CASE tries[c] + 1 < Retries
      <4>1. tries[c] + 1 \in 0..Retries - 1
        BY <3>1
      <4>2. tries' = [tries EXCEPT ![c] = tries[c] + 1] /\ pc' = pc
        BY <1>4, <3>1 DEF LockTimeout
      <4>3. QED
        BY <4>1, <4>2
    <3>2. CASE ~(tries[c] + 1 < Retries)
      <4>1. tries' = [tries EXCEPT ![c] = 0] /\ pc' = [pc EXCEPT ![c] = "copy"]
        BY <1>4, <3>2 DEF LockTimeout, Goto
      <4>2. QED
        BY <4>1
    <3>3. QED
      BY <3>1, <3>2
  <2>1. TypeOK'
    BY <1>4, <2>a DEF LockTimeout
  <2>2. QED
    BY <1>4, <2>1, QueueKept DEF LockTimeout
<1>5. ASSUME NEW c \in Clients, LockError(c) PROVE TypeOK' /\ OnceEach'
  <2>1. TypeOK'
    BY <1>5 DEF LockError, Goto, NoWait
  <2>2. QED
    BY <1>5, <2>1, QueueKept DEF LockError
<1>6. ASSUME NEW c \in Clients, Unlock(c) PROVE TypeOK' /\ OnceEach'
  <2>1. sent' \in [Clients -> Seq(Message)]
    BY <1>6, Lines DEF Unlock, Message
  <2>2. TypeOK'
    BY <1>6, <2>1 DEF Unlock, Message, Goto
  <2>3. QED
    BY <1>6, <2>2, QueueKept DEF Unlock
<1>7. ASSUME NEW c \in Clients, Destroyed(c), UNCHANGED <<setting, weHave, server>>,
             mutex' \in [Clients -> {"main", None}]
      PROVE  TypeOK' /\ OnceEach'
  <2>1. sent' \in [Clients -> Seq(Message)]
    BY <1>7, Lines DEF Destroyed, DeleteStream, Message
  <2>2. TypeOK'
    BY <1>7, <2>1 DEF Destroyed, DeleteStream, Goto, NoWait, Message
  <2>3. QED
    BY <1>7, <2>2, QueueKept
<1>8. ASSUME NEW c \in Clients, Bye(c) PROVE TypeOK' /\ OnceEach'
  BY <1>7, <1>8 DEF Bye
<1>9. ASSUME NEW c \in Clients, UnlockNothing(c) PROVE TypeOK' /\ OnceEach'
  BY <1>7, <1>9 DEF UnlockNothing
<1>10. ASSUME NEW c \in Clients, Wake(c) PROVE TypeOK' /\ OnceEach'
  <2>1. sent' \in [Clients -> Seq(Message)]
    BY <1>10, Lines DEF Wake, Message
  <2>2. TypeOK'
    <3>1. weHave' \in [Clients -> BOOLEAN] /\ thread' \in [Clients -> {"none", "sleep", "recv"}]
      BY <1>10 DEF Wake
    <3>2. sleep' \in [Clients -> 0..Update]
      BY <1>10 DEF Wake
    <3>3. UNCHANGED <<setting, pc, dangling, mutex, timer, tries, conn, answers, holder, age, queue>>
      BY <1>10 DEF Wake, server
    <3> QED
      BY <2>1, <3>1, <3>2, <3>3 DEF Message
  <2>3. QED
    BY <1>10, <2>2, QueueKept DEF Wake
<1>11. ASSUME NEW c \in Clients, Receive(c) PROVE TypeOK' /\ OnceEach'
  <2>1. TypeOK'
    BY <1>11, SMTT(30) DEF Receive
  <2>2. QED
    BY <1>11, <2>1, QueueKept DEF Receive
<1>12. ASSUME NEW c \in Clients, ReceiveError(c) PROVE TypeOK' /\ OnceEach'
  <2>1. TypeOK'
    BY <1>12 DEF ReceiveError
  <2>2. QED
    BY <1>12, <2>1, QueueKept DEF ReceiveError
<1>13. ASSUME NEW c \in Clients, Dangling(c) PROVE TypeOK' /\ OnceEach'
  <2>1. sent' \in [Clients -> Seq(Message)]
    BY <1>13, Lines DEF Dangling, Message
  <2>2. TypeOK'
    BY <1>13, <2>1 DEF Dangling, Message
  <2>3. QED
    BY <1>13, <2>2, QueueKept DEF Dangling
<1>14. ASSUME NEW c \in Clients, Serve(c) PROVE TypeOK' /\ OnceEach'
  <2>1. sent' \in [Clients -> Seq(Message)]
    BY <1>14, Lines DEF Serve
  <2>2. QED
    BY <1>14, <2>1, ServerType DEF Serve, Message
<1>15. ASSUME NEW c \in Clients, Close(c) PROVE TypeOK' /\ OnceEach'
  <2>1. conn' \in [Clients -> {"none", "open", "ended", "reset"}]
    BY <1>15 DEF Close
  <2>2. sent' \in [Clients -> Seq(Message)]
    BY <1>15 DEF Close, Message
  <2>3. QED
    BY <1>15, <2>1, <2>2, LeaveQueue DEF Close, Message
<1>16. ASSUME NEW c \in Clients, Crash(c) PROVE TypeOK' /\ OnceEach'
  <2>1. sent' \in [Clients -> Seq(Message)]
    BY <1>16, Lines DEF Crash, Message, DeleteStream
  <2>2. TypeOK'
    BY <1>16, <2>1 DEF Crash, Message, DeleteStream, Goto, NoWait
  <2>3. QED
    BY <1>16, <2>2, QueueKept DEF Crash
<1>17. CASE Grant
  <2>1. answers' \in [Clients -> Nat]
    <3>1. PICK h \in Clients : h = Head(queue)
      BY <1>17, HeadOfQueue DEF Grant
    <3>2. Answer(h, sent[h])
      BY <1>17, <3>1 DEF Grant
    <3>3. QED
      BY <3>2 DEF Answer
  <2>2. QED
    BY <1>17, <2>1, HeadOfQueue DEF Grant
<1>18. CASE Forget
  BY <1>18, QueueKept DEF Forget
<1>19. CASE Tick
  <2>1. timer' \in [Clients -> 0..Update] /\ sleep' \in [Clients -> 0..Update]
    BY <1>19 DEF Tick, Older
  <2>2. age' \in 0..Expire
    BY <1>19 DEF Tick, Older
  <2>3. QED
    BY <1>19, <2>1, <2>2, QueueKept DEF Tick
<1>20. CASE UNCHANGED vars
  BY <1>20, QueueKept DEF vars
<1>21. QED
  BY <1>1, <1>2, <1>3, <1>4, <1>5, <1>6, <1>8, <1>9, <1>10, <1>11, <1>12, <1>13, <1>14, <1>15,
     <1>16, <1>17, <1>18, <1>19, <1>20 DEF Next, Handler, Thread

------------------------------------------------------------------------------
(* Steps. *)

SameClient(c) == /\ pc'[c] = pc[c] /\ weHave'[c] = weHave[c] /\ thread'[c] = thread[c]
                 /\ c \in dangling' <=> c \in dangling
                 /\ sleep'[c] = sleep[c] /\ conn'[c] = conn[c]
                 /\ sent'[c] = sent[c] /\ answers'[c] = answers[c]

SameLock(c) == /\ holder' = c <=> holder = c
               /\ holder = c => age' = age
               /\ Waits(c)' => Waits(c)

USE DEF ClientInv

(* What a client sees of the steps of the others. *)
LEMMA Bystander ==
  ASSUME NEW c \in Clients, ClientInv(c), SameClient(c), SameLock(c)
  PROVE  ClientInv(c)'
<1> USE DEF SameClient, SameLock, Asking, Believes
<1>1. Staged(c)'
  BY DEF Staged
<1>2. Asked(c)'
  BY DEF Asked, AllL
<1>3. Renewed(c)'
  BY DEF Renewed, AllL
<1>4. Read(c)'
  BY DEF Read, Due
<1>5. Returning(c)' /\ Gone(c)'
  BY DEF Returning, Gone
<1>6. QED
  BY <1>1, <1>2, <1>3, <1>4, <1>5

(* Sequences that get one line more. *)
LEMMA OneMore ==
  ASSUME TypeOK, NEW c \in Clients, NEW x \in Message, sent'[c] = sent[c] \o <<x>>
  PROVE  /\ Len(sent[c]) \in Nat
         /\ Len(sent'[c]) = Len(sent[c]) + 1 /\ sent'[c] # <<>>
         /\ sent'[c][Len(sent'[c])] = x
         /\ \A i \in 1..Len(sent[c]) : sent'[c][i] = sent[c][i]
<1>1. sent[c] \in Seq(Message) /\ <<x>> \in Seq(Message) /\ Len(<<x>>) = 1 /\ <<x>>[1] = x
  BY Lines
<1>2. Len(sent[c]) \in Nat
  BY <1>1, LenProperties
<1>3. /\ Len(sent'[c]) = Len(sent[c]) + 1
      /\ \A i \in 1..Len(sent[c]) + 1 : sent'[c][i] = IF i <= Len(sent[c]) THEN sent[c][i] ELSE <<x>>[i - Len(sent[c])]
  BY <1>1, ConcatProperties
<1>4. sent'[c] # <<>>
  BY <1>2, <1>3
<1>5. Len(sent[c]) + 1 \in 1..Len(sent[c]) + 1 /\ Len(sent[c]) + 1 - Len(sent[c]) = 1
  BY <1>2
<1>6. sent'[c][Len(sent'[c])] = x
  BY <1>1, <1>2, <1>3, <1>5
<1>7. \A i \in 1..Len(sent[c]) : sent'[c][i] = sent[c][i]
  BY <1>2, <1>3
<1>8. QED
  BY <1>2, <1>3, <1>4, <1>6, <1>7

(* And that lose the first. *)
LEMMA OneLess ==
  ASSUME TypeOK, NEW c \in Clients, sent[c] # <<>>, sent'[c] = Tail(sent[c])
  PROVE  /\ Len(sent[c]) \in Nat \ {0} /\ Len(sent'[c]) = Len(sent[c]) - 1
         /\ Head(sent[c]) = sent[c][1] /\ DOMAIN (sent'[c]) = 1..Len(sent'[c])
         /\ \A i \in 1..Len(sent'[c]) : sent'[c][i] = sent[c][i + 1]
         /\ sent'[c] = <<>> <=> Len(sent[c]) = 1
<1>1. sent[c] \in Seq(Message)
  BY Lines
<1>2. Len(sent[c]) \in Nat \ {0}
  BY <1>1, EmptySeq
<1>3. /\ sent'[c] \in Seq(Message) /\ Len(sent'[c]) = Len(sent[c]) - 1
      /\ \A i \in 1..Len(sent'[c]) : sent'[c][i] = sent[c][i + 1]
  BY <1>1, HeadTailProperties
<1>4. sent'[c] = <<>> <=> Len(sent'[c]) = 0
  BY <1>3, EmptySeq
<1>5. Head(sent[c]) = sent[c][1]
  BY <1>1
<1>6. DOMAIN (sent'[c]) = 1..Len(sent'[c])
  BY <1>3, LenProperties
<1>7. QED
  BY <1>2, <1>3, <1>4, <1>5, <1>6

(* Numbers of a client. *)
LEMMA Numbers ==
  ASSUME TypeOK, NEW c \in Clients
  PROVE  /\ Len(sent[c]) \in Nat /\ answers[c] \in Nat /\ age \in 0..Expire /\ sleep[c] \in 0..Update
         /\ sent[c] = <<>> <=> Len(sent[c]) = 0
         /\ Due(c) \in Nat /\ Due(c) \in {Len(sent[c]), Len(sent[c]) + 1}
         /\ holder # None \/ holder # c
<1>1. sent[c] \in Seq(Message)
  BY Lines
<1>2. Len(sent[c]) \in Nat /\ (sent[c] = <<>> <=> Len(sent[c]) = 0)
  BY <1>1, EmptySeq
<1>3. QED
  BY <1>2, Intervals DEF TypeOK, Due

(* The step of one client. *)
LEMMA OneClient ==
  ASSUME IInv, NEW c \in Clients, UNCHANGED setting, TypeOK', OnceEach',
         \A d \in Clients \ {c} : SameClient(d) /\ SameLock(d),
         c \in Fast => ClientInv(c)'
  PROVE  IInv'
<1>1. ASSUME NEW d \in Fast, d # c PROVE ClientInv(d)'
  <2>1. ClientInv(d) /\ SameClient(d) /\ SameLock(d)
    BY <1>1 DEF IInv, Fast
  <2>2. QED
    BY <1>1, <2>1, Bystander DEF Fast
<1>2. \A d \in Fast : ClientInv(d)'
  BY <1>1
<1>3. QED
  BY <1>2 DEF IInv, Fast

LEMMA InitIInv == Init => IInv
<1> SUFFICES ASSUME Init PROVE IInv
  OBVIOUS
<1> USE DEF Init
<1>1. TypeOK
  BY Intervals DEF TypeOK
<1>2. OnceEach
  BY DEF OnceEach
<1>3. ASSUME NEW c \in Fast PROVE ClientInv(c)
  BY Intervals DEF Fast, Staged, Asked, Asking, Believes, Renewed, Read, Returning, Gone, Waits
<1>4. QED
  BY <1>1, <1>2, <1>3 DEF IInv

------------------------------------------------------------------------------
(* lock() *)

LEMMA ConnectInv == ASSUME IInv, NEW c \in Clients, Connect(c) PROVE IInv'
<1>0. TypeOK /\ TypeOK' /\ OnceEach' /\ UNCHANGED setting
  BY NextTypeOK DEF IInv, Next, Connect
<1>1. \A d \in Clients \ {c} : SameClient(d) /\ SameLock(d)
  BY <1>0 DEF Connect, Goto, NoWait, TypeOK, SameClient, SameLock, Waits, server
<1>2. ASSUME c \in Fast PROVE ClientInv(c)'
  <2>1. Staged(c) /\ Gone(c)
    BY <1>2 DEF IInv
  <2>2. /\ pc[c] = "idle" /\ pc'[c] = "wait" /\ weHave'[c] = weHave[c] /\ thread'[c] = thread[c]
        /\ conn'[c] = "open" /\ answers'[c] = 0 /\ queue' = queue
    BY <1>0 DEF Connect, Goto, TypeOK, server
  <2>3. sent[c] = <<>> /\ sent'[c] = sent[c] \o <<"L">>
    BY <1>0 DEF Connect, TypeOK
  <2>4. sent'[c] # <<>> /\ Len(sent'[c]) = 1 /\ sent'[c][1] = "L"
    <3>1. "L" \in Message
      BY DEF Message
    <3>2. Len(sent[c]) = 0 /\ Len(sent'[c]) = Len(sent[c]) + 1 /\ sent'[c] # <<>>
          /\ sent'[c][Len(sent'[c])] = "L"
      BY <1>0, <2>3, <3>1, OneMore, Numbers
    <3>3. QED
      BY <3>2
  <2>5. ~Waits(c)'
    BY <2>1, <2>2, <2>3 DEF Gone, Waits
  <2>6. AllL(sent[c])'
    BY <2>4 DEF AllL
  <2>7. QED
    BY <2>1, <2>2, <2>4, <2>5, <2>6 DEF Staged, Asked, Asking, Renewed, Read, Believes, Returning, Gone
<1>3. QED
  BY <1>0, <1>1, <1>2, OneClient

LEMMA ConnectFailsInv == ASSUME IInv, NEW c \in Clients, ConnectFails(c) PROVE IInv'
<1>0. TypeOK /\ TypeOK' /\ OnceEach' /\ UNCHANGED setting
  BY NextTypeOK DEF IInv, Next, ConnectFails
<1>1. \A d \in Clients \ {c} : SameClient(d) /\ SameLock(d)
  BY <1>0 DEF ConnectFails, Goto, TypeOK, SameClient, SameLock, Waits, network, server
<1>2. c \notin Fast
  BY DEF ConnectFails, Fast
<1>3. QED
  BY <1>0, <1>1, <1>2, OneClient

LEMMA LockOKInv == ASSUME IInv, NEW c \in Clients, LockOK(c) PROVE IInv'
<1>0. TypeOK /\ TypeOK' /\ OnceEach' /\ UNCHANGED setting
  BY NextTypeOK DEF IInv, Next, Handler, LockOK
<1>1. \A d \in Clients \ {c} : SameClient(d) /\ SameLock(d)
  BY <1>0, SMTT(30) DEF LockOK, Goto, NoWait, TypeOK, SameClient, SameLock, Waits, server
<1>2. ASSUME c \in Fast PROVE ClientInv(c)'
  <2>1. Staged(c) /\ Asked(c)
    BY <1>2 DEF IInv
  <2>2. /\ pc[c] = "wait" /\ answers[c] > 0 /\ pc'[c] = "copy" /\ weHave'[c] = TRUE
        /\ thread'[c] = "sleep" /\ conn'[c] = conn[c] /\ answers'[c] = answers[c] - 1
        /\ queue' = queue /\ sleep'[c] = 0 /\ sent' = sent /\ dangling' = dangling
        /\ holder' = holder /\ age' = age
    BY <1>0, <1>2 DEF LockOK, Goto, TypeOK, server, Fast
  <2>3. answers[c] = 1 /\ Len(sent[c]) = 0 /\ sent[c] = <<>>
    BY <1>0, <2>1, <2>2, Numbers DEF Asked, Asking
  <2>4. ~Waits(c) /\ holder = c /\ age = 0
    BY <2>1, <2>2, <2>3 DEF Asked, Asking
  <2>5. ~Waits(c)'
    BY <2>2, <2>4 DEF Waits
  <2>6. Staged(c)' /\ Asked(c)' /\ Returning(c)' /\ Gone(c)'
    BY <2>1, <2>2 DEF Staged, Asked, Asking, Believes, Returning, Gone
  <2>7. Renewed(c)'
    BY <2>2, <2>3, <2>4, <2>5, Intervals DEF Renewed, AllL
  <2>8. Read(c)'
    BY <2>2, <2>3 DEF Read, Due
  <2>9. QED
    BY <2>6, <2>7, <2>8
<1>3. QED
  BY <1>0, <1>1, <1>2, OneClient

LEMMA LockTimeoutInv == ASSUME IInv, NEW c \in Clients, LockTimeout(c) PROVE IInv'
<1>0. TypeOK /\ TypeOK' /\ OnceEach' /\ UNCHANGED setting
  BY NextTypeOK DEF IInv, Next, Handler, LockTimeout
<1>a. /\ UNCHANGED <<weHave, thread, dangling, sleep, conn, sent, answers, holder, age, queue>>
      /\ pc[c] = "wait" /\ answers[c] = 0
      /\ pc' \in {pc, [pc EXCEPT ![c] = "copy"]}
  BY DEF LockTimeout, Goto, network, server
<1>1. \A d \in Clients \ {c} : SameClient(d) /\ SameLock(d)
  BY <1>0, <1>a DEF TypeOK, SameClient, SameLock, Waits
<1>2. ASSUME c \in Fast PROVE ClientInv(c)'
  <2>1. Staged(c) /\ Asked(c)
    BY <1>2 DEF IInv
  <2>2. pc'[c] \in {"wait", "copy"}
    BY <1>0, <1>a DEF TypeOK
  <2>3. ~weHave[c]
    BY <1>a, <2>1 DEF Staged
  <2>4. Staged(c)' /\ Renewed(c)' /\ Read(c)' /\ Returning(c)' /\ Gone(c)'
    BY <1>a, <2>1, <2>2, <2>3 DEF Staged, Asking, Believes, Renewed, Read, Returning, Gone
  <2>5. Asked(c)'
    BY <1>a, <2>1, <2>2, <2>3 DEF Asked, Asking, AllL, Waits
  <2>6. QED
    BY <2>4, <2>5
<1>3. QED
  BY <1>0, <1>1, <1>2, OneClient

LEMMA LockErrorInv == ASSUME IInv, NEW c \in Clients, LockError(c) PROVE IInv'
<1>0. TypeOK /\ TypeOK' /\ OnceEach' /\ UNCHANGED setting
  BY NextTypeOK DEF IInv, Next, Handler, LockError
<1>1. \A d \in Clients \ {c} : SameClient(d) /\ SameLock(d)
  BY <1>0 DEF LockError, Goto, NoWait, TypeOK, SameClient, SameLock, Waits, network, server
<1>2. c \notin Fast
  BY DEF LockError, IInv, Staged
<1>3. QED
  BY <1>0, <1>1, <1>2, OneClient

------------------------------------------------------------------------------
(* The thread. *)

LEMMA WakeInv == ASSUME IInv, NEW c \in Clients, Wake(c) PROVE IInv'
<1>0. TypeOK /\ TypeOK' /\ OnceEach' /\ UNCHANGED setting
  BY NextTypeOK DEF IInv, Next, Thread, Wake
<1>1. \A d \in Clients \ {c} : SameClient(d) /\ SameLock(d)
  BY <1>0 DEF Wake, Send, TypeOK, SameClient, SameLock, Waits, server
<1>2. ASSUME c \in Fast PROVE ClientInv(c)'
  <2>1. Staged(c) /\ Renewed(c) /\ Read(c) /\ Returning(c)
    BY <1>2 DEF IInv
  <2>2. /\ UNCHANGED <<pc, dangling, conn, answers, holder, age, queue>>
        /\ sleep'[c] = 0 /\ thread[c] = "sleep" /\ sleep[c] > 0
    BY <1>0, Intervals DEF Wake, TypeOK, server
  <2>3. conn[c] = "open" /\ pc[c] \in {"copy", "bye"} /\ (weHave[c] => Believes(c))
    BY <1>0, <2>1, <2>2 DEF Staged, Asking, Believes, TypeOK
  <2>4. CASE weHave[c] /\ Send(c, <<"L">>) /\ thread' = [thread EXCEPT ![c] = "recv"] /\ UNCHANGED weHave
    <3>1. sent'[c] = sent[c] \o <<"L">> /\ thread'[c] = "recv" /\ "L" \in Message
      BY <1>0, <2>3, <2>4 DEF Send, TypeOK, Message
    <3>2. /\ Len(sent[c]) \in Nat
          /\ Len(sent'[c]) = Len(sent[c]) + 1 /\ sent'[c] # <<>>
          /\ sent'[c][Len(sent'[c])] = "L"
          /\ \A i \in 1..Len(sent[c]) : sent'[c][i] = sent[c][i]
      BY <1>0, <3>1, OneMore
    <3>3. Believes(c) /\ AllL(sent[c]) /\ ~Waits(c) /\ holder = c /\ age <= Update
      BY <2>1, <2>3, <2>4 DEF Renewed
    <3>4. AllL(sent[c])' /\ ~Waits(c)'
      BY <2>2, <3>2, <3>3, SMTT(30) DEF AllL, Waits
    <3>5. Renewed(c)'
      BY <2>2, <3>2, <3>3, <3>4 DEF Renewed
    <3>6. Due(c) <= 1 /\ answers[c] + Due(c) <= 2
      BY <2>1, <2>2, <3>3 DEF Read
    <3>7. Due(c)' = Due(c) + 1 /\ Due(c) \in Nat /\ answers[c] \in Nat
      <4>1. dangling' = dangling
        BY <2>2
      <4>2. Due(c)' = Due(c) + 1
        <5>1. CASE c \in dangling
          BY <3>2, <4>1, <5>1 DEF Due
        <5>2. CASE c \notin dangling
          BY <3>2, <4>1, <5>2 DEF Due
        <5>3. QED
          BY <5>1, <5>2
      <4>3. QED
        BY <1>0, <4>2, Numbers
    <3> HIDE DEF Due
    <3>8. Read(c)'
      BY <2>2, <3>1, <3>6, <3>7 DEF Read
    <3>9. Staged(c)' /\ Asked(c)' /\ Returning(c)' /\ Gone(c)'
      BY <2>1, <2>2, <2>4, <3>1, <3>3 DEF Staged, Asked, Asking, Believes, Returning, Gone
    <3>10. QED
      BY <3>5, <3>8, <3>9
  <2>5. CASE (~weHave[c] \/ conn[c] # "open") /\ weHave' = [weHave EXCEPT ![c] = FALSE]
             /\ thread' = [thread EXCEPT ![c] = "none"] /\ UNCHANGED sent
    <3>1. ~weHave[c] /\ weHave'[c] = FALSE /\ thread'[c] = "none" /\ sent'[c] = sent[c]
      BY <1>0, <2>3, <2>5 DEF TypeOK
    <3>2. pc[c] = "bye"
      BY <2>1, <2>2, <2>3, <3>1 DEF Staged, Asking
    <3>3. Staged(c)' /\ Asked(c)' /\ Renewed(c)' /\ Read(c)' /\ Gone(c)'
      BY <2>1, <2>2, <3>1, <3>2 DEF Staged, Asked, Asking, Believes, Renewed, Read, Gone
    <3>4. Returning(c)'
      BY <2>1, <2>2, <3>1 DEF Returning, Waits
    <3>5. QED
      BY <3>3, <3>4
  <2>6. QED
    BY <2>4, <2>5 DEF Wake
<1>3. QED
  BY <1>0, <1>1, <1>2, OneClient

LEMMA ReceiveInv == ASSUME IInv, NEW c \in Clients, Receive(c) PROVE IInv'
<1>0. TypeOK /\ TypeOK' /\ OnceEach' /\ UNCHANGED setting
  BY NextTypeOK DEF IInv, Next, Thread, Receive
<1>a. /\ UNCHANGED <<pc, weHave, dangling, sleep, conn, sent, holder, age, queue>>
      /\ thread[c] = "recv" /\ thread' = [thread EXCEPT ![c] = "sleep"]
      /\ answers' = [answers EXCEPT ![c] = IF @ > 0 THEN @ - 1 ELSE 0]
  BY DEF Receive, server
<1>1. \A d \in Clients \ {c} : SameClient(d) /\ SameLock(d)
  BY <1>0, <1>a DEF TypeOK, SameClient, SameLock, Waits
<1>2. ASSUME c \in Fast PROVE ClientInv(c)'
  <2>1. Staged(c) /\ Renewed(c) /\ Read(c) /\ Returning(c)
    BY <1>2 DEF IInv
  <2>2. thread'[c] = "sleep" /\ answers'[c] = IF answers[c] > 0 THEN answers[c] - 1 ELSE 0
    BY <1>0, <1>a DEF TypeOK
  <2>3. ~Asking(c) /\ pc[c] \notin {"idle", "dead"}
    BY <1>a, <2>1 DEF Staged
  <2>4. Staged(c)' /\ Asked(c)' /\ Returning(c)' /\ Gone(c)'
    BY <1>a, <2>1, <2>2, <2>3 DEF Staged, Asked, Asking, Believes, Returning, Gone, Waits
  <2>5. Renewed(c)'
    BY <1>a, <2>1 DEF Renewed, Believes, AllL, Waits
  <2>6. Due(c)' = Due(c) /\ Due(c) \in Nat /\ answers[c] \in Nat
    BY <1>0, <1>a, Numbers DEF Due
  <2>7. Read(c)'
    BY <1>a, <2>1, <2>2, <2>6 DEF Read, Believes
  <2>8. QED
    BY <2>4, <2>5, <2>7
<1>3. QED
  BY <1>0, <1>1, <1>2, OneClient

LEMMA ReceiveErrorInv == ASSUME IInv, NEW c \in Clients, ReceiveError(c) PROVE IInv'
<1>0. TypeOK /\ TypeOK' /\ OnceEach' /\ UNCHANGED setting
  BY NextTypeOK DEF IInv, Next, Thread, ReceiveError
<1>1. \A d \in Clients \ {c} : SameClient(d) /\ SameLock(d)
  BY <1>0 DEF ReceiveError, TypeOK, SameClient, SameLock, Waits, network, server
<1>2. c \notin Fast
  BY DEF ReceiveError, IInv, Staged
<1>3. QED
  BY <1>0, <1>1, <1>2, OneClient

LEMMA DanglingInv == ASSUME IInv, NEW c \in Clients, Dangling(c) PROVE IInv'
<1>0. TypeOK /\ TypeOK' /\ OnceEach' /\ UNCHANGED setting
  BY NextTypeOK DEF IInv, Next, Thread, Dangling
<1>a. /\ UNCHANGED <<pc, weHave, thread, sleep, conn, answers, holder, age, queue>>
      /\ c \in dangling /\ dangling' = dangling \ {c}
      /\ (sent' = sent \/ (weHave[c] /\ Send(c, <<"L">>)))
  BY DEF Dangling, server
<1>1. \A d \in Clients \ {c} : SameClient(d) /\ SameLock(d)
  BY <1>0, <1>a DEF Send, TypeOK, SameClient, SameLock, Waits
<1>2. ASSUME c \in Fast PROVE ClientInv(c)'
  <2>1. Staged(c) /\ Asked(c) /\ Renewed(c) /\ Read(c) /\ Returning(c) /\ Gone(c)
    BY <1>2 DEF IInv
  <2>2. Staged(c)'
    BY <1>a, <2>1 DEF Staged, Asking, Believes
  <2>3. Due(c) \in Nat /\ answers[c] \in Nat /\ Len(sent[c]) \in Nat /\ Due(c) = Len(sent[c]) + 1
    BY <1>0, <1>a, Numbers DEF Due
  <2>4. CASE sent' = sent
    <3>1. Due(c)' = Len(sent[c])
      BY <1>a, <2>4 DEF Due
    <3>2. Read(c)'
      BY <1>a, <2>1, <2>3, <3>1 DEF Read, Believes
    <3>3. Asked(c)' /\ Renewed(c)' /\ Returning(c)' /\ Gone(c)'
      BY <1>a, <2>1, <2>4 DEF Asked, Asking, Renewed, Believes, AllL, Waits, Returning, Gone
    <3>4. QED
      BY <2>2, <3>2, <3>3
  <2>5. CASE weHave[c] /\ Send(c, <<"L">>)
    <3>1. Believes(c) /\ conn[c] = "open"
      BY <2>1, <2>5 DEF Staged, Believes
    <3>2. sent'[c] = sent[c] \o <<"L">> /\ "L" \in Message
      BY <1>0, <2>5, <3>1 DEF Send, TypeOK, Message
    <3>3. /\ Len(sent'[c]) = Len(sent[c]) + 1 /\ sent'[c] # <<>>
          /\ sent'[c][Len(sent'[c])] = "L"
          /\ \A i \in 1..Len(sent[c]) : sent'[c][i] = sent[c][i]
      BY <1>0, <3>2, OneMore
    <3>4. Due(c)' = Due(c)
      BY <1>a, <2>3, <3>3 DEF Due
    <3>5. Read(c)'
      BY <1>a, <2>1, <3>4 DEF Read, Believes
    <3>6. AllL(sent[c])' /\ ~Waits(c)'
      BY <1>a, <2>1, <2>3, <3>1, <3>3 DEF Renewed, AllL, Waits
    <3>7. Renewed(c)'
      BY <1>a, <2>1, <3>1, <3>3, <3>6 DEF Renewed
    <3>8. Asked(c)' /\ Returning(c)' /\ Gone(c)'
      BY <1>a, <2>5, <3>1 DEF Asked, Asking, Believes, Returning, Gone
    <3>9. QED
      BY <2>2, <3>5, <3>7, <3>8
  <2>6. QED
    BY <1>a, <2>4, <2>5
<1>3. QED
  BY <1>0, <1>1, <1>2, OneClient

------------------------------------------------------------------------------
(* unlock() *)

LEMMA UnlockInv == ASSUME IInv, NEW c \in Clients, Unlock(c) PROVE IInv'
<1>0. TypeOK /\ TypeOK' /\ OnceEach' /\ UNCHANGED setting
  BY NextTypeOK DEF IInv, Next, Handler, Unlock
<1>1. \A d \in Clients \ {c} : SameClient(d) /\ SameLock(d)
  BY <1>0 DEF Unlock, Goto, Send, TypeOK, SameClient, SameLock, Waits, server
<1>2. ASSUME c \in Fast PROVE ClientInv(c)'
  <2>1. Staged(c) /\ Renewed(c)
    BY <1>2 DEF IInv
  <2>2. /\ Believes(c) /\ pc'[c] = "bye" /\ weHave'[c] = FALSE
        /\ UNCHANGED <<thread, conn, holder, age, queue>>
    BY <1>0 DEF Unlock, Goto, Believes, TypeOK, server
  <2>3. conn[c] = "open"
    BY <2>1, <2>2 DEF Staged, Believes
  <2>4. sent'[c] = sent[c] \o <<"U">> /\ "U" \in Message
    BY <1>0, <2>3 DEF Unlock, Send, TypeOK, Message
  <2>5. /\ Len(sent[c]) \in Nat
        /\ Len(sent'[c]) = Len(sent[c]) + 1 /\ sent'[c] # <<>>
        /\ sent'[c][Len(sent'[c])] = "U"
        /\ \A i \in 1..Len(sent[c]) : sent'[c][i] = sent[c][i]
    BY <1>0, <2>4, OneMore
  <2>6. AllL(sent[c]) /\ ~Waits(c) /\ holder = c /\ age <= Update
    BY <2>1, <2>2 DEF Renewed
  <2>7. \A i \in 1..Len(sent'[c]) - 1 : sent'[c][i] = "L"
    BY <2>5, <2>6 DEF AllL
  <2>8. Returning(c)'
    BY <2>2, <2>5, <2>6, <2>7 DEF Returning, Waits
  <2>9. Staged(c)' /\ Asked(c)' /\ Renewed(c)' /\ Read(c)' /\ Gone(c)'
    BY <2>2, <2>3 DEF Staged, Asked, Asking, Renewed, Read, Believes, Gone
  <2>10. QED
    BY <2>8, <2>9
<1>3. QED
  BY <1>0, <1>1, <1>2, OneClient

(* The connection of a TGELock that has no lock ends. *)
LEMMA LeavesInv ==
  ASSUME TypeOK, NEW c \in Clients, Staged(c), Gone(c), DeleteStream(c),
         pc'[c] \in {"idle", "dead"}, ~weHave'[c], thread'[c] = "none", UNCHANGED queue
  PROVE  ClientInv(c)'
<1>1. conn'[c] = "none" /\ "FIN" \in Message
  BY DEF DeleteStream, TypeOK, Message
<1>2. Gone(c)'
  <2>1. CASE conn[c] = "open"
    <3>1. sent'[c] = sent[c] \o <<"FIN">>
      BY <2>1 DEF DeleteStream, Send, TypeOK
    <3>2. sent'[c] # <<>> /\ sent'[c][Len(sent'[c])] = "FIN"
      BY <1>1, <3>1, OneMore
    <3>3. QED
      BY <3>2 DEF Gone
  <2>2. CASE conn[c] # "open"
    <3>1. sent'[c] = sent[c] /\ pc[c] \in {"idle", "dead"}
      BY <2>2 DEF DeleteStream, Send, TypeOK, Staged
    <3>2. QED
      BY <3>1 DEF Gone, Waits
  <2>3. QED
    BY <2>1, <2>2
<1>3. QED
  BY <1>1, <1>2 DEF Staged, Asked, Asking, Renewed, Read, Returning, Believes

LEMMA DestroyedInv ==
  ASSUME IInv, NEW c \in Clients, Destroyed(c), ~weHave[c], UNCHANGED <<setting, weHave, server>>,
         TypeOK', OnceEach'
  PROVE  IInv'
<1>0. TypeOK
  BY DEF IInv
<1>1. \A d \in Clients \ {c} : SameClient(d) /\ SameLock(d)
  BY <1>0 DEF Destroyed, DeleteStream, Goto, NoWait, Send, TypeOK, SameClient, SameLock, Waits, server
<1>2. ASSUME c \in Fast PROVE ClientInv(c)'
  <2>1. Staged(c) /\ Gone(c)
    BY <1>2 DEF IInv
  <2>2. pc'[c] = "idle" /\ thread'[c] = "none" /\ ~weHave'[c] /\ DeleteStream(c) /\ UNCHANGED queue
    BY <1>0 DEF Destroyed, Goto, TypeOK, server
  <2>3. QED
    BY <1>0, <2>1, <2>2, LeavesInv
<1>3. QED
  BY <1>1, <1>2, OneClient

LEMMA ByeInv == ASSUME IInv, NEW c \in Clients, Bye(c) PROVE IInv'
<1>0. TypeOK /\ TypeOK' /\ OnceEach' /\ Destroyed(c) /\ UNCHANGED <<setting, weHave, server>>
  BY NextTypeOK DEF IInv, Next, Handler, Bye
<1>1. CASE ~weHave[c]
  BY <1>0, <1>1, DestroyedInv
<1>2. CASE weHave[c]
  <2>1. c \notin Fast
    BY <1>2 DEF IInv, Staged, Bye
  <2>2. \A d \in Clients \ {c} : SameClient(d) /\ SameLock(d)
    BY <1>0 DEF Destroyed, DeleteStream, Goto, NoWait, Send, TypeOK, SameClient, SameLock, Waits, server
  <2>3. QED
    BY <1>0, <2>1, <2>2, OneClient
<1>3. QED
  BY <1>1, <1>2

LEMMA UnlockNothingInv == ASSUME IInv, NEW c \in Clients, UnlockNothing(c) PROVE IInv'
<1>0. TypeOK' /\ OnceEach'
  BY NextTypeOK DEF IInv, Next, Handler, UnlockNothing
<1>1. QED
  BY <1>0, DestroyedInv DEF UnlockNothing

LEMMA CrashInv == ASSUME IInv, NEW c \in Clients, Crash(c) PROVE IInv'
<1>0. TypeOK /\ TypeOK' /\ OnceEach' /\ UNCHANGED setting
  BY NextTypeOK DEF IInv, Next, Crash
<1>1. \A d \in Clients \ {c} : SameClient(d) /\ SameLock(d)
  BY <1>0 DEF Crash, DeleteStream, Goto, NoWait, Send, TypeOK, SameClient, SameLock, Waits, server
<1>2. ASSUME c \in Fast PROVE ClientInv(c)'
  <2>1. Staged(c) /\ Gone(c)
    BY <1>2 DEF IInv
  <2>2. pc'[c] = "dead" /\ thread'[c] = "none" /\ ~weHave'[c] /\ DeleteStream(c) /\ UNCHANGED queue
    BY <1>0 DEF Crash, Goto, TypeOK, server
  <2>3. QED
    BY <1>0, <2>1, <2>2, LeavesInv
<1>3. QED
  BY <1>0, <1>1, <1>2, OneClient

------------------------------------------------------------------------------
(* The server. *)

(* What the answer to a line of c does to the lock. *)
LEMMA ServeOthers ==
  ASSUME TypeOK, OnceEach, NEW c \in Clients, Serve(c), NEW d \in Clients \ {c}
  PROVE  SameClient(d) /\ SameLock(d)
<1>1. SameClient(d)
  <2>1. answers'[d] = answers[d]
    BY DEF Serve, Ask, GiveBack, Finish, Answer, TypeOK
  <2>2. QED
    BY <2>1 DEF Serve, TypeOK, SameClient, client
<1>2. (holder' = d <=> holder = d) /\ (holder = d => age' = age)
  BY Intervals DEF Serve, Ask, GiveBack, Finish
<1>3. Waits(d)' => Waits(d)
  BY ServerType
<1>4. QED
  BY <1>1, <1>2, <1>3 DEF SameLock

LEMMA ServeOwn ==
  ASSUME IInv, NEW c \in Fast, Serve(c)
  PROVE  ClientInv(c)'
<1>0. TypeOK /\ OnceEach /\ c \in Clients
  BY DEF IInv, Fast
<1>1. Staged(c) /\ Asked(c) /\ Renewed(c) /\ Read(c) /\ Returning(c) /\ Gone(c)
  BY DEF IInv
<1>2. /\ UNCHANGED <<pc, weHave, thread, dangling, sleep, conn>>
      /\ sent[c] # <<>> /\ sent'[c] = Tail(sent[c])
  BY <1>0 DEF Serve, TypeOK, client
<1>3. /\ Len(sent[c]) \in Nat \ {0} /\ Len(sent'[c]) = Len(sent[c]) - 1
      /\ Head(sent[c]) = sent[c][1] /\ DOMAIN (sent'[c]) = 1..Len(sent'[c])
      /\ \A i \in 1..Len(sent'[c]) : sent'[c][i] = sent[c][i + 1]
      /\ sent'[c] = <<>> <=> Len(sent[c]) = 1
  BY <1>0, <1>2, OneLess
<1>4. Staged(c)'
  BY <1>1, <1>2 DEF Staged, Asking, Believes
<1>5. answers[c] \in Nat /\ answers'[c] \in {answers[c], answers[c] + 1}
  BY <1>0, Numbers DEF Serve, Ask, GiveBack, Finish, Answer, TypeOK
<1>6. CASE Asking(c)
  <2>1. Len(sent[c]) = 1 /\ answers[c] = 0 /\ sent[c][1] = "L" /\ sent'[c] = <<>>
    BY <1>1, <1>3, <1>5, <1>6 DEF Asked, AllL
  <2>2. Ask(c) /\ conn[c] = "open"
    BY <1>1, <1>3, <1>6, <2>1 DEF Serve, GiveBack, Finish, Staged, Asking
  <2>3. Asked(c)'
    <3>1. CASE holder' = c /\ age' = 0 /\ queue' = Others(c)
      <4>1. ~Waits(c)'
        BY <1>0, <3>1, LeaveQueue
      <4>2. QED
        BY <1>3, <1>5, <2>1, <3>1, <4>1 DEF Asked, AllL
    <3>2. CASE UNCHANGED answers
      BY <1>3, <2>1, <3>2 DEF Asked, AllL
    <3>3. QED
      BY <2>2, <3>1, <3>2 DEF Ask
  <2>4. Renewed(c)' /\ Read(c)' /\ Returning(c)' /\ Gone(c)'
    BY <1>1, <1>2, <1>6 DEF Staged, Asking, Renewed, Read, Believes, Returning, Gone
  <2>5. QED
    BY <1>4, <2>3, <2>4
<1>7. CASE Believes(c)
  <2>1. sent[c][1] = "L" /\ holder = c
    BY <1>1, <1>3, <1>7 DEF Renewed, AllL
  <2>2. holder' = c /\ age' = 0 /\ queue' = Others(c)
    BY <1>3, <2>1 DEF Serve, Ask, GiveBack, Finish
  <2>3. ~Waits(c)'
    BY <1>0, <2>2, LeaveQueue
  <2>4. AllL(sent[c])'
    BY <1>1, <1>3, <1>7 DEF Renewed, AllL
  <2>5. Renewed(c)'
    <3>1. 0 <= sleep[c] /\ 0 <= Update
      BY <1>0, Numbers, Intervals
    <3>2. QED
      BY <1>2, <2>2, <2>3, <2>4, <3>1 DEF Renewed
  <2>6. Due(c)' + 1 = Due(c) /\ Due(c) \in Nat /\ Due(c)' \in Nat
    <3>1. dangling' = dangling
      BY <1>2
    <3>2. CASE c \in dangling
      BY <1>3, <3>1, <3>2 DEF Due
    <3>3. CASE c \notin dangling
      BY <1>3, <3>1, <3>3 DEF Due
    <3>4. QED
      BY <3>2, <3>3
  <2>7. Read(c)'
    BY <1>1, <1>2, <1>5, <1>7, <2>6 DEF Read, Believes
  <2>8. Asked(c)' /\ Returning(c)' /\ Gone(c)'
    BY <1>2, <1>7 DEF Believes, Asked, Asking, Returning, Gone
  <2>9. QED
    BY <1>4, <2>5, <2>7, <2>8
<1>8. CASE pc[c] = "bye"
  <2>1. /\ ~Waits(c) /\ holder = c /\ sent[c][Len(sent[c])] = "U"
        /\ \A i \in 1..Len(sent[c]) - 1 : sent[c][i] = "L"
    BY <1>1, <1>2, <1>8 DEF Returning
  <2>2. Asked(c)' /\ Renewed(c)' /\ Read(c)' /\ Gone(c)'
    BY <1>2, <1>8 DEF Believes, Asked, Asking, Renewed, Read, Gone
  <2>3. CASE Len(sent[c]) = 1
    <3>1. GiveBack(c)
      BY <1>3, <2>1, <2>3 DEF Serve, Ask, Finish
    <3>2. holder' = None /\ queue' = queue /\ c # None
      BY <1>0, <2>1, <3>1, Intervals DEF GiveBack
    <3>3. Returning(c)'
      BY <1>3, <2>1, <2>3, <3>2 DEF Returning, Waits
    <3>4. QED
      BY <1>4, <2>2, <3>3
  <2>4. CASE Len(sent[c]) # 1
    <3>1. sent[c][1] = "L" /\ Len(sent[c]) - 1 \in Nat \ {0}
      BY <1>3, <2>1, <2>4
    <3>2. holder' = c /\ age' = 0 /\ queue' = Others(c)
      BY <1>3, <2>1, <3>1 DEF Serve, Ask, GiveBack, Finish
    <3>3. ~Waits(c)'
      BY <1>0, <3>2, LeaveQueue
    <3>4. sent'[c] # <<>> /\ sent'[c][Len(sent'[c])] = "U"
      BY <1>3, <2>1, <3>1
    <3>5. \A i \in 1..Len(sent'[c]) - 1 : sent'[c][i] = "L"
      BY <1>3, <2>1
    <3>6. Returning(c)'
      BY <3>2, <3>3, <3>4, <3>5, Intervals DEF Returning
    <3>7. QED
      BY <1>4, <2>2, <3>6
  <2>5. QED
    BY <2>3, <2>4
<1>9. CASE pc[c] \in {"idle", "dead"}
  <2>1. sent[c][Len(sent[c])] = "FIN" /\ ~weHave[c]
    BY <1>1, <1>2, <1>9 DEF Gone, Staged
  <2>2. Asked(c)' /\ Renewed(c)' /\ Read(c)' /\ Returning(c)'
    BY <1>2, <1>9 DEF Believes, Asked, Asking, Renewed, Read, Returning
  <2>3. CASE Len(sent[c]) = 1
    <3>1. Finish(c)
      BY <1>3, <2>1, <2>3 DEF Serve, Ask, GiveBack
    <3>2. ~Waits(c)'
      BY <1>0, <3>1, LeaveQueue DEF Finish
    <3>3. Gone(c)'
      BY <1>3, <2>3, <3>2 DEF Gone
    <3>4. QED
      BY <1>4, <2>2, <3>3
  <2>4. CASE Len(sent[c]) # 1
    <3>1. sent'[c] # <<>> /\ sent'[c][Len(sent'[c])] = "FIN"
      BY <1>3, <2>1, <2>4
    <3>2. Gone(c)'
      BY <3>1 DEF Gone
    <3>3. QED
      BY <1>4, <2>2, <3>2
  <2>5. QED
    BY <2>3, <2>4
<1>10. QED
  BY <1>0, <1>6, <1>7, <1>8, <1>9 DEF Asking, Believes, TypeOK

LEMMA ServeInv == ASSUME IInv, NEW c \in Clients, Serve(c) PROVE IInv'
<1>0. TypeOK /\ OnceEach /\ TypeOK' /\ OnceEach' /\ UNCHANGED setting
  BY NextTypeOK DEF IInv, Next, Serve
<1>1. QED
  BY <1>0, ServeOthers, ServeOwn, OneClient

LEMMA CloseInv == ASSUME IInv, NEW c \in Clients, Close(c) PROVE IInv'
<1>0. TypeOK /\ OnceEach /\ TypeOK' /\ OnceEach' /\ UNCHANGED setting
  BY NextTypeOK DEF IInv, Next, Close
<1>1. ASSUME NEW d \in Clients \ {c} PROVE SameClient(d) /\ SameLock(d)
  <2>1. SameClient(d)
    BY <1>0 DEF Close, client, TypeOK, SameClient
  <2>2. Waits(d)' => Waits(d)
    BY <1>0, LeaveQueue DEF Close
  <2>3. QED
    BY <2>1, <2>2 DEF Close, SameLock
<1>2. c \notin Fast
  BY DEF Close, Fast
<1>3. QED
  BY <1>0, <1>1, <1>2, OneClient

LEMMA GrantInv == ASSUME IInv, Grant PROVE IInv'
<1>0. TypeOK /\ OnceEach /\ TypeOK' /\ OnceEach' /\ UNCHANGED setting
  BY NextTypeOK DEF IInv, Next, Grant
<1>1. PICK h \in Clients : /\ h = Head(queue) /\ Waits(h)
                           /\ \A d \in Clients : Waits(d)' => Waits(d) /\ d # h
  BY <1>0, HeadOfQueue DEF Grant
<1>2. /\ holder = None /\ holder' = h /\ age' = 0 /\ Answer(h, sent[h]) /\ None \notin Clients
      /\ UNCHANGED <<pc, weHave, thread, dangling, sleep, conn, sent>>
  BY <1>1, Intervals DEF Grant, client
<1>3. ASSUME NEW d \in Clients \ {h} PROVE SameClient(d) /\ SameLock(d)
  <2>1. answers'[d] = answers[d]
    BY <1>0, <1>2 DEF Answer, TypeOK
  <2>2. QED
    BY <1>1, <1>2, <2>1 DEF SameClient, SameLock
<1>4. ASSUME h \in Fast PROVE ClientInv(h)'
  <2>1. Staged(h) /\ Asked(h) /\ Renewed(h) /\ Returning(h) /\ Gone(h)
    BY <1>4 DEF IInv
  <2>2. ~Believes(h) /\ pc[h] # "bye"
    BY <1>1, <2>1 DEF Renewed, Returning
  <2>3. ~Believes(h)' /\ pc'[h] # "bye" /\ ~Waits(h)'
    BY <1>1, <1>2, <2>2 DEF Believes
  <2>4. Staged(h)' /\ Renewed(h)' /\ Read(h)' /\ Returning(h)' /\ Gone(h)'
    BY <1>2, <2>1, <2>3 DEF Staged, Asking, Renewed, Read, Returning, Gone, Believes
  <2>5. Asked(h)'
    <3>1. CASE Asking(h)
      <4>1. sent[h] = <<>> /\ answers[h] = 0 /\ AllL(sent[h])
        BY <1>1, <2>1, <3>1 DEF Asked
      <4>2. Len(sent[h]) = 0
        BY <4>1
      <4>3. answers'[h] \in {0, 1}
        BY <1>0, <1>2, <4>1 DEF Answer, TypeOK
      <4>4. QED
        BY <1>2, <2>3, <4>1, <4>2, <4>3 DEF Asked, Asking, AllL
    <3>2. CASE ~Asking(h)
      BY <1>2, <3>2 DEF Asked, Asking
    <3>3. QED
      BY <3>1, <3>2
  <2>6. QED
    BY <2>4, <2>5
<1>5. QED
  BY <1>0, <1>3, <1>4, OneClient

LEMMA ForgetInv == ASSUME IInv, Forget PROVE IInv'
<1>0. TypeOK /\ OnceEach /\ TypeOK' /\ OnceEach' /\ UNCHANGED setting
  BY NextTypeOK DEF IInv, Next, Forget
<1>1. /\ holder # None /\ age >= Expire /\ holder' = None /\ age' = 0
      /\ UNCHANGED <<pc, weHave, thread, dangling, sleep, conn, sent, answers, queue>>
  BY DEF Forget, client, network
<1>2. age \in Nat /\ Expire \in Nat /\ Update \in Nat /\ Update < Expire /\ None \notin Clients
  BY <1>0, Intervals DEF TypeOK
<1>3. ASSUME NEW d \in Fast PROVE ClientInv(d)'
  <2>1. ClientInv(d) /\ d \in Clients
    BY DEF IInv, Fast
  <2>2. CASE holder # d
    <3>1. SameClient(d) /\ SameLock(d)
      BY <1>1, <1>2, <2>1, <2>2 DEF SameClient, SameLock, Waits
    <3>2. QED
      BY <2>1, <3>1, Bystander
  <2>3. CASE holder = d
    <3>1. /\ ~Believes(d)
          /\ ~(Asking(d) /\ pc[d] = "wait" /\ answers[d] = 1)
          /\ pc[d] = "bye" => FALSE
      BY <1>1, <1>2, <2>1, <2>3 DEF Renewed, Asked, Returning
    <3>2. Staged(d)' /\ Renewed(d)' /\ Read(d)' /\ Returning(d)' /\ Gone(d)'
      BY <1>1, <2>1, <3>1 DEF Staged, Asking, Renewed, Read, Returning, Gone, Believes, Waits
    <3>3. Asked(d)'
      BY <1>1, <2>1, <3>1 DEF Asked, Asking, AllL, Waits
    <3>4. QED
      BY <3>2, <3>3
  <2>4. QED
    BY <2>2, <2>3
<1>4. QED
  BY <1>0, <1>3 DEF IInv, Fast

(* No time passes while anything of d is due. *)
LEMMA TickInv == ASSUME IInv, Tick PROVE IInv'
<1>0. TypeOK /\ OnceEach /\ TypeOK' /\ OnceEach' /\ UNCHANGED setting
  BY NextTypeOK DEF IInv, Next, Tick
<1>1. /\ UNCHANGED <<pc, weHave, thread, dangling, conn, sent, answers, holder, queue>>
      /\ sleep' = [c \in Clients |-> IF thread[c] = "sleep" THEN Older(sleep[c], Update) ELSE 0]
      /\ age' = IF holder = None THEN 0 ELSE Older(age, Expire)
  BY DEF Tick, network
<1>2. ASSUME NEW d \in Fast PROVE ClientInv(d)'
  <2>1. /\ Staged(d) /\ Asked(d) /\ Renewed(d) /\ Read(d) /\ Returning(d) /\ Gone(d)
        /\ d \in Clients
    BY DEF IInv, Fast
  <2>2. /\ sent[d] = <<>> /\ (pc[d] = "wait" => answers[d] = 0)
        /\ ~(thread[d] = "sleep" /\ sleep[d] >= Update) /\ thread[d] # "recv"
    BY DEF Tick, Quiet, Fast
  <2>3. Staged(d)' /\ Returning(d)' /\ Gone(d)'
    BY <1>1, <2>1, <2>2 DEF Staged, Asking, Believes, Returning, Gone, Waits
  <2>4. Asked(d)'
    BY <1>1, <2>1, <2>2 DEF Asked, Asking, AllL, Waits
  <2>5. CASE Believes(d)
    <3>1. thread[d] = "sleep" /\ sleep[d] < Update /\ sleep[d] \in Nat /\ age <= sleep[d]
          /\ age \in Nat /\ Update \in Nat /\ Expire \in Nat /\ Update < Expire
      BY <1>0, <2>1, <2>2, <2>5, Intervals DEF Staged, Renewed, TypeOK
    <3>2. sleep'[d] = sleep[d] + 1 /\ age' <= age + 1
      BY <1>1, <2>1, <3>1 DEF Older
    <3>3. age' \in Nat
      BY <1>0, <3>1 DEF TypeOK
    <3>4. age' <= sleep'[d] /\ age' <= Update
      BY <3>1, <3>2, <3>3
    <3>5. Renewed(d)'
      BY <1>1, <2>1, <2>5, <3>4 DEF Renewed, AllL, Believes, Waits
    <3>6. Len(sent[d]) = 0
      BY <2>2
    <3>7. Due(d)' = Due(d) /\ Due(d) \in {0, 1}
      BY <1>1, <3>6 DEF Due
    <3>8. Read(d)'
      BY <1>1, <2>1, <2>5, <3>1, <3>7 DEF Read, Believes
    <3>9. QED
      BY <2>3, <2>4, <3>5, <3>8
  <2>6. CASE ~Believes(d)
    <3>1. ~Believes(d)'
      BY <1>1, <2>6 DEF Believes
    <3>2. QED
      BY <2>3, <2>4, <3>1 DEF Renewed, Read
  <2>7. QED
    BY <2>5, <2>6
<1>3. QED
  BY <1>0, <1>2 DEF IInv, Fast

------------------------------------------------------------------------------
LEMMA NextIInv == IInv /\ [Next]_vars => IInv'
<1> SUFFICES ASSUME IInv, [Next]_vars PROVE IInv'
  OBVIOUS
<1>1. ASSUME NEW c \in Clients, Handler(c) PROVE IInv'
  BY <1>1, LockOKInv, LockTimeoutInv, LockErrorInv, UnlockInv, ByeInv, UnlockNothingInv DEF Handler
<1>2. ASSUME NEW c \in Clients, Thread(c) PROVE IInv'
  BY <1>2, WakeInv, ReceiveInv, ReceiveErrorInv, DanglingInv DEF Thread
<1>3. ASSUME NEW c \in Clients, Connect(c) \/ ConnectFails(c) \/ Serve(c) \/ Close(c) \/ Crash(c)
      PROVE  IInv'
  BY <1>3, ConnectInv, ConnectFailsInv, ServeInv, CloseInv, CrashInv
<1>4. CASE Grant \/ Forget \/ Tick
  BY <1>4, GrantInv, ForgetInv, TickInv
<1>5. CASE UNCHANGED vars
  <2>1. TypeOK' /\ OnceEach' /\ UNCHANGED setting
    BY <1>5, NextTypeOK DEF IInv, vars
  <2>2. \A d \in Fast : SameClient(d) /\ SameLock(d)
    BY <1>5 DEF vars, client, network, server, SameClient, SameLock, Waits
  <2>3. \A d \in Fast : ClientInv(d)'
    BY <2>2, Bystander DEF IInv, Fast
  <2>4. QED
    BY <2>1, <2>3 DEF IInv, Fast
<1>6. QED
  BY <1>1, <1>2, <1>3, <1>4, <1>5 DEF Next

LEMMA SpecIInv == Spec => []IInv
BY InitIInv, NextIInv, PTL DEF Spec

(* Copying in the belief of having the lock means having it, for as many hosts and as long
   copies as there are (run() renews in time, libtgelock.h:25-56). *)
THEOREM LockHeldWhileBelieved == Spec => []LockIsHeld
<1>1. IInv => LockIsHeld
  BY DEF IInv, Fast, LockIsHeld, Renewed
<1>2. QED
  BY <1>1, SpecIInv, PTL

(* A copy of any length leaves at most three answers unread, although run() seldom reads
   the one to the last renewal (libtgelock.h:42-45). *)
THEOREM AnswersStayFew == Spec => []AnswersBounded
<1>1. ASSUME IInv, NEW c \in Clients \ setting.slow, pc[c] = "copy" PROVE answers[c] <= 3
  <2>1. TypeOK /\ Asked(c) /\ Read(c)
    BY <1>1 DEF IInv, Fast
  <2>2. Len(sent[c]) \in Nat /\ answers[c] \in Nat /\ Due(c) \in Nat
    BY <2>1, Numbers
  <2>3. CASE Believes(c)
    BY <2>1, <2>2, <2>3 DEF Read
  <2>4. CASE ~Believes(c)
    BY <1>1, <2>1, <2>2, <2>4 DEF Asked, Asking, Believes
  <2>5. QED
    BY <2>3, <2>4
<1>2. IInv => AnswersBounded
  BY <1>1 DEF AnswersBounded
<1>3. QED
  BY <1>2, SpecIInv, PTL

(* unlock() takes any line for its answer (libtgelock.h:142-148), and yet the server has the
   lock back when it returns, or will by the line that is under way. *)
THEOREM UnlockGivesBack == Spec => GivenBack
<1>1. ASSUME IInv, NEW c \in Clients \ setting.slow, pc[c] = "bye"
      PROVE  holder # c \/ \E i \in DOMAIN sent[c] : sent[c][i] = "U"
  <2>1. TypeOK /\ Returning(c)
    BY <1>1 DEF IInv, Fast
  <2>2. CASE sent[c] = <<>>
    BY <1>1, <2>1, <2>2 DEF Returning
  <2>3. CASE sent[c] # <<>>
    <3>1. sent[c] \in Seq(Message) /\ Len(sent[c]) \in Nat \ {0} /\ DOMAIN sent[c] = 1..Len(sent[c])
      BY <2>1, <2>3, Lines, EmptySeq, LenProperties
    <3>2. sent[c][Len(sent[c])] = "U"
      BY <1>1, <2>1, <2>3 DEF Returning
    <3>3. QED
      BY <3>1, <3>2
  <2>4. QED
    BY <2>2, <2>3
<1>2. IInv /\ [Next]_vars =>
        [\A c \in Clients \ setting.slow : pc[c] = "bye" /\ pc'[c] = "idle" =>
            holder # c \/ \E i \in DOMAIN sent[c] : sent[c][i] = "U"]_vars
  BY <1>1
<1>3. QED
  BY <1>2, SpecIInv, PTL DEF Spec, GivenBack
================================================================================
