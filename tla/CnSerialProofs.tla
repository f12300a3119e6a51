--------------------------- MODULE CnSerialProofs ---------------------------
(***************************************************************************)
(* Proofs about CnSerial, for any set of command names and any bound on    *)
(* what is under way.                                                      *)
(*                                                                         *)
(* The inductive invariant says what the reader has seen of the program it *)
(* reads (ReaderInv), and, while no command of the session has timed out,  *)
(* that one command at a time is under way: it is in stdin, or its answer  *)
(* is in stderr or in msgs, or it is lost (UnderWayInv).                   *)
(***************************************************************************)
EXTENDS CnSerial, SequenceTheorems, TLAPS

Lines == Answers \cup {Ready, Error}

(* Marking what is under way as older changes no kind of line and no length. *)
LEMMA OlderLines ==
  ASSUME NEW s \in Seq(Lines)
  PROVE  /\ Older(s) \in Seq(Lines)
         /\ Len(Older(s)) = Len(s)
         /\ \A i \in 1..Len(s) : Older(s)[i].kind = s[i].kind
<1>1. Len(s) \in Nat
  BY LenProperties
<1>2. ASSUME NEW i \in 1..Len(s)
      PROVE  /\ Older(s)[i] \in Lines
             /\ Older(s)[i].kind = s[i].kind
  <2>1. s[i] \in Lines
    BY ElementOfSeq
  <2>2. Older(s)[i] = IF "current" \in DOMAIN s[i]
                      THEN [s[i] EXCEPT !.current = FALSE] ELSE s[i]
    BY <1>2 DEF Older
  <2>3. CASE s[i] \in Answers
    BY <2>2, <2>3 DEF Answers, Lines
  <2>4. CASE s[i] \in {Ready, Error}
    BY <2>2, <2>4 DEF Ready, Error, Lines
  <2> QED
    BY <2>1, <2>3, <2>4 DEF Lines
<1>3. Older(s) \in [1..Len(s) -> Lines]
  BY <1>2 DEF Older
<1>4. Older(s) \in Seq(Lines)
  BY <1>1, <1>3, SeqDef
<1>5. Len(Older(s)) = Len(s)
  BY <1>1, <1>3, <1>4, LenProperties
<1> QED
  BY <1>2, <1>4, <1>5

(* The same for the commands written to stdin, *)
LEMMA OlderSent ==
  ASSUME NEW s \in Seq(Sent)
  PROVE  /\ Older(s) \in Seq(Sent)
         /\ Len(Older(s)) = Len(s)
<1>1. Len(s) \in Nat
  BY LenProperties
<1>2. ASSUME NEW i \in 1..Len(s) PROVE Older(s)[i] \in Sent
  <2>1. s[i] \in Sent
    BY ElementOfSeq
  <2>2. Older(s)[i] = IF "current" \in DOMAIN s[i]
                      THEN [s[i] EXCEPT !.current = FALSE] ELSE s[i]
    BY <1>2 DEF Older
  <2> QED
    BY <2>1, <2>2 DEF Sent
<1>3. Older(s) \in [1..Len(s) -> Sent]
  BY <1>2 DEF Older
<1>4. Older(s) \in Seq(Sent)
  BY <1>1, <1>3, SeqDef
<1> QED
  BY <1>1, <1>3, <1>4, LenProperties

(* and for the answer in msgs, a Queue(1). *)
LEMMA OlderMsgs ==
  /\ Older(<<>>) = <<>>
  /\ \A a \in Answers : \E b \in Answers : Older(<<a>>) = <<b>>
<1>1. Older(<<>>) = <<>>
  BY OlderSent, EmptySeq
<1>2. ASSUME NEW a \in Answers PROVE \E b \in Answers : Older(<<a>>) = <<b>>
  <2>1. [a EXCEPT !.current = FALSE] \in Answers /\ "current" \in DOMAIN a
    BY DEF Answers
  <2>2. Older(<<a>>) = <<[a EXCEPT !.current = FALSE]>>
    <3>1. <<a>> \in Seq(Lines) /\ Len(<<a>>) = 1
      BY DEF Lines
    <3>2. Older(<<a>>) \in Seq(Lines) /\ Len(Older(<<a>>)) = 1
      BY <3>1, OlderLines
    <3>3. Older(<<a>>)[1] = [a EXCEPT !.current = FALSE]
      <4> DEFINE s == <<a>>
      <4>1. s[1] = a /\ 1 \in 1..Len(s)
        BY <3>1
      <4> HIDE DEF s
      <4>2. Older(s)[1] = IF "current" \in DOMAIN s[1]
                          THEN [s[1] EXCEPT !.current = FALSE] ELSE s[1]
        BY <4>1 DEF Older
      <4>3. Older(s)[1] = [a EXCEPT !.current = FALSE]
        BY <2>1, <4>1, <4>2
      <4> QED
        BY <4>3 DEF s
    <3>4. <<[a EXCEPT !.current = FALSE]>> \in Seq(Lines)
      BY <2>1 DEF Lines
    <3> QED
      BY <3>2, <3>3, <3>4, SeqEqual
  <2> QED
    BY <2>1, <2>2
<1> QED
  BY <1>1, <1>2

(* Empty pipes and queues have their types. *)
LEMMA EmptyQueues ==
  /\ <<>> \in Seq(Sent)
  /\ <<>> \in Seq(Answers \cup {Ready, Error})
  /\ <<>> \in {<<>>, <<0>>, <<1>>}
OBVIOUS

(* __init__ makes a link of the right types. *)
LEMMA InitTypes == Init => TypeOK
BY EmptyQueues DEF Init, TypeOK

(* The types: each queue and pipe holds what its writer puts there, and the  *)
(* two Queue(1) of cn_interface.py:76-80 never hold more than one value.     *)
THEOREM Typing == Spec => []TypeOK
<1>1. Init => TypeOK
  BY InitTypes
<1>2. TypeOK /\ [Next]_vars => TypeOK'
  <2> SUFFICES ASSUME TypeOK, [Next]_vars PROVE TypeOK'
    OBVIOUS
  <2>1. CASE StartProcess
    BY <2>1, EmptyQueues DEF StartProcess, TypeOK
  <2>2. CASE StartGet
    BY <2>2 DEF StartGet, TypeOK, link_vars, NoResult
  <2>3. CASE StartReturn
    BY <2>3 DEF StartReturn, TypeOK, link_vars
  <2>4. ASSUME NEW name \in Commands, SendBegin(name) PROVE TypeOK'
    BY <2>4 DEF SendBegin, TypeOK, link_vars
  <2>5. CASE SendWrite
    <3>1. stderr \in Seq(Lines) /\ stdin \in Seq(Sent)
      BY DEF TypeOK, Lines
    <3>2. stderr' \in Seq(Answers \cup {Ready, Error})
      BY <2>5, <3>1, OlderLines DEF SendWrite, Lines
    <3>3. stdin' \in Seq(Sent)
      <4>1. [name |-> command, current |-> TRUE] \in Sent
        BY DEF TypeOK, Sent
      <4>2. stdin' \in {Older(stdin),
                        Append(Older(stdin), [name |-> command, current |-> TRUE])}
        BY <2>5 DEF SendWrite
      <4>3. Older(stdin) \in Seq(Sent)
        BY <3>1, OlderSent
      <4>4. Append(Older(stdin), [name |-> command, current |-> TRUE]) \in Seq(Sent)
        BY <4>1, <4>3, AppendProperties
      <4> QED
        BY <4>2, <4>3, <4>4
    <3>4. msgs' = <<>> \/ \E a \in Answers : msgs' = <<a>>
      BY <2>5, OlderMsgs DEF SendWrite, TypeOK
    <3>5. caller' \in {"send_get", "sent"} /\ send_ret' \in {send_ret, 1}
      BY <2>5 DEF SendWrite
    <3> QED
      BY <2>5, <3>2, <3>3, <3>4, <3>5 DEF SendWrite, TypeOK
  <2>6. CASE SendGet
    <3>1. \E a \in Answers : msgs = <<a>>
      BY <2>6 DEF SendGet, TypeOK
    <3>2. own' \in BOOLEAN
      BY <2>6, <3>1 DEF SendGet, Answers
    <3>3. send_ret' \in {0, 1}
      BY <2>6 DEF SendGet
    <3> QED
      BY <2>6, <3>2, <3>3 DEF SendGet, TypeOK, link_vars
  <2>7. CASE SendTimeout
    BY <2>7 DEF SendTimeout, TypeOK, link_vars
  <2>8. CASE SendReturn
    <3>1. own' \in BOOLEAN /\ send_ret' \in {NoResult, 0, 1}
      BY <2>8 DEF SendReturn
    <3> QED
      BY <2>8, <3>1 DEF SendReturn, TypeOK, link_vars
  <2>9. CASE StopTerminate \/ StopWait \/ StopJoin
    <3>1. CASE StopTerminate
      BY <3>1 DEF StopTerminate, TypeOK, link_vars
    <3>2. CASE StopWait
      <4>1. signal' \in {"none", "term", "kill"}
        BY <3>2 DEF StopWait, TypeOK
      <4> QED
        BY <3>2, <4>1 DEF StopWait, TypeOK, link_vars
    <3>3. CASE StopJoin
      <4>1. referenced' \in BOOLEAN /\ caller' = "idle"
        BY <3>3 DEF StopJoin
      <4> QED
        BY <3>3, <4>1 DEF StopJoin, TypeOK, link_vars
    <3> QED
      BY <2>9, <3>1, <3>2, <3>3
  <2>10. CASE ReaderPoll \/ ReaderEof
    BY <2>10 DEF ReaderPoll, ReaderEof, TypeOK, link_vars, caller_vars
  <2>11. CASE ReaderLine
    <3>1. Head(stderr) \in Lines /\ Tail(stderr) \in Seq(Lines)
      BY <2>11 DEF ReaderLine, TypeOK, Lines
    <3>2. Head(stderr).kind = "answer" => Head(stderr) \in Answers
      BY <3>1 DEF Lines, Ready, Error
    <3>3. msgs' = <<>> \/ \E a \in Answers : msgs' = <<a>>
      BY <2>11, <3>2 DEF ReaderLine, TypeOK
    <3>4. reader' \in {"put_ready", "poll"}
      BY <2>11 DEF ReaderLine
    <3> QED
      BY <2>11, <3>1, <3>3, <3>4 DEF ReaderLine, TypeOK, Lines, caller_vars
  <2>12. CASE ReaderPut
    BY <2>12 DEF ReaderPut, TypeOK, link_vars, caller_vars
  <2>13. CASE ProgramReady \/ ProgramFails \/ ProgramLoses
    <3>1. stderr' \in {stderr, Append(stderr, Ready), Append(stderr, Error)}
      BY <2>13 DEF ProgramReady, ProgramFails, ProgramLoses
    <3>2. stderr' \in Seq(Answers \cup {Ready, Error})
      BY <3>1 DEF TypeOK
    <3>3. stdin' \in Seq(Sent)
      <4>1. CASE ProgramReady
        BY <4>1 DEF ProgramReady, TypeOK
      <4>2. CASE ProgramFails
        BY <4>2, EmptyQueues DEF ProgramFails
      <4>3. CASE ProgramLoses
        BY <4>3 DEF ProgramLoses, TypeOK
      <4> QED
        BY <2>13, <4>1, <4>2, <4>3
    <3> QED
      BY <2>13, <3>2, <3>3 DEF ProgramReady, ProgramFails, ProgramLoses, TypeOK,
         caller_vars
  <2>14. CASE ProgramAnswers
    <3>1. Head(stdin) \in Sent /\ Tail(stdin) \in Seq(Sent)
      BY <2>14 DEF ProgramAnswers, TypeOK
    <3>2. \A ok \in BOOLEAN :
            Line("answer", Head(stdin).name, ok, Head(stdin).current) \in Answers
      BY <3>1 DEF Sent, Line, Answers
    <3>3. stderr' \in Seq(Answers \cup {Ready, Error})
      BY <2>14, <3>2 DEF ProgramAnswers, TypeOK
    <3> QED
      BY <2>14, <3>1, <3>3 DEF ProgramAnswers, TypeOK, caller_vars
  <2>15. CASE ProgramExits
    BY <2>15 DEF ProgramExits, TypeOK, caller_vars
  <2>16. CASE UNCHANGED vars
    BY <2>16 DEF vars, TypeOK
  <2> QED
    BY <2>1, <2>2, <2>3, <2>4, <2>5, <2>6, <2>7, <2>8, <2>9, <2>10, <2>11, <2>12,
       <2>13, <2>14, <2>15, <2>16 DEF Next, Caller, Reader, Program
<1> QED
  BY <1>1, <1>2, PTL DEF Spec

-----------------------------------------------------------------------------
(* What the reader knows of the program. *)

(* Whatever the reader has seen, put in _wait_ready or is about to put there *)
(* is of the program that runs now: start forgets the rest before Popen.     *)
ReaderInv ==
  /\ process = "starting" => stderr = <<>>
  /\ reader = "none" => process = "none"
  /\ reader = "put_ready" => process # "starting"
  /\ reader \in {"put_failed", "ended"} => process = "exited"
  /\ wait_ready = <<0>> => process # "starting"
  /\ wait_ready = <<1>> => process = "exited"
  /\ caller # "started" => start_ret = NoResult

SessionInv == TypeOK /\ ReaderInv /\ StartResultIsFresh /\ StopLeavesNothing

(* The invariant is kept by every step of the caller, the reader and the     *)
(* program.                                                                  *)
LEMMA SessionInvariance == Spec => []SessionInv
<1>1. Init => SessionInv
  <2>1. Init => StartResultIsFresh /\ StopLeavesNothing
    BY DEF Init, StartResultIsFresh, StopLeavesNothing, NoResult
  <2>2. Init => ReaderInv
    BY DEF Init, ReaderInv
  <2> QED
    BY <2>1, <2>2, InitTypes DEF SessionInv
<1>2. SessionInv /\ TypeOK' /\ [Next]_vars => SessionInv'
  <2> SUFFICES ASSUME SessionInv, TypeOK', [Next]_vars PROVE SessionInv'
    OBVIOUS
  <2>0. <<0>> # <<1>> /\ <<>> # <<0>> /\ <<>> # <<1>> /\ NoResult \notin {0, 1}
    BY DEF NoResult
  <2> USE <2>0 DEF SessionInv, ReaderInv, StartResultIsFresh, StopLeavesNothing
  <2>1. CASE StartProcess
    BY <2>1 DEF StartProcess
  <2>2. CASE StartGet
    <3>1. wait_ready \in {<<0>>, <<1>>}
      BY <2>2 DEF StartGet, TypeOK
    <3>2. Head(wait_ready) = 0 => wait_ready = <<0>>
      BY <3>1
    <3>3. Head(wait_ready) = 1 => wait_ready = <<1>>
      BY <3>1
    <3>4. StartResultIsFresh'
      BY <2>2, <3>2, <3>3 DEF StartGet
    <3> QED
      BY <2>2, <3>4 DEF StartGet, link_vars
  <2>3. CASE StartReturn
    BY <2>3 DEF StartReturn, link_vars
  <2>4. ASSUME NEW name \in Commands, SendBegin(name) PROVE SessionInv'
    BY <2>4 DEF SendBegin, link_vars
  <2>5. CASE SendWrite
    <3>1. process = "starting" => stderr' = <<>>
      BY <2>5, OlderMsgs DEF SendWrite
    <3>2. caller' # "started"
      BY <2>5 DEF SendWrite
    <3> QED
      BY <2>5, <3>1, <3>2 DEF SendWrite
  <2>6. CASE SendGet \/ SendTimeout \/ SendReturn
    BY <2>6 DEF SendGet, SendTimeout, SendReturn, link_vars
  <2>7. CASE StopTerminate
    BY <2>7 DEF StopTerminate, link_vars
  <2>8. CASE StopWait
    BY <2>8 DEF StopWait, link_vars
  <2>9. CASE StopJoin
    BY <2>9 DEF StopJoin, link_vars
  <2>10. CASE ReaderPoll \/ ReaderEof
    BY <2>10 DEF ReaderPoll, ReaderEof, link_vars, caller_vars
  <2>11. CASE ReaderLine
    <3>1. process # "starting" /\ reader' \in {"put_ready", "poll"}
      BY <2>11 DEF ReaderLine
    <3> QED
      BY <2>11, <3>1 DEF ReaderLine, caller_vars
  <2>12. CASE ReaderPut
    <3>1. CASE reader = "put_ready"
      BY <2>12, <3>1 DEF ReaderPut, caller_vars, link_vars
    <3>2. CASE reader = "put_failed"
      BY <2>12, <3>2 DEF ReaderPut, caller_vars, link_vars
    <3> QED
      BY <2>12, <3>1, <3>2 DEF ReaderPut
  <2>13. CASE ProgramReady \/ ProgramFails \/ ProgramExits
    BY <2>13 DEF ProgramReady, ProgramFails, ProgramExits, caller_vars
  <2>14. CASE ProgramAnswers \/ ProgramLoses
    BY <2>14 DEF ProgramAnswers, ProgramLoses, caller_vars
  <2>15. CASE UNCHANGED vars
    BY <2>15 DEF vars
  <2> QED
    BY <2>1, <2>2, <2>3, <2>4, <2>5, <2>6, <2>7, <2>8, <2>9, <2>10, <2>11, <2>12,
       <2>13, <2>14, <2>15 DEF Next, Caller, Reader, Program
<1> QED
  BY <1>1, <1>2, Typing, PTL DEF Spec

(* start returns what the reader of its own program put in _wait_ready       *)
(* (cn_interface.py:86-101): no value of an earlier session is taken for    *)
(* it.                                                                       *)
THEOREM StartIsFresh == Spec => []StartResultIsFresh
<1>1. SessionInv => StartResultIsFresh
  BY DEF SessionInv
<1> QED
  BY <1>1, SessionInvariance, PTL

(* When stop has returned (cn_interface.py:140-161) its program has ended,   *)
(* and the reader too.                                                       *)
THEOREM StopIsComplete == Spec => []StopLeavesNothing
<1>1. SessionInv => StopLeavesNothing
  BY DEF SessionInv
<1> QED
  BY <1>1, SessionInvariance, PTL

-----------------------------------------------------------------------------
(* Answers. *)

(* While no command of the session has timed out, at most one is under way,  *)
(* the one the caller waits for, and at most at one of three places.         *)
NoAnswer(s) == \A i \in 1..Len(s) : s[i].kind # "answer"

OneAnswer(s) ==
  \A i \in 1..Len(s) :
    s[i].kind = "answer" =>
      /\ s[i].current
      /\ \A j \in 1..Len(s) : s[j].kind = "answer" => i = j

UnderWay ==
  \/ /\ stdin # <<>> /\ Len(stdin) = 1 /\ stdin[1].current
     /\ NoAnswer(stderr) /\ msgs = <<>>
  \/ stdin = <<>> /\ OneAnswer(stderr) /\ msgs = <<>>
  \/ stdin = <<>> /\ NoAnswer(stderr) /\ msgs # <<>> /\ msgs[1].current

UnderWayInv ==
  ~timed_out =>
    IF caller = "send_get" THEN UnderWay
    ELSE /\ stdin = <<>> /\ NoAnswer(stderr)
         /\ caller = "send_write" => msgs = <<>>

AnswerInv == TypeOK /\ UnderWayInv /\ AnswersMatchUntilTimeout

(* The first line is read: a pipe with one answer had it first or keeps      *)
(* it.                                                                       *)
LEMMA TakeLine ==
  ASSUME NEW s \in Seq(Lines), s # <<>>
  PROVE  /\ NoAnswer(s) => NoAnswer(Tail(s)) /\ Head(s).kind # "answer"
         /\ OneAnswer(s) => OneAnswer(Tail(s))
         /\ OneAnswer(s) /\ Head(s).kind = "answer"
              => Head(s).current /\ NoAnswer(Tail(s))
<1>1. /\ Len(Tail(s)) = Len(s) - 1
      /\ \A i \in 1..Len(Tail(s)) : Tail(s)[i] = s[i + 1]
      /\ Len(s) \in Nat \ {0}
      /\ Head(s) = s[1]
  BY HeadTailProperties, EmptySeq
<1>2. /\ \A i \in 1..Len(Tail(s)) : i + 1 \in 1..Len(s) /\ i + 1 # 1
      /\ 1 \in 1..Len(s)
  BY <1>1
<1>3. \A i, j \in 1..Len(Tail(s)) : i + 1 = j + 1 => i = j
  BY <1>1
<1> QED
  BY <1>1, <1>2, <1>3 DEF NoAnswer, OneAnswer

(* A line is printed: one that is no answer changes nothing, and an answer   *)
(* is alone if there was none.                                               *)
LEMMA PrintLine ==
  ASSUME NEW s \in Seq(Lines), NEW l \in Lines
  PROVE  /\ l.kind # "answer" /\ NoAnswer(s) => NoAnswer(Append(s, l))
         /\ l.kind # "answer" /\ OneAnswer(s) => OneAnswer(Append(s, l))
         /\ NoAnswer(s) /\ l.current => OneAnswer(Append(s, l))
<1>1. /\ Len(Append(s, l)) = Len(s) + 1
      /\ \A i \in 1..Len(s) : Append(s, l)[i] = s[i]
      /\ Append(s, l)[Len(s) + 1] = l
      /\ Len(s) \in Nat
  BY AppendProperties, LenProperties
<1>2. \A i \in 1..Len(Append(s, l)) : i \in 1..Len(s) \/ i = Len(s) + 1
  BY <1>1
<1> QED
  BY <1>1, <1>2 DEF NoAnswer, OneAnswer

(* An empty pipe has no answer. *)
LEMMA NoLine == NoAnswer(<<>>) /\ OneAnswer(<<>>)
BY DEF NoAnswer, OneAnswer

(* No answer is also at most one. *)
LEMMA NoneIsOne == \A s : NoAnswer(s) => OneAnswer(s)
BY DEF NoAnswer, OneAnswer

(* The invariant is kept: a command is written only when nothing is under    *)
(* way, and each step of the program or of the reader moves it on by one     *)
(* place or loses it.                                                        *)
LEMMA AnswerInvariance == Spec => []AnswerInv
<1>1. Init => AnswerInv
  <2>1. Init => UnderWayInv
    BY NoLine DEF Init, UnderWayInv
  <2>2. Init => AnswersMatchUntilTimeout
    BY DEF Init, AnswersMatchUntilTimeout
  <2> QED
    BY <2>1, <2>2, InitTypes DEF AnswerInv
<1>2. AnswerInv /\ TypeOK' /\ [Next]_vars => AnswerInv'
  <2> SUFFICES ASSUME AnswerInv, TypeOK', [Next]_vars PROVE AnswerInv'
    OBVIOUS
  <2>0. stderr \in Seq(Lines) /\ stdin \in Seq(Sent)
    BY DEF AnswerInv, TypeOK, Lines
  <2> USE DEF AnswerInv, AnswersMatchUntilTimeout
  <2>1. CASE StartProcess
    BY <2>1, NoLine DEF StartProcess, UnderWayInv
  <2>2. CASE StartGet
    BY <2>2 DEF StartGet, UnderWayInv, link_vars
  <2>3. CASE StartReturn
    BY <2>3 DEF StartReturn, UnderWayInv, link_vars
  <2>4. ASSUME NEW name \in Commands, SendBegin(name) PROVE AnswerInv'
    BY <2>4 DEF SendBegin, UnderWayInv, link_vars
  <2>5. CASE SendWrite
    <3>1. NoAnswer(stderr) => NoAnswer(stderr')
      BY <2>0, <2>5, OlderLines DEF SendWrite, NoAnswer
    <3>2. msgs = <<>> => msgs' = <<>>
      BY <2>5, OlderMsgs DEF SendWrite
    <3>3. CASE referenced /\ process # "exited"
      <4>1. stdin = <<>> => stdin' = <<[name |-> command, current |-> TRUE]>>
        BY <2>5, <3>3, OlderMsgs DEF SendWrite
      <4>2. ~timed_out => UnderWay'
        <5>1. ~timed_out => stdin = <<>> /\ NoAnswer(stderr) /\ msgs = <<>>
          BY <2>5 DEF SendWrite, UnderWayInv
        <5>2. stdin = <<>> => stdin' # <<>> /\ Len(stdin') = 1 /\ stdin'[1].current
          BY <4>1
        <5> QED
          BY <3>1, <3>2, <5>1, <5>2 DEF UnderWay
      <4>3. caller' = "send_get" /\ timed_out' = timed_out
        BY <2>5, <3>3 DEF SendWrite
      <4> QED
        BY <4>2, <4>3 DEF UnderWayInv
    <3>4. CASE ~(referenced /\ process # "exited")
      <4>1. caller' = "sent" /\ timed_out' = timed_out /\ send_ret' = 1
        BY <2>5, <3>4 DEF SendWrite
      <4>2. stdin = <<>> => stdin' = <<>>
        BY <2>5, <3>4, OlderMsgs DEF SendWrite
      <4> QED
        BY <2>5, <3>1, <4>1, <4>2 DEF SendWrite, UnderWayInv
    <3> QED
      BY <3>3, <3>4
  <2>6. CASE SendGet
    <3>1. ~timed_out => /\ stdin = <<>> /\ NoAnswer(stderr)
                        /\ msgs[1].current
      BY <2>6 DEF SendGet, UnderWayInv, UnderWay
    <3>2. Head(msgs) = msgs[1]
      BY <2>6 DEF SendGet, TypeOK
    <3>3. caller' = "sent" /\ UNCHANGED <<timed_out, stdin, stderr>> /\ own' = msgs[1].current
      BY <2>6, <3>2 DEF SendGet, link_vars
    <3> QED
      BY <3>1, <3>3 DEF UnderWayInv
  <2>7. CASE SendTimeout
    BY <2>7 DEF SendTimeout, UnderWayInv
  <2>8. CASE SendReturn
    BY <2>8 DEF SendReturn, UnderWayInv, link_vars
  <2>9. CASE StopTerminate \/ StopWait \/ StopJoin
    <3>1. /\ caller' \notin {"send_get", "send_write", "sent"}
          /\ caller \notin {"send_get", "send_write", "sent"}
          /\ UNCHANGED <<timed_out, stdin, stderr, msgs>>
      BY <2>9 DEF StopTerminate, StopWait, StopJoin, link_vars
    <3> QED
      BY <3>1 DEF UnderWayInv
  <2>10. CASE ReaderPoll \/ ReaderEof \/ ReaderPut
    <3>1. UNCHANGED <<caller, send_ret, own, timed_out, stdin, stderr, msgs>>
      BY <2>10 DEF ReaderPoll, ReaderEof, ReaderPut, link_vars, caller_vars
    <3> QED
      BY <3>1 DEF UnderWayInv, UnderWay
  <2>11. CASE ReaderLine
    <3>1. /\ UNCHANGED <<caller, send_ret, own, timed_out, stdin>>
          /\ stderr # <<>> /\ stderr' = Tail(stderr)
          /\ msgs' = IF Head(stderr).kind = "answer" /\ msgs = <<>>
                     THEN <<Head(stderr)>> ELSE msgs
      BY <2>11 DEF ReaderLine, caller_vars
    <3>2. CASE Head(stderr).kind # "answer"
      <4>1. msgs' = msgs
        BY <3>1, <3>2
      <4>2. /\ NoAnswer(stderr) => NoAnswer(stderr')
            /\ OneAnswer(stderr) => OneAnswer(stderr')
        BY <2>0, <3>1, TakeLine
      <4> QED
        BY <3>1, <4>1, <4>2 DEF UnderWayInv, UnderWay
    <3>3. CASE Head(stderr).kind = "answer"
      <4>1. ~NoAnswer(stderr)
        BY <2>0, <3>1, <3>3, TakeLine
      <4>2. OneAnswer(stderr) => Head(stderr).current /\ NoAnswer(stderr')
        BY <2>0, <3>1, <3>3, TakeLine
      <4>3. ~timed_out => /\ caller = "send_get" /\ stdin = <<>>
                          /\ OneAnswer(stderr) /\ msgs = <<>>
        BY <4>1 DEF UnderWayInv, UnderWay
      <4>4. msgs = <<>> => msgs' # <<>> /\ msgs'[1] = Head(stderr)
        BY <3>1, <3>3
      <4> QED
        BY <3>1, <4>2, <4>3, <4>4 DEF UnderWayInv, UnderWay
    <3> QED
      BY <3>2, <3>3
  <2>12. CASE ProgramReady \/ ProgramFails \/ ProgramLoses \/ ProgramExits
    <3>1. /\ UNCHANGED <<caller, send_ret, own, timed_out, msgs>>
          /\ stderr' \in {stderr, Append(stderr, Ready), Append(stderr, Error)}
          /\ \/ stdin' \in {stdin, <<>>}
             \/ stdin # <<>> /\ stdin' = Tail(stdin)
      BY <2>12 DEF ProgramReady, ProgramFails, ProgramLoses, ProgramExits, caller_vars
    <3>2. /\ Ready \in Lines /\ Ready.kind # "answer"
          /\ Error \in Lines /\ Error.kind # "answer"
      BY DEF Lines, Ready, Error
    <3>3. /\ NoAnswer(stderr) => NoAnswer(stderr')
          /\ OneAnswer(stderr) => OneAnswer(stderr')
      BY <2>0, <3>1, <3>2, PrintLine
    <3>4. stdin = <<>> \/ Len(stdin) = 1 => stdin' = stdin \/ stdin' = <<>>
      BY <2>0, <3>1
    <3> QED
      BY <3>1, <3>3, <3>4, NoneIsOne DEF UnderWayInv, UnderWay
  <2>13. CASE ProgramAnswers
    <3>1. /\ UNCHANGED <<caller, send_ret, own, timed_out, msgs>>
          /\ stdin # <<>> /\ stdin' = Tail(stdin)
      BY <2>13 DEF ProgramAnswers, caller_vars
    <3>2. PICK ok \in BOOLEAN :
            stderr' = Append(stderr, Line("answer", Head(stdin).name, ok,
                                          Head(stdin).current))
      BY <2>13 DEF ProgramAnswers
    <3>3. ~timed_out => /\ caller = "send_get"
                        /\ Len(stdin) = 1 /\ stdin[1].current
                        /\ NoAnswer(stderr) /\ msgs = <<>>
      BY <3>1 DEF UnderWayInv, UnderWay
    <3>4. Head(stdin) \in Sent /\ Head(stdin) = stdin[1]
      BY <2>0, <3>1
    <3>5. /\ Line("answer", Head(stdin).name, ok, Head(stdin).current) \in Lines
          /\ Line("answer", Head(stdin).name, ok, Head(stdin).current).current
               = Head(stdin).current
      BY <3>4 DEF Line, Lines, Answers, Sent
    <3>6. ~timed_out => OneAnswer(stderr')
      BY <2>0, <3>2, <3>3, <3>4, <3>5, PrintLine
    <3>7. Len(stdin) = 1 => stdin' = <<>>
      BY <2>0, <3>1
    <3> QED
      BY <3>1, <3>3, <3>6, <3>7 DEF UnderWayInv, UnderWay
  <2>14. CASE UNCHANGED vars
    BY <2>14 DEF vars, UnderWayInv, UnderWay
  <2> QED
    BY <2>1, <2>2, <2>3, <2>4, <2>5, <2>6, <2>7, <2>8, <2>9, <2>10, <2>11, <2>12,
       <2>13, <2>14 DEF Next, Caller, Reader, Program
<1> QED
  BY <1>1, <1>2, Typing, PTL DEF Spec

(* As long as no command of the session has timed out, a successful          *)
(* send_command has the answer to its own command (cn_interface.py:228-254): *)
(* msgs is emptied first and commands are sent one at a time.                *)
THEOREM AnswersAreOwn == Spec => []AnswersMatchUntilTimeout
<1>1. AnswerInv => AnswersMatchUntilTimeout
  BY DEF AnswerInv
<1> QED
  BY <1>1, AnswerInvariance, PTL
=============================================================================
