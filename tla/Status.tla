------------------------------- MODULE Status -------------------------------
(***************************************************************************)
(* be/status: errors with a code, a cause, a stack and the errors that     *)
(* were suppressed; and their way through one request, from a statement of *)
(* the database to the HTTP answer: the task's own failure, failures of    *)
(* its deferred cleanups, the decision to try again, the sum of all tries. *)
(*                                                                         *)
(* A status is never changed, so it is a record of its parts.              *)
(***************************************************************************)
EXTENDS Integers, Sequences, SequencesExt, FiniteSetsExt

CONSTANTS Raw,          \* errors of libraries ...
          Retryable,    \* ... and those of which db.Retryable says yes
          Stack,        \* call stacks, the innermost frame first
          MaxTries,     \* taskMaxRetries
          MaxWraps,     \* bound on the causes above a raw error
          MaxCleanups   \* bound on the cleanups that fail in a try

RawAssumption == Retryable \subseteq Raw /\ {"canceled", "deadline"} \subseteq Raw
StackAssumption == <<>> \notin Stack
BoundAssumption == MaxTries \in Nat \ {0} /\ {MaxWraps, MaxCleanups} \subseteq Nat

\* gRPC's codes, and what the front end answers for them.
httpStatus == [OK |-> 200, Canceled |-> 499, Unknown |-> 500,
  InvalidArgument |-> 400, DeadlineExceeded |-> 504, NotFound |-> 404,
  AlreadyExists |-> 409, PermissionDenied |-> 403, Unauthenticated |-> 401,
  ResourceExhausted |-> 429, FailedPrecondition |-> 412, Aborted |-> 409,
  OutOfRange |-> 416, Unimplemented |-> 501, Internal |-> 500,
  Unavailable |-> 503, DataLoss |-> 500]
Code == DOMAIN httpStatus

VARIABLES pc,
          stscap,   \* the named result of the task: a list of a status, or none
          stss,     \* runTask's failures, of all tries
          tries,
          happened, \* history: the raw errors that happened, in this order
          own,      \* history: the task's own failure in this try
          cleanups, \* cleanups that have failed in this try
          answer    \* the HTTP status of the answer

vars == <<pc, stscap, stss, tries, happened, own, cleanups, answer>>

Init == /\ pc = "run" /\ stscap = <<>> /\ stss = <<>> /\ tries = 1
        /\ happened = <<>> /\ own = <<>> /\ cleanups = 0 /\ answer = 0

---------------------------------------------------------------------------
\* Package status.  A cause is a list of a raw error or a status, or empty.

IsStatus(e) == DOMAIN e = {"code", "cause", "suppressed", "stack"}
RawError(r) == [raw |-> r]

\* The constructors: Internal, Internalf, ...
New(code, cause, stack) ==
  [code |-> code, cause |-> cause, suppressed |-> <<>>, stack |-> stack]

From(e, stack) ==
  IF IsStatus(e) THEN e
  ELSE New(IF e.raw = "canceled" THEN "Canceled"
           ELSE IF e.raw = "deadline" THEN "DeadlineExceeded" ELSE "Unknown",
           <<e>>, stack)

WithSuppressed(s, es) == [s EXCEPT !.suppressed = @ \o es]

\* Broken: the later failure is the one that counts.
ReplaceOrSuppressLast(dst, s) ==
  IF dst = <<>> THEN <<s>> ELSE <<WithSuppressed(s, dst)>>
ReplaceOrSuppress(dst, s) ==
  IF dst = <<>> THEN <<s>> ELSE <<WithSuppressed(dst[1], <<s>>)>>

\* The frames that a stack has in common with the enclosing one, from the end.
Common(stack, trace) ==
  Max({c \in 0..Min({Len(stack), Len(trace)}) :
         IsSuffix(SubSeq(stack, Len(stack) - c + 1, Len(stack)), trace)})

\* status.writeAll: a line for each status and each raw error, with the frames
\* that are written and the number of those that are not.
RECURSIVE WriteAll(_, _)
WriteAll(e, trace) ==
  IF ~IsStatus(e) THEN <<[error |-> e.raw, frames |-> <<>>, more |-> 0, of |-> e]>>
  ELSE LET c == Common(e.stack, trace)
           Rest(es) == FlattenSeq([i \in 1..Len(es) |-> WriteAll(es[i], e.stack)])
       IN <<[error |-> e.code, frames |-> SubSeq(e.stack, 1, Len(e.stack) - c),
             more |-> c, of |-> e, trace |-> trace]>>
          \o Rest(e.suppressed) \o Rest(e.cause)

---------------------------------------------------------------------------
\* One request.

\* unwrapTaskStatus: the error, if any, below all causes.
RECURSIVE UnwrapAll(_)
UnwrapAll(e) == IF ~IsStatus(e) \/ e.cause = <<>> THEN e ELSE UnwrapAll(e.cause[1])
unwrapTaskStatus(s) == UnwrapAll(s)
CanRetry(s) == LET e == unwrapTaskStatus(s) IN ~IsStatus(e) /\ e.raw \in Retryable

\* The statement of a task fails, and each caller makes it the cause of a status
\* of its own: Unknown in be/schema/db, any code above that.
RECURSIVE Wrapped(_, _, _)
Wrapped(e, codes, stack) ==
  IF codes = <<>> THEN e
  ELSE Wrapped(New(codes[1], <<e>>, stack), Tail(codes), Tail(stack))

Fail(r, codes, stack) ==
  /\ pc = "run" /\ Len(stack) > Len(codes)
  /\ LET s == Wrapped(RawError(r), <<"Unknown">> \o codes, stack)
     IN stscap' = <<s>> /\ own' = <<s>>
  /\ happened' = Append(happened, r)
  /\ pc' = "cleanup"
  /\ UNCHANGED <<stss, tries, cleanups, answer>>

Succeed == /\ pc = "run" /\ pc' = "cleanup"
           /\ UNCHANGED <<stscap, stss, tries, happened, own, cleanups, answer>>

\* A deferred cleanup, revert or the removal of a file, fails.
CleanupFails(r, stack) ==
  /\ pc = "cleanup" /\ cleanups < MaxCleanups
  /\ stscap' = ReplaceOrSuppress(stscap, From(RawError(r), stack))
  /\ cleanups' = cleanups + 1
  /\ happened' = Append(happened, r)
  /\ UNCHANGED <<pc, stss, tries, own, answer>>

NextRun == /\ stscap' = <<>> /\ own' = <<>> /\ cleanups' = 0

\* runTaskOnce and runTask: a failure that may be retried is, while tries are
\* left and the context lives; ended says how it ended, if it did while the task
\* waited for the next try.
Decide(ended, stack) ==
  /\ pc = "cleanup"
  /\ IF stscap = <<>>
     THEN /\ pc' = "answer" /\ stss' = <<>> /\ ended = "no"
          /\ UNCHANGED <<stscap, tries, happened, own, cleanups>>
     ELSE /\ ended # "no" => CanRetry(stscap[1])
          /\ stss' = stss \o stscap
                     \o (IF ended = "no" THEN <<>> ELSE <<From(RawError(ended), stack)>>)
          /\ happened' = happened \o (IF ended = "no" THEN <<>> ELSE <<ended>>)
          /\ IF CanRetry(stscap[1]) /\ tries < MaxTries /\ ended = "no"
             THEN pc' = "run" /\ tries' = tries + 1 /\ NextRun
             ELSE pc' = "answer" /\ UNCHANGED <<stscap, tries, own, cleanups>>
  /\ UNCHANGED answer

Result == WithSuppressed(Head(stss), Tail(stss))

\* serverInterceptor, and httpErrorHeaderAndLog of the front end.
Answer == /\ pc = "answer" /\ pc' = "done"
          /\ answer' = IF stss = <<>> THEN httpStatus["OK"]
                       ELSE httpStatus[Result.code]
          /\ UNCHANGED <<stscap, stss, tries, happened, own, cleanups>>

Next == \/ \E r \in Raw, n \in 0..MaxWraps, stack \in Stack :
             \E codes \in [1..n -> {"Internal", "NotFound"}] : Fail(r, codes, stack)
        \/ Succeed
        \/ \E r \in Raw, stack \in Stack : CleanupFails(r, stack)
        \/ \E ended \in {"no", "canceled", "deadline"}, stack \in Stack :
             Decide(ended, stack)
        \/ Answer

Spec == Init /\ [][Next]_vars

---------------------------------------------------------------------------
\* Properties.

\* Cleanups that fail do not hide why the task failed: its code, and the error
\* that says whether it is worth another try, stay those of its own failure.
OwnFailureDecides ==
  own # <<>> => /\ stscap[1].code = own[1].code
                /\ CanRetry(stscap[1]) = (UnwrapAll(own[1]).raw \in Retryable)

\* The text of the result tells of every error that happened, in all tries and
\* cleanups, once each.
TellsAll ==
  pc = "done" /\ stss # <<>> =>
    LET told == SelectSeq(WriteAll(Result, <<>>), LAMBDA l : ~IsStatus(l.of))
    IN \A r \in Raw : Len(SelectSeq(told, LAMBDA l : l.error = r))
                        = Len(SelectSeq(happened, LAMBDA h : h = r))

\* A reader can put every stack together again: the frames that are written, and
\* as many of the enclosing stack as are left out.
StacksAreWhole ==
  pc = "done" /\ stss # <<>> =>
    LET lines == WriteAll(Result, <<>>) IN
    \A i \in 1..Len(lines) :
      LET l == lines[i] IN
      IsStatus(l.of) => l.frames \o SubSeq(l.trace, Len(l.trace) - l.more + 1, Len(l.trace))
                          = l.of.stack

\* A request that failed is answered as the first try failed, and with an error.
AnswersFirstFailure ==
  pc = "done" => IF stss = <<>> THEN answer = 200
                 ELSE answer = httpStatus[stss[1].code] /\ answer \in 400..599
=============================================================================
