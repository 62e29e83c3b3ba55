----------------------------- MODULE EventPages -----------------------------
(***************************************************************************)
(* FindUserEventsTask: a page of the events of one user, as shown to a     *)
(* requester who may be allowed to see only some of them.  The task reads  *)
(* rows and filters them, again and again until the page is full, the      *)
(* user has no more rows, or too many have been read.                      *)
(***************************************************************************)
EXTENDS KeyRange, Filters, FiniteSets

CONSTANTS Time, Index,
          Evt,           \* the kinds of events
          Owner,         \* the object user
          Subject,       \* the subject user's userCred
          DefaultFindUserEvents, MaxFindUserEvents,
          Walks,         \* whether there is a reader
          NoKey

KeyAssumption == Time \subseteq Nat \ {0} /\ Index \subseteq Nat
EvtAssumption == Evt \subseteq Event
MaxAssumption == /\ DefaultFindUserEvents \in Nat \ {0}
                 /\ MaxFindUserEvents \in Nat \ {0}

VARIABLES events,  \* events[k]: the kind of the user's event with the key k
          walk     \* a reader's way through the pages

vars == <<events, walk>>

Key == Time \X Index
Keys == DOMAIN events
Shown(k) == ShowsEvent(Subject, events[k], Owner)

NoWalk == [pc |-> "idle", asc |-> FALSE, at |-> NoKey, seen |-> <<>>, present |-> {}]

Init == events = <<>> /\ walk = NoWalk

\* AddPicVoteTask, AddPicCommentTask and UpsertPicTask insert an event at the
\* first free index of their time (PicVotes), which is not always the latest.
AddEvent(k, evt) ==
  /\ k \notin Keys
  /\ \A i \in Index : i < k[2] => <<k[1], i>> \in Keys
  /\ events' = [j \in Keys \cup {k} |-> IF j = k THEN evt ELSE events[j]]
  /\ UNCHANGED walk

-----------------------------------------------------------------------------
\* FindUserEventsTask.Run.

Bottom == <<-MaxInt64, 0>>   \* math.MinInt64
Top == <<MaxInt64, MaxInt64>>

Beyond(last) == Ex(last)

Full(ues, overmax) == Len(ues) >= overmax

\* Rows from start to stop, filtered, in scans of overmax rows each; finds
\* rows have been read before, and those of them that are shown are ues.
RECURSIVE Collect(_, _, _, _, _, _)
Collect(start, stop, asc, overmax, ues, finds) ==
  LET rows == Scan(Keys, start, stop, ~asc, overmax)
      more == ues \o SelectSeq(rows, Shown)
      n == finds + Len(rows)
  IN IF Full(more, overmax) \/ Len(rows) # overmax \/ n >= MaxFindUserEvents
     THEN [ues |-> more, finds |-> n, all |-> Len(rows) # overmax]
     ELSE LET last == rows[Len(rows)] IN
          Collect(IF asc THEN Beyond(last) ELSE start, IF asc THEN stop ELSE Beyond(last),
                  asc, overmax, more, n)

PrevEnd(key) == Ex(key)

Page(start, asc, requested) ==
  LET lo == IF start # NoKey /\ asc THEN start ELSE Bottom
      hi == IF start # NoKey /\ ~asc THEN start ELSE Top
      max == getMax(requested, DefaultFindUserEvents, MaxFindUserEvents)
      c == Collect(Inc(lo), Inc(hi), asc, max + 1, <<>>, 0)
      full == Len(c.ues) >= max + 1
      prev == IF asc THEN Scan(Keys, Inc(Bottom), PrevEnd(lo), TRUE, 1)
              ELSE Scan(Keys, PrevEnd(hi), Inc(Top), FALSE, 1)
  IN [events |-> SubSeq(c.ues, 1, IF full THEN max ELSE Len(c.ues)),
      next |-> IF full THEN c.ues[max + 1] ELSE NoKey,
      prev |-> IF prev = <<>> THEN NoKey ELSE prev[1],
      finds |-> c.finds, all |-> c.all]

BeginWalk(asc) ==
  /\ Walks /\ walk.pc = "idle"
  /\ walk' = [NoWalk EXCEPT !.pc = "walk", !.asc = asc, !.present = {k \in Keys : Shown(k)}]
  /\ UNCHANGED events

ReadPage ==
  /\ walk.pc = "walk"
  /\ \E page \in {Page(walk.at, walk.asc, 0)} :
       walk' = [walk EXCEPT !.seen = @ \o page.events, !.at = page.next,
                            !.pc = CASE page.next # NoKey -> "walk"
                                     [] page.finds >= MaxFindUserEvents /\ ~page.all -> "cut"
                                     [] OTHER -> "done"]
  /\ UNCHANGED events

Next == \/ \E k \in Key, evt \in Evt : AddEvent(k, evt)
        \/ \E asc \in BOOLEAN : BeginWalk(asc)
        \/ ReadPage

Spec == Init /\ [][Next]_vars

-----------------------------------------------------------------------------
\* Properties.

Ordered(s, asc) == \A i, j \in 1..Len(s) : i < j =>
  IF asc THEN Less(s[i], s[j]) ELSE Less(s[j], s[i])

\* A page is the first of the events shown, from its start on, in order, and
\* its next event is the one that follows: nothing is left out between two
\* scans, or twice, however many rows are hidden (FindUserEventsTask.Run).
\* Only when the scans end early, for too many rows, is the page short.
PageIsFirst ==
  \A start \in Key \cup {NoKey}, asc \in BOOLEAN, requested \in 0..MaxFindUserEvents :
    \A page \in {Page(start, asc, requested)} :
    LET precedes(j, k) == IF asc THEN Less(j, k) ELSE Less(k, j)
        got == ToSet(page.events)
        from == {k \in Keys : Shown(k) /\ (start \in {NoKey, k} \/ precedes(start, k))}
    IN /\ Ordered(page.events, asc)
       /\ got \subseteq from
       /\ \A k \in from \ got, g \in got : precedes(g, k)
       /\ IF page.next # NoKey
          THEN \A k \in from \ got : k = page.next \/ precedes(page.next, k)
          ELSE from = got \/ (page.finds >= MaxFindUserEvents /\ ~page.all)

\* From the previous event of a page, the page in the other direction leads
\* back: it shows no event of the first page, and its own previous event is
\* where that page began.
TurnsBack ==
  \A start \in Keys, asc \in BOOLEAN :
    \A page \in {Page(start, asc, 0)} : page.prev # NoKey =>
      \A back \in {Page(page.prev, ~asc, 0)} :
        /\ back.prev = start
        /\ ToSet(page.events) \cap ToSet(back.events) = {}

\* A reader who follows the next events meets each event once, in order, while
\* others are added before and after, and at the end has met every event that
\* was there to see (handleFindUserEvents).
WalkSeesShown ==
  /\ Ordered(walk.seen, walk.asc)
  /\ walk.pc = "done" => walk.present \subseteq {walk.seen[i] : i \in 1..Len(walk.seen)}
==============================================================================
