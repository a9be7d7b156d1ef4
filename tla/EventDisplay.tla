---------------------------- MODULE EventDisplay ----------------------------
(***************************************************************************)
(* The event display workspace (DQM/EventDisplay.py) over the snapshots    *)
(* that EVDSnapshotUpload stores: a session keeps a date and a page, every *)
(* answer looks at the directory again, and the page counts the snapshots  *)
(* of a date in the order of their times.  Snapshots arrive in any order,  *)
(* as the client names them; an operator removes those of a day.  A user   *)
(* clicks on what the last answer showed (EVD.js).                         *)
(***************************************************************************)
EXTENDS Integers, Sequences, SequencesExt, FiniteSetsExt

CONSTANTS
  Dates,        \* days, as numbers
  Times,        \* times of snapshots, as numbers
  MaxRemovals,  \* bound: days an operator removes
  None          \* no choice: the empty string

VARIABLES
  snapshots,    \* of each day the times of its snapshots
  session,      \* evd.date and evd.page
  view,         \* the last answer, or None
  removals

vars == <<snapshots, session, view, removals>>

(* A time is part of a file name: "9:00" is before "10:00" for natsorted,  *)
(* not for sorted.                                                         *)
Digits(t) == IF t < 10 THEN <<t>> ELSE <<t \div 10, t % 10>>
TextBefore(a, b) ==
  LET x == Digits(a) y == Digits(b)
  IN x[1] < y[1] \/ (x[1] = y[1] /\ Len(x) < Len(y))
       \/ (x[1] = y[1] /\ Len(x) = 2 /\ Len(y) = 2 /\ x[2] < y[2])

(* Slip: sorted as text. *)
NatsortedText(times) == SetToSortSeq(times, TextBefore)

Natsorted(times) == SetToSortSeq(times, <)

Available(s) == {d \in Dates : s[d] # {}}

(* _state: the date of the session if it has snapshots, else the newest;   *)
(* the page of the session, or the last one there is, which is also the    *)
(* image of a page of zeros.                                               *)
State(s, ses) ==
  LET date == IF ses.date \in Available(s) THEN ses.date
              ELSE IF Available(s) # {} THEN Max(Available(s)) ELSE ses.date
      images == IF date \in Available(s) THEN Natsorted(s[date]) ELSE <<>>
      page == IF images = <<>> THEN 0
              ELSE IF ses.page = None THEN Len(images) ELSE Min({ses.page, Len(images)})
  IN [dates |-> Available(s), date |-> date, images |-> Len(images), curimage |-> page,
      image |-> IF images = <<>> THEN None ELSE images[IF page = 0 THEN Len(images) ELSE page]]

(* EVDSnapshotSource.plot: nothing if there is no such file, and an error  *)
(* if there is: it is read as text, which no picture is.                   *)
Plot(s, date, time) == IF date \in Dates /\ time \in s[date] THEN "error" ELSE "nothing"

Init ==
  /\ snapshots = [d \in Dates |-> {}]
  /\ session = [date |-> None, page |-> None]
  /\ view = None
  /\ removals = 0

(* A snapshot is stored under the date and time of its name, if there is   *)
(* none of that name.                                                      *)
Store ==
  /\ \E d \in Dates : \E t \in Times \ snapshots[d] :
       snapshots' = [snapshots EXCEPT ![d] = @ \cup {t}]
  /\ UNCHANGED <<session, view, removals>>

RemoveDay ==
  /\ removals < MaxRemovals /\ removals' = removals + 1
  /\ \E d \in Available(snapshots) : snapshots' = [snapshots EXCEPT ![d] = {}]
  /\ UNCHANGED <<session, view>>

Answer(ses) ==
  /\ session' = ses
  /\ view' = State(snapshots, ses)
  /\ UNCHANGED <<snapshots, removals>>

(* The start URL; what it does not name stays.  The page "0" is taken for  *)
(* "1", but not "00", which is the number 0 here.                          *)
StartSession ==
  \E date \in Dates \cup {None}, page \in {None, 0, 1, 2} :
    Answer([date |-> IF date = None THEN session.date ELSE date,
            page |-> IF page = None THEN session.page ELSE page])

(* The periodic refresh.                                                   *)
SessionState == Answer(session)

(* A click on a date: the page goes back to the latest.                    *)
SessionSet ==
  /\ view # None
  /\ \E d \in view.dates \ {view.date} : Answer([date |-> d, page |-> None])

(* A click on an image of the list, or on "(Latest)".                      *)
SessionSetPage ==
  /\ view # None
  /\ \E p \in ((1 .. view.images) \ {view.curimage}) \cup {None} :
       Answer([session EXCEPT !.page = p])

Next == Store \/ RemoveDay \/ StartSession \/ SessionState \/ SessionSet \/ SessionSetPage
Spec == Init /\ [][Next]_vars

--------------------------------------------------------------------------------
(* The page is a place in the list of a day.  Who has chosen one sees that *)
(* image until a snapshot of an earlier time arrives for that day, and     *)
(* then the one before it, never another: snapshots of other days and of   *)
(* later times, in any order, change nothing.  Who has not chosen sees the *)
(* latest of the day, and who has chosen no day that of the newest (_state *)
(* and store, lines 78-140 and 196-229).                                   *)
ImageStays ==
  [][Store =>
       LET was == State(snapshots, session) now == State(snapshots', session)
           of == IF now.date \in Dates THEN snapshots'[now.date] ELSE {}
           chosen == session.date \in Available(snapshots)
           place == chosen /\ session.page \in 1 .. Cardinality(snapshots[session.date])
           earlier == {t \in of \ snapshots[now.date] : t < was.image}
       IN /\ chosen => now.date = was.date
          /\ place => now.image = IF earlier = {} THEN was.image ELSE Max({t \in of : t < was.image})
          /\ chosen /\ ~place => now.image = Max(of)
          /\ session = [date |-> None, page |-> None] =>
               now.date = Max(Available(snapshots')) /\ now.image = Max(of)]_vars

(* "Notify plot fairy the sub-url where we serve images" (line 159): the   *)
(* image a page names is sent.  None is, as Plot shows.                    *)
ImageServed ==
  view # None /\ view.image # None /\ view.image \in snapshots[view.date] =>
    Plot(snapshots, view.date, view.image) = "image"
=============================================================================
