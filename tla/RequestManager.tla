--------------------------- MODULE RequestManager ---------------------------
(***************************************************************************)
(* The pump of HTTP requests of the command line clients (Core/HTTP.py),   *)
(* as dqm-ls and dqm-access use it: a queue of tasks, a fixed number of    *)
(* connections, and call-backs that may queue more tasks, one for each     *)
(* directory a listing shows.  process() is called for one root after the  *)
(* other and returns when all that was queued is done.  Before, the        *)
(* options of the connections are taken from the environment               *)
(* (Core/X509.py).                                                         *)
(***************************************************************************)
EXTENDS Integers, Sequences, SequencesExt, FiniteSetsExt

CONSTANTS
  Handles,      \* the connections
  Tree,         \* of each directory of the server the directories in it
  Roots,        \* the directories asked for, in order
  MaxErrors,    \* bound: requests that fail
  None

VARIABLES
  environ,      \* what X509 variables and default files there are
  ssl,          \* the options: key, certificate, directory, password asked for
  queue, free,  \* tasks that wait, connections that wait
  sent,         \* of each connection in use: its task and what became of it
  npending,     \* process(): its count of the connections in use
  at,           \* where process() is
  asked,        \* roots asked for so far
  errors,
  responses, failures \* call-backs so far, as sequences of tasks

vars == <<environ, ssl, queue, free, sent, npending, at, asked, errors, responses, failures>>
transfers == <<queue, free, sent, npending, asked, errors, responses, failures>>

(* What is asked for: directories of a server, each of them in one other   *)
(* at most, and roots that are in none and differ.                         *)
Forest ==
  /\ IsFiniteSet(Handles) /\ MaxErrors \in Nat
  /\ \A d \in DOMAIN Tree : IsFiniteSet(Tree[d]) /\ Tree[d] \subseteq DOMAIN Tree
  /\ \A d, e \in DOMAIN Tree : d # e => Tree[d] \cap Tree[e] = {}
  /\ Roots \in Seq(DOMAIN Tree) /\ IsInjective(Roots)
  /\ \A i \in DOMAIN Roots, d \in DOMAIN Tree : Roots[i] \notin Tree[d]

--------------------------------------------------------------------------------
(* A path that is given and there, given and not there, or not given.      *)
Given == {"there", "missing", None}
Environments ==
  [X509_CERT_DIR : Given, X509_USER_PROXY : Given, X509_USER_KEY : Given,
   X509_USER_CERT : Given, defaults : SUBSET {"certificates", "userkey", "usercert"}]

(* The first of the places that is there.                                  *)
FirstThere(e, variables, default) ==
  LET there == SelectSeq(variables, LAMBDA v : e[v] = "there")
  IN IF there # <<>> THEN there[1] ELSE IF default \in e.defaults THEN default ELSE None

SSLOptions(e, proxy_only) ==
  LET ca == FirstThere(e, <<"X509_CERT_DIR">>, "certificates")
      key == FirstThere(e, <<"X509_USER_PROXY", "X509_USER_KEY">>, "userkey")
      cert == FirstThere(e, <<"X509_USER_PROXY", "X509_USER_CERT">>, "usercert")
  IN IF None \in {ca, key, cert} THEN None
     ELSE [ca_path |-> ca, key_file |-> key, cert_file |-> cert,
           key_pass |-> ~proxy_only /\ key # cert]

--------------------------------------------------------------------------------
Init ==
  /\ environ \in Environments
  /\ ssl = None
  /\ queue = <<>> /\ free = <<>>
  /\ sent = [h \in {} |-> None]
  /\ npending = 0 /\ at = "start"
  /\ asked = 0 /\ errors = 0 /\ responses = <<>> /\ failures = <<>>

(* The client: SSLOptions() raises when something is missing, then the     *)
(* connections are made.                                                   *)
Start ==
  /\ at = "start"
  /\ LET options == SSLOptions(environ, FALSE)
     IN /\ ssl' = options
        /\ IF options = None THEN at' = "ended" /\ UNCHANGED free
           ELSE at' = "returned" /\ free' = SetToSeq(Handles)
  /\ environ' = None
  /\ UNCHANGED <<queue, sent, npending, asked, errors, responses, failures>>

(* put() of the next root, and process().                                  *)
Process ==
  /\ at = "returned" /\ asked < Len(Roots)
  /\ asked' = asked + 1
  /\ queue' = Append(queue, Roots[asked + 1])
  /\ npending' = 0
  /\ at' = "top"
  /\ UNCHANGED <<environ, ssl, free, sent, errors, responses, failures>>

(* Slip: the requests that are under way are forgotten. *)
UnfinishedQueue == queue # <<>>

Unfinished == queue # <<>> \/ npending > 0

Top ==
  /\ at = "top"
  /\ at' = IF Unfinished THEN "fill" ELSE "returned"
  /\ UNCHANGED <<environ, ssl, transfers>>

(* The last connection that became free takes the first task.              *)
Fill ==
  /\ at = "fill"
  /\ IF queue # <<>> /\ free # <<>>
     THEN LET c == Last(free)
          IN /\ free' = Front(free)
             /\ queue' = Tail(queue)
             /\ sent' = [h \in DOMAIN sent \cup {c} |->
                          IF h = c THEN [task |-> Head(queue), state |-> "sent"] ELSE sent[h]]
             /\ npending' = npending + 1
             /\ UNCHANGED at
     ELSE at' = "perform" /\ UNCHANGED <<queue, free, sent, npending>>
  /\ UNCHANGED <<environ, ssl, asked, errors, responses, failures>>

InState(s) == {h \in DOMAIN sent : sent[h].state = s}

(* perform(): any of the transfers end, well or badly.                     *)
Perform ==
  /\ at = "perform"
  /\ \E done \in SUBSET InState("sent") : \E bad \in SUBSET done :
       /\ errors + Cardinality(bad) <= MaxErrors
       /\ errors' = errors + Cardinality(bad)
       /\ sent' = [h \in DOMAIN sent |->
            IF h \in bad THEN [sent[h] EXCEPT !.state = "err"]
            ELSE IF h \in done THEN [sent[h] EXCEPT !.state = "ok"] ELSE sent[h]]
  /\ at' = "collect"
  /\ UNCHANGED <<environ, ssl, queue, free, npending, asked, responses, failures>>

Without(h) == [g \in DOMAIN sent \ {h} |-> sent[g]]

(* request_respond: the listing is parsed and its directories are queued;  *)
(* then the connection is free again.                                      *)
Respond ==
  /\ at = "collect"
  /\ \E h \in InState("ok") :
       /\ sent' = Without(h)
       /\ queue' = queue \o SetToSeq(Tree[sent[h].task])
       /\ responses' = Append(responses, sent[h].task)
       /\ free' = Append(free, h)
       /\ npending' = npending - 1
  /\ UNCHANGED <<environ, ssl, at, asked, errors, failures>>

(* Slip: only a good answer gives the connection back. *)
ReportErrorKept ==
  /\ at = "collect" /\ InState("ok") = {}
  /\ \E h \in InState("err") :
       /\ sent' = Without(h)
       /\ failures' = Append(failures, sent[h].task)
       /\ npending' = npending - 1
  /\ UNCHANGED <<environ, ssl, queue, free, at, asked, errors, responses>>

(* request_error, when all good answers have been seen to.                 *)
ReportError ==
  /\ at = "collect" /\ InState("ok") = {}
  /\ \E h \in InState("err") :
       /\ sent' = Without(h)
       /\ failures' = Append(failures, sent[h].task)
       /\ free' = Append(free, h)
       /\ npending' = npending - 1
  /\ UNCHANGED <<environ, ssl, queue, at, asked, errors, responses>>

(* Nothing more to read: select(), and from the top.                       *)
Select ==
  /\ at = "collect" /\ InState("ok") \cup InState("err") = {}
  /\ at' = "top"
  /\ UNCHANGED <<environ, ssl, transfers>>

Pump == Top \/ Fill \/ Respond \/ ReportError \/ Select \/ Perform
Next == Start \/ Process \/ Pump

(* curl ends every transfer within its time-out of 300 seconds.            *)
Ends == Perform /\ \E h \in InState("sent") : sent'[h].state # "sent"
Spec == Init /\ [][Next]_vars /\ WF_vars(Pump) /\ SF_vars(Ends)

--------------------------------------------------------------------------------
(* When process() returns, every directory that could be reached was asked *)
(* for once, and answered or reported; nothing is under way, every         *)
(* connection is free and the next call starts from that (process, lines   *)
(* 126-163).                                                               *)
Times(s, task) == Cardinality({i \in DOMAIN s : s[i] = task})
Expected(task) ==
  \/ \E i \in 1 .. asked : Roots[i] = task
  \/ \E d \in ToSet(responses) : task \in Tree[d]
ListingComplete ==
  at = "returned" /\ asked > 0 =>
    /\ \A d \in DOMAIN Tree : Times(responses, d) + Times(failures, d) = IF Expected(d) THEN 1 ELSE 0
    /\ queue = <<>> /\ DOMAIN sent = {}
    /\ ToSet(free) = Handles /\ Len(free) = Cardinality(Handles)

=============================================================================
