----------------------------- MODULE RemoteTable -----------------------------
(***************************************************************************)
(* A table of the server and the rows of it that a panel of the client     *)
(* shows.  UsersModel and CustomersModel keep such rows, with the same     *)
(* code but for the names; this module has what they share, and they have  *)
(* the actions.                                                            *)
(*                                                                         *)
(* The client has one thread, but nothing makes the user wait: each        *)
(* request has a connection of its own, answers arrive in any order, and   *)
(* between a click and an answer, or while the box that asks for a         *)
(* confirmation is open (its exec() runs an event loop), the rows may      *)
(* change.  Other clients change the table at any time.                    *)
(***************************************************************************)
EXTENDS Integers, Sequences, FiniteSets, Functions, SequencesExt

CONSTANTS
    Keys,           \* the keys of rows there may be: logins or telephones
    Own,            \* the account of the user of this client
    FirstTable,     \* the keys in the table at first
    Listing(_),     \* the rows of the table in the order the server lists them
    Connections,    \* bound: connections this client has open at a time
    NoRequest,      \* a connection that is not open
    MaxActs,        \* bound: what the user does
    MaxOthers,      \* bound: changes other clients make
    MaxLosses       \* bound: connections and statements that fail

ASSUME TableAssumption == FirstTable \subseteq Keys /\ Own \in FirstTable
ASSUME ListingAssumption ==
    \A S \in SUBSET Keys :
        Listing(S) \in Seq(S) /\ Range(Listing(S)) = S /\ IsInjective(Listing(S))
ASSUME LimitsAssumption == {MaxActs, MaxOthers, MaxLosses} \subseteq Nat

VARIABLES
    table,          \* the rows on the server
    rows,           \* the rows of the model of the panel
    view_rows,      \* how many rows the attached view has been told of
    conns,          \* the connections of the client and what they carry
    dialog,         \* the row and the key the open confirmation is about
    crashed,        \* a row beyond the end has been removed
    lone,           \* history: the last request met no other one, nor a change by others
    stale,          \* history: the client has missed a change of the table
    acts, others, losses

env_vars == <<acts, others, losses>>
vars == <<table, rows, view_rows, conns, dialog, crashed, lone, stale, env_vars>>

NoDialog == [row |-> 0, key |-> Own]

Sent(op, key, row) ==
    [op |-> op, key |-> key, row |-> row, stage |-> "sent", list |-> <<>>]

Ops == {"get_users", "create_user", "delete_user",
        "get_customers", "create_customer", "delete_customer"}

Messages ==
    [op : Ops, key : Keys, row : Nat, stage : {"sent", "success", "error"}, list : Seq(Keys)]

ASSUME NoRequestAssumption == NoRequest \notin Messages

TypeOK ==
    /\ table \subseteq Keys
    /\ rows \in Seq(Keys)
    /\ view_rows \in Nat
    /\ conns \in [Connections -> Messages \cup {NoRequest}]
    /\ dialog \in [row : Nat, key : Keys]
    /\ {crashed, lone, stale} \subseteq BOOLEAN
    /\ {acts, others, losses} \subseteq Nat

(* The constructor of a panel asks for the rows.                           *)
TableInit(request) ==
    /\ table = FirstTable
    /\ rows = <<>>
    /\ view_rows = 0
    /\ \E k \in Connections :
          conns = [c \in Connections |-> IF c = k THEN request ELSE NoRequest]
    /\ dialog = NoDialog
    /\ crashed = FALSE
    /\ lone = TRUE
    /\ stale = TRUE
    /\ acts = 0
    /\ others = 0
    /\ losses = 0

-----------------------------------------------------------------------------
(* The user.  The confirmation is modal.                                   *)
Acts ==
    /\ ~crashed
    /\ dialog = NoDialog
    /\ acts < MaxActs
    /\ acts' = acts + 1
    /\ UNCHANGED <<table, rows, view_rows, crashed, others, losses>>

(* ServerConnectionComplex: the connection is a new one in any case.       *)
Opens(k, request) ==
    /\ conns[k] = NoRequest
    /\ conns' = [conns EXCEPT ![k] = request]
    /\ lone' = (\A c \in Connections : conns[c] = NoRequest)
    /\ stale' = (stale \/ ~lone')

Asks(k, request) ==
    /\ Acts
    /\ Opens(k, request)
    /\ UNCHANGED dialog

(* A row is selected, and the confirmation opens.                          *)
Confirmation(i) ==
    /\ Acts
    /\ dialog' = [row |-> i, key |-> rows[i]]
    /\ UNCHANGED <<conns, lone, stale>>

(* The user confirms: Remove sends the key that the row has now, if there  *)
(* still is such a row, and keeps the number of the row.                   *)
Confirmed(k, Request(_, _)) ==
    /\ ~crashed
    /\ dialog # NoDialog
    /\ dialog' = NoDialog
    /\ IF dialog.row > Len(rows)
         THEN UNCHANGED <<conns, lone, stale>>
         ELSE Opens(k, Request(rows[dialog.row], dialog.row))
    /\ UNCHANGED <<table, rows, view_rows, crashed, env_vars>>

Dismiss ==
    /\ ~crashed
    /\ dialog # NoDialog
    /\ dialog' = NoDialog
    /\ UNCHANGED <<table, rows, view_rows, conns, crashed, lone, stale, env_vars>>

-----------------------------------------------------------------------------
(* The server and the other clients (see Requests).                        *)
Answers(k, stage, list) ==
    /\ conns' = [conns EXCEPT ![k].stage = stage, ![k].list = list]
    /\ UNCHANGED <<rows, view_rows, dialog, crashed, lone, acts, others>>

ServeGet(k) ==
    /\ Answers(k, "success", Listing(table))
    /\ UNCHANGED <<table, stale, losses>>

ServeCreate(k) ==
    /\ Answers(k, IF conns[k].key \in table THEN "error" ELSE "success", <<>>)
    /\ table' = table \cup {conns[k].key}
    /\ UNCHANGED <<stale, losses>>

(* Success is answered whatever the statement did.                         *)
ServeDelete(k) ==
    /\ Answers(k, "success", <<>>)
    /\ \/ /\ table' = table \ {conns[k].key}
          /\ UNCHANGED <<stale, losses>>
       \/ /\ losses < MaxLosses
          /\ losses' = losses + 1
          /\ stale' = TRUE
          /\ UNCHANGED table

(* The handler that has the name of the request, if it may be run.         *)
Serve(k, permitted) ==
    /\ conns[k] # NoRequest
    /\ conns[k].stage = "sent"
    /\ conns[k].op \in permitted
    /\ CASE conns[k].op \in {"get_users", "get_customers"}       -> ServeGet(k)
         [] conns[k].op \in {"create_user", "create_customer"} -> ServeCreate(k)
         [] conns[k].op \in {"delete_user", "delete_customer"} -> ServeDelete(k)

(* The account is gone or has no right, or a statement failed.             *)
Refuse(k) ==
    /\ conns[k] # NoRequest
    /\ conns[k].stage = "sent"
    /\ conns[k].op # "get_customers"
    /\ Answers(k, "error", <<>>)
    /\ UNCHANGED <<table, stale, losses>>

OtherClient ==
    /\ others < MaxOthers
    /\ others' = others + 1
    /\ \E l \in Keys : table' = IF l \in table THEN table \ {l} ELSE table \cup {l}
    /\ lone' = FALSE
    /\ stale' = TRUE
    /\ UNCHANGED <<rows, view_rows, conns, dialog, crashed, acts, losses>>

-----------------------------------------------------------------------------
(* The answers, in the event loop of the client.                           *)
Answered(k, op, stage) ==
    /\ ~crashed
    /\ conns[k] # NoRequest
    /\ conns[k].op = op
    /\ conns[k].stage = stage
    /\ conns' = [conns EXCEPT ![k] = NoRequest]
    /\ UNCHANGED <<table, dialog, lone, env_vars>>

(* Rows are appended or cut off at the end until their number is right,    *)
(* and each is overwritten.  The view is told of the first and the last of *)
(* the rows that came or went.                                             *)
Overwrite(new) ==
    /\ rows' = new
    /\ view_rows' =
         IF Len(rows) <= Len(new)
           THEN view_rows + (Len(rows) + Len(new) - Len(rows) - 1) - Len(rows) + 1
           ELSE view_rows - ((Len(rows) - 1) - Len(new) + 1)
    /\ stale' = ~lone
    /\ UNCHANGED crashed

AppendRow(key) ==
    /\ rows' = Append(rows, key)
    /\ view_rows' = view_rows + 1
    /\ UNCHANGED <<crashed, stale>>

(* Mutant: the view is told of two rows.                                   *)
RemoveRowTwice(i) ==
    /\ IF i > Len(rows)
         THEN crashed' = TRUE /\ UNCHANGED <<rows, view_rows>>
         ELSE /\ rows' = RemoveAt(rows, i)
              /\ view_rows' = view_rows - 2
              /\ UNCHANGED crashed
    /\ UNCHANGED stale

(* The row that was selected at the time goes, whatever it shows now.  A   *)
(* row beyond the end is an assertion of Qt or undefined behaviour.        *)
RemoveRow(i) ==
    /\ IF i > Len(rows)
         THEN crashed' = TRUE /\ UNCHANGED <<rows, view_rows>>
         ELSE /\ rows' = RemoveAt(rows, i)
              /\ view_rows' = view_rows - 1
              /\ UNCHANGED crashed
    /\ UNCHANGED stale

Ignore == UNCHANGED <<rows, view_rows, crashed, stale>>

(* The connection fails, or could not be made in time, before or after the *)
(* server has served the request.  The rows stay.                          *)
Lost(k) ==
    /\ ~crashed
    /\ conns[k] # NoRequest
    /\ losses < MaxLosses
    /\ losses' = losses + 1
    /\ conns' = [conns EXCEPT ![k] = NoRequest]
    /\ stale' = (stale \/ conns[k].op \notin {"get_users", "get_customers"})
    /\ UNCHANGED <<table, rows, view_rows, dialog, crashed, lone, acts, others>>

-----------------------------------------------------------------------------
(* The view is told of every row that comes or goes: it never asks for a   *)
(* row the model does not have (UsersModel.cpp:173-193, 228-230, 266-268,  *)
(* CustomersModel.cpp:147-167, 203-205, 243-245).                          *)
RowsInStep == view_rows = Len(rows)

(* The rows are true whenever nothing is under way, from the first refresh *)
(* on that met no other request and no change by others, until the client  *)
(* misses what became of a change (UsersModel.cpp:122-274,                 *)
(* CustomersModel.cpp:98-251).                                             *)
Quiet == ~stale /\ \A k \in Connections : conns[k] = NoRequest
QuietIsTrue == Quiet => Range(rows) = table /\ IsInjective(rows)
=============================================================================
