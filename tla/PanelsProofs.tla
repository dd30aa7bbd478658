----------------------------- MODULE PanelsProofs -----------------------------
(***************************************************************************)
(* Proofs about Panels, for any keys, number of connections and bounds.    *)
(***************************************************************************)
EXTENDS Panels, SequenceTheorems, TLAPS

(* Removing a row: the others keep their order (removeAt of QList).        *)
LEMMA RemoveAtProperties ==
    ASSUME NEW s \in Seq(Keys), NEW i \in 1..Len(s)
    PROVE  /\ RemoveAt(s, i) \in Seq(Keys)
           /\ Len(RemoveAt(s, i)) = Len(s) - 1
           /\ \A j \in 1..(Len(s) - 1) : RemoveAt(s, i)[j] = IF j < i THEN s[j] ELSE s[j + 1]
<1> DEFINE a == SubSeq(s, 1, i - 1)
           b == SubSeq(s, i + 1, Len(s))
<1>1. Len(s) \in Nat /\ \A j \in 1..Len(s) : s[j] \in Keys
  OBVIOUS
<1>2. a \in Seq(Keys) /\ Len(a) = i - 1 /\ \A j \in 1..(i - 1) : a[j] = s[j]
  BY <1>1, SubSeqProperties
<1>3. b \in Seq(Keys) /\ Len(b) = Len(s) - i /\ \A j \in 1..(Len(s) - i) : b[j] = s[j + i]
  BY <1>1, SubSeqProperties
<1> HIDE DEF a, b
<1>4. a \o b \in Seq(Keys) /\ Len(a \o b) = Len(s) - 1
  <2>1. a \o b \in Seq(Keys) /\ Len(a \o b) = Len(a) + Len(b)
    BY <1>2, <1>3, ConcatProperties, Zenon
  <2>2. (i - 1) + (Len(s) - i) = Len(s) - 1
    BY <1>1
  <2> QED
    BY <1>2, <1>3, <2>1, <2>2
<1>5. RemoveAt(s, i) = a \o b
  BY DEF RemoveAt, a, b
<1>6. ASSUME NEW j \in 1..(Len(s) - 1)
      PROVE  (a \o b)[j] = IF j < i THEN s[j] ELSE s[j + 1]
  <2>1. CASE j < i
    <3>1. (a \o b)[j] = a[j]
      BY <1>1, <1>2, <1>3, <2>1, ConcatProperties
    <3> QED
      BY <1>2, <2>1, <3>1
  <2>2. CASE ~(j < i)
    <3>1. j - (i - 1) \in 1..(Len(s) - i) /\ j \in Len(a) + 1..Len(a) + Len(b)
      BY <1>1, <1>2, <1>3, <2>2
    <3>2. (a \o b)[j] = b[j - (i - 1)]
      BY <1>1, <1>2, <1>3, <2>2, <3>1, ConcatProperties
    <3>3. b[j - (i - 1)] = s[(j - (i - 1)) + i] /\ (j - (i - 1)) + i = j + 1
      BY <1>1, <1>3, <3>1
    <3> QED
      BY <2>2, <3>2, <3>3
  <2> QED
    BY <2>1, <2>2
<1> QED
  BY <1>4, <1>5, <1>6

(* What is removed goes from the range, and nothing else does, when no row *)
(* is there twice.                                                         *)
LEMMA RemoveAtRange ==
    ASSUME NEW s \in Seq(Keys), NEW i \in 1..Len(s), IsInjective(s)
    PROVE  /\ IsInjective(RemoveAt(s, i))
           /\ Range(RemoveAt(s, i)) = Range(s) \ {s[i]}
<1> DEFINE r == RemoveAt(s, i)
<1>1. /\ r \in Seq(Keys) /\ Len(r) = Len(s) - 1 /\ Len(s) \in Nat
      /\ DOMAIN r = 1..(Len(s) - 1) /\ DOMAIN s = 1..Len(s)
      /\ \A j \in 1..(Len(s) - 1) : r[j] = IF j < i THEN s[j] ELSE s[j + 1]
  <2>1. /\ r \in Seq(Keys) /\ Len(r) = Len(s) - 1
        /\ \A j \in 1..(Len(s) - 1) : r[j] = IF j < i THEN s[j] ELSE s[j + 1]
    BY RemoveAtProperties, Zenon
  <2>2. Len(s) \in Nat /\ DOMAIN s = 1..Len(s)
    OBVIOUS
  <2> HIDE DEF r
  <2>3. DOMAIN r = 1..Len(r)
    BY <2>1
  <2> QED
    BY <2>1, <2>2, <2>3
<1> HIDE DEF r
<1>2. IsInjective(r)
  <2> SUFFICES ASSUME NEW m \in DOMAIN r, NEW n \in DOMAIN r, r[m] = r[n] PROVE m = n
    BY DEF IsInjective
  <2> DEFINE old(j) == IF j < i THEN j ELSE j + 1
  <2>1. old(m) \in DOMAIN s /\ old(n) \in DOMAIN s /\ s[old(m)] = r[m] /\ s[old(n)] = r[n]
    BY <1>1
  <2>2. old(m) = old(n)
    BY <2>1 DEF IsInjective
  <2> QED
    BY <1>1, <2>2
<1>3. Range(r) \subseteq Range(s) \ {s[i]}
  BY <1>1 DEF IsInjective, Range
<1>4. ASSUME NEW m \in DOMAIN s, s[m] # s[i]
      PROVE  s[m] \in Range(r)
  <2>1. CASE m < i
    BY <1>1, <1>4, <2>1 DEF Range
  <2>2. CASE m > i
    <3>1. m - 1 \in DOMAIN r /\ r[m - 1] = s[m]
      BY <1>1, <1>4, <2>2
    <3> QED
      BY <3>1 DEF Range
  <2> QED
    BY <1>1, <1>4, <2>1, <2>2
<1>5. Range(r) = Range(s) \ {s[i]}
  BY <1>3, <1>4 DEF Range
<1> QED
  BY <1>2, <1>5 DEF r

LEMMA AppendRange ==
    ASSUME NEW s \in Seq(Keys), NEW key \in Keys
    PROVE  /\ Append(s, key) \in Seq(Keys)
           /\ Len(Append(s, key)) = Len(s) + 1
           /\ Range(Append(s, key)) = Range(s) \cup {key}
           /\ IsInjective(s) /\ key \notin Range(s) => IsInjective(Append(s, key))
<1> DEFINE a == Append(s, key)
<1>1. /\ a \in Seq(Keys) /\ Len(a) = Len(s) + 1 /\ Len(s) \in Nat
      /\ DOMAIN a = 1..(Len(s) + 1) /\ DOMAIN s = 1..Len(s)
      /\ \A j \in 1..Len(s) : a[j] = s[j]
      /\ a[Len(s) + 1] = key
  OBVIOUS
<1> HIDE DEF a
<1>2. Range(a) = Range(s) \cup {key}
  <2>1. Range(a) \subseteq Range(s) \cup {key}
    BY <1>1 DEF Range
  <2>2. Range(s) \subseteq Range(a)
    BY <1>1 DEF Range
  <2>3. key \in Range(a)
    BY <1>1 DEF Range
  <2> QED
    BY <2>1, <2>2, <2>3
<1>3. IsInjective(s) /\ key \notin Range(s) => IsInjective(a)
  BY <1>1 DEF IsInjective, Range
<1> QED
  BY <1>1, <1>2, <1>3 DEF a

-----------------------------------------------------------------------------
(* The steps of both panels, by what they do to the shared state.          *)

Open(k) == conns[k] # NoRequest

Gets == {"get_users", "get_customers"}
Creates == {"create_user", "create_customer"}
Deletes == {"delete_user", "delete_customer"}

(* What a panel asks for, and what the server does for its user.           *)
Asked == IF panel = "admin" THEN {"get_users", "create_user", "delete_user"}
                            ELSE {"get_customers", "create_customer", "delete_user"}
Permitted == IF panel = "admin" THEN {"get_users", "create_user", "delete_user"}
                                ELSE {"get_customers", "create_customer", "delete_customer"}

AskStep(k) == \E op \in Asked \ Deletes, key \in Keys : Asks(k, Sent(op, key, 0))

ConfirmedStep(k) ==
    /\ ~crashed
    /\ dialog # NoDialog
    /\ dialog' = NoDialog
    /\ IF dialog.row > Len(rows)
         THEN UNCHANGED <<conns, lone, stale>>
         ELSE Opens(k, Sent("delete_user", rows[dialog.row], dialog.row))
    /\ UNCHANGED <<table, rows, view_rows, crashed, env_vars>>

AnswerStep(k) ==
    /\ Answered(k, conns[k].op, conns[k].stage)
    /\ \/ conns[k].stage = "success" /\ conns[k].op \in Gets /\ Overwrite(conns[k].list)
       \/ conns[k].stage = "success" /\ conns[k].op \in Creates /\ AppendRow(conns[k].key)
       \/ conns[k].stage = "success" /\ conns[k].op \in Deletes /\ RemoveRow(conns[k].row)
       \/ conns[k].stage = "error" /\ Ignore

ServeStep(k) ==
    /\ Open(k) /\ conns[k].stage = "sent" /\ conns[k].op \in Permitted
    /\ \/ conns[k].op \in Gets /\ ServeGet(k)
       \/ conns[k].op \in Creates /\ ServeCreate(k)
       \/ conns[k].op \in Deletes /\ ServeDelete(k)

PanelType == panel \in {"admin", "employee"}

LEMMA Steps ==
    ASSUME PanelType, Next
    PROVE  /\ panel' = panel
           /\ \/ \E k \in Connections :
                    \/ AskStep(k) \/ ConfirmedStep(k) \/ AnswerStep(k)
                    \/ ServeStep(k) \/ Refuse(k) \/ Lost(k)
              \/ \E i \in DOMAIN rows : Confirmation(i)
              \/ Dismiss \/ OtherClient
<1>1. ASSUME NEW k \in Connections, panel = "admin", Admin(k)
      PROVE  AskStep(k) \/ ConfirmedStep(k) \/ AnswerStep(k)
  <2>1. CASE UpdateUsers(k) \/ CreateUser(k)
    BY <1>1, <2>1, TableAssumption
       DEF UpdateUsers, CreateUser, InsertUser, GetUsersRequest, CreateUserRequest, AskStep,
           Asked, Deletes
  <2>2. CASE RemoveUser(k)
    BY <2>2 DEF RemoveUser, Confirmed, DeleteUserRequest, ConfirmedStep
  <2>3. CASE UsersReceived(k) \/ UserAdded(k) \/ UserRemoved(k) \/ UsersRefused(k)
    BY <2>3 DEF UsersReceived, UserAdded, UserRemoved, UsersRefused, Answered, AnswerStep,
                Gets, Creates, Deletes
  <2> QED
    BY <1>1, <2>1, <2>2, <2>3 DEF Admin
<1>2. ASSUME NEW k \in Connections, panel = "employee", Employee(k)
      PROVE  AskStep(k) \/ ConfirmedStep(k) \/ AnswerStep(k)
  <2>1. CASE UpdateCustomers(k) \/ CreateCustomer(k)
    BY <1>2, <2>1, TableAssumption
       DEF UpdateCustomers, CreateCustomer, InsertCustomer, GetCustomersRequest,
           CreateCustomerRequest, AskStep, Asked, Deletes
  <2>2. CASE RemoveCustomer(k)
    BY <2>2 DEF RemoveCustomer, Confirmed, DeleteCustomerRequest, ConfirmedStep
  <2>3. CASE CustomersReceived(k) \/ CustomerAdded(k) \/ CustomerRefused(k) \/ CustomerRemoved(k)
    BY <2>3 DEF CustomersReceived, CustomerAdded, CustomerRefused, CustomerRemoved, Answered,
                AnswerStep, Gets, Creates, Deletes
  <2> QED
    BY <1>2, <2>1, <2>2, <2>3 DEF Employee
<1>3. ASSUME NEW k \in Connections, AdminStep, ServeAdmin(k) PROVE ServeStep(k)
  BY <1>3 DEF AdminStep, ServeAdmin, Serve, ServeStep, Permitted, Gets, Creates, Deletes, Open
<1>4. ASSUME NEW k \in Connections, EmployeeStep, ServeEmployee(k) PROVE ServeStep(k)
  BY <1>4 DEF EmployeeStep, ServeEmployee, Serve, ServeStep, Permitted, Gets, Creates, Deletes, Open
<1>5. CASE AdminStep
  BY <1>1, <1>3, <1>5 DEF AdminStep, DeleteUser, Next
<1>6. CASE EmployeeStep
  BY <1>2, <1>4, <1>6 DEF EmployeeStep, DeleteCustomer, Next
<1>7. CASE CommonStep
  BY <1>7 DEF CommonStep, Next
<1> QED
  BY <1>5, <1>6, <1>7 DEF Next

-----------------------------------------------------------------------------
(* Types and the view.                                                     *)

(* The rows that are remembered are counted from 1.                        *)
RowNumbers ==
    /\ dialog # NoDialog => dialog.row > 0
    /\ \A k \in Connections : Open(k) /\ conns[k].op \in Deletes => conns[k].row > 0

(* A panel only has requests of its own, and no employee deletes anything. *)
PanelRequests ==
    \A k \in Connections : Open(k) =>
        /\ conns[k].op \in Asked
        /\ panel = "employee" /\ conns[k].op \in Deletes => conns[k].stage # "success"

Typed == TypeOK /\ PanelType /\ RowsInStep /\ RowNumbers /\ PanelRequests

(* What opening a connection does to the requests.                         *)
LEMMA OpensProperties ==
    ASSUME Typed, panel' = panel, NEW k \in Connections, NEW request \in Messages, Opens(k, request),
           request.op \in Asked, request.stage = "sent", request.op \in Deletes => request.row > 0
    PROVE  /\ conns' \in [Connections -> Messages \cup {NoRequest}]
           /\ {lone', stale'} \subseteq BOOLEAN
           /\ PanelRequests'
           /\ \A j \in Connections : Open(j)' /\ conns'[j].op \in Deletes => conns'[j].row > 0
           /\ ~Open(k) /\ conns'[k] = request
           /\ \A j \in Connections : j # k => conns'[j] = conns[j]
<1>1. conns' = [conns EXCEPT ![k] = request] /\ ~Open(k)
  BY DEF Opens, Open
<1>2. /\ conns'[k] = request
      /\ \A j \in Connections : j # k => conns'[j] = conns[j]
      /\ conns' \in [Connections -> Messages \cup {NoRequest}]
  BY <1>1 DEF Typed, TypeOK
<1>3. {lone', stale'} \subseteq BOOLEAN
  BY DEF Opens, Typed, TypeOK
<1>4. PanelRequests'
  BY <1>2 DEF Typed, PanelRequests, Asked, Open
<1>5. \A j \in Connections : Open(j)' /\ conns'[j].op \in Deletes => conns'[j].row > 0
  BY <1>2 DEF Typed, RowNumbers, Open
<1> QED
  BY <1>1, <1>2, <1>3, <1>4, <1>5

(* What an answer of the server does to them.                              *)
LEMMA AnswersProperties ==
    ASSUME Typed, panel' = panel, NEW k \in Connections, NEW stage \in {"success", "error"},
           NEW list \in Seq(Keys), Answers(k, stage, list), Open(k),
           panel = "employee" /\ conns[k].op \in Deletes => stage # "success"
    PROVE  /\ conns' \in [Connections -> Messages \cup {NoRequest}]
           /\ PanelRequests' /\ RowNumbers'
           /\ /\ conns'[k].op = conns[k].op /\ conns'[k].key = conns[k].key
              /\ conns'[k].row = conns[k].row
              /\ conns'[k].stage = stage /\ conns'[k].list = list
           /\ \A j \in Connections : j # k => conns'[j] = conns[j]
<1>1. conns[k] \in Messages /\ conns' = [conns EXCEPT ![k].stage = stage, ![k].list = list]
  BY DEF Typed, TypeOK, Open, Answers
<1>2. /\ conns'[k] \in Messages
      /\ conns'[k].op = conns[k].op /\ conns'[k].key = conns[k].key
      /\ conns'[k].row = conns[k].row
      /\ conns'[k].stage = stage /\ conns'[k].list = list
  BY <1>1 DEF Typed, TypeOK, Messages
<1>3. \A j \in Connections : j # k => conns'[j] = conns[j]
  BY <1>1 DEF Typed, TypeOK
<1>4. conns' \in [Connections -> Messages \cup {NoRequest}]
  BY <1>1, <1>2, <1>3 DEF Typed, TypeOK
<1>5. PanelRequests'
  BY <1>2, <1>3 DEF Typed, PanelRequests, Asked, Open
<1>6. RowNumbers'
  BY <1>2, <1>3 DEF Typed, RowNumbers, Open, Answers
<1> QED
  BY <1>2, <1>3, <1>4, <1>5, <1>6

(* A connection is closed, with an answer or without.                      *)
LEMMA ClosedProperties ==
    ASSUME Typed, panel' = panel, NEW k \in Connections,
           conns' = [conns EXCEPT ![k] = NoRequest], UNCHANGED dialog
    PROVE  /\ conns' \in [Connections -> Messages \cup {NoRequest}]
           /\ PanelRequests' /\ RowNumbers'
           /\ ~Open(k)'
           /\ \A j \in Connections : j # k => conns'[j] = conns[j]
BY DEF Typed, TypeOK, PanelRequests, RowNumbers, Asked, Open

LEMMA StepTyped ==
    ASSUME Typed, Next
    PROVE  Typed'
<1>0. PanelType' /\ panel' = panel
  BY Steps DEF Typed, PanelType
<1>1. ASSUME NEW k \in Connections, AskStep(k) PROVE Typed'
  <2>1. PICK op \in Asked \ Deletes, key \in Keys : Asks(k, Sent(op, key, 0))
    BY <1>1 DEF AskStep
  <2> DEFINE request == Sent(op, key, 0)
  <2>2. request \in Messages /\ request.op \in Asked \ Deletes /\ request.stage = "sent"
    BY <2>1 DEF Sent, Messages, Ops, Asked
  <2>3. Opens(k, request)
    BY <2>1 DEF Asks
  <2> HIDE DEF request
  <2>4. /\ conns' \in [Connections -> Messages \cup {NoRequest}]
        /\ {lone', stale'} \subseteq BOOLEAN
        /\ PanelRequests'
        /\ \A j \in Connections : Open(j)' /\ conns'[j].op \in Deletes => conns'[j].row > 0
    BY <1>0, <2>2, <2>3, OpensProperties
  <2>5. UNCHANGED <<table, rows, view_rows, crashed, others, losses, dialog>> /\ acts' = acts + 1
    BY <2>1 DEF Asks, Acts
  <2> QED
    BY <1>0, <2>4, <2>5 DEF Typed, TypeOK, RowsInStep, RowNumbers, NoDialog
<1>2. ASSUME NEW k \in Connections, ConfirmedStep(k) PROVE Typed'
  <2>1. UNCHANGED <<table, rows, view_rows, crashed, acts, others, losses>> /\ dialog' = NoDialog
    BY <1>2 DEF ConfirmedStep, env_vars
  <2>2. dialog' \in [row : Nat, key : Keys]
    BY <2>1, TableAssumption DEF NoDialog
  <2>3. CASE UNCHANGED <<conns, lone, stale>>
    BY <1>0, <2>1, <2>2, <2>3 DEF Typed, TypeOK, RowsInStep, RowNumbers, PanelRequests, Asked, Open, NoDialog
  <2>4. CASE dialog.row <= Len(rows) /\ Opens(k, Sent("delete_user", rows[dialog.row], dialog.row))
    <3> DEFINE request == Sent("delete_user", rows[dialog.row], dialog.row)
    <3>1. dialog.row \in 1..Len(rows) /\ rows \in Seq(Keys)
      BY <1>2, <2>4 DEF ConfirmedStep, Typed, TypeOK, RowNumbers
    <3>2. rows[dialog.row] \in Keys
      BY <3>1
    <3>3. request \in Messages /\ request.op \in Asked /\ request.stage = "sent" /\ request.row > 0
      BY <3>1, <3>2 DEF Sent, Messages, Ops, Asked
    <3>4. Opens(k, request)
      BY <2>4
    <3> HIDE DEF request
    <3>5. /\ conns' \in [Connections -> Messages \cup {NoRequest}]
          /\ {lone', stale'} \subseteq BOOLEAN
          /\ PanelRequests'
          /\ \A j \in Connections : Open(j)' /\ conns'[j].op \in Deletes => conns'[j].row > 0
      BY <1>0, <3>3, <3>4, OpensProperties
    <3> QED
      BY <1>0, <2>1, <2>2, <3>5 DEF Typed, TypeOK, RowsInStep, RowNumbers, NoDialog
  <2>5. Len(rows) \in Nat /\ dialog.row \in Nat
    BY DEF Typed, TypeOK
  <2> QED
    BY <1>2, <2>3, <2>4, <2>5 DEF ConfirmedStep
<1>3. ASSUME NEW i \in DOMAIN rows, Confirmation(i) PROVE Typed'
  <2>1. i \in Nat /\ i > 0 /\ rows[i] \in Keys
    BY DEF Typed, TypeOK
  <2> QED
    BY <1>0, <1>3, <2>1
       DEF Confirmation, Acts, Typed, TypeOK, RowsInStep, RowNumbers, PanelRequests, Asked, Open
<1>4. ASSUME NEW k \in Connections, AnswerStep(k) PROVE Typed'
  <2>1. conns' = [conns EXCEPT ![k] = NoRequest] /\ conns[k] \in Messages
        /\ UNCHANGED <<table, dialog, lone, acts, others, losses>>
    BY <1>4 DEF AnswerStep, Answered, env_vars, Typed, TypeOK
  <2>2. conns' \in [Connections -> Messages \cup {NoRequest}] /\ PanelRequests' /\ RowNumbers'
    BY <1>0, <2>1, ClosedProperties
  <2>3. SUFFICES /\ rows' \in Seq(Keys) /\ view_rows' = Len(rows') /\ {crashed', stale'} \subseteq BOOLEAN
    BY <1>0, <2>1, <2>2 DEF Typed, TypeOK, RowsInStep
  <2>4. rows \in Seq(Keys) /\ view_rows = Len(rows) /\ Len(rows) \in Nat /\ {crashed, lone, stale} \subseteq BOOLEAN
    BY DEF Typed, TypeOK, RowsInStep
  <2>5. CASE Overwrite(conns[k].list)
    <3>1. conns[k].list \in Seq(Keys) /\ Len(conns[k].list) \in Nat
      BY <2>1 DEF Messages
    <3> QED
      BY <2>4, <2>5, <3>1 DEF Overwrite
  <2>6. CASE AppendRow(conns[k].key)
    BY <2>1, <2>4, <2>6 DEF AppendRow, Messages
  <2>7. CASE conns[k].op \in Deletes /\ RemoveRow(conns[k].row)
    <3>1. conns[k].row \in Nat /\ conns[k].row > 0
      BY <1>4, <2>1, <2>7 DEF Messages, Typed, RowNumbers, Open, AnswerStep, Answered
    <3>2. CASE conns[k].row > Len(rows)
      BY <2>4, <2>7, <3>2 DEF RemoveRow
    <3>3. CASE ~(conns[k].row > Len(rows))
      <4>1. rows' = RemoveAt(rows, conns[k].row) /\ view_rows' = view_rows - 1 /\ UNCHANGED <<crashed, stale>>
        BY <2>7, <3>3 DEF RemoveRow
      <4>2. conns[k].row \in 1..Len(rows)
        BY <2>4, <3>1, <3>3
      <4>3. rows' \in Seq(Keys) /\ Len(rows') = Len(rows) - 1
        BY <2>4, <4>1, <4>2, RemoveAtProperties
      <4> QED
        BY <2>4, <4>1, <4>3
    <3> QED
      BY <3>2, <3>3
  <2>8. CASE Ignore
    BY <2>4, <2>8 DEF Ignore
  <2> QED
    BY <1>4, <2>5, <2>6, <2>7, <2>8 DEF AnswerStep
<1>5. ASSUME NEW k \in Connections, ServeStep(k) PROVE Typed'
  <2>1. Open(k) /\ conns[k] \in Messages /\ conns[k].op \in Asked \cap Permitted
    BY <1>5 DEF ServeStep, Typed, PanelRequests, TypeOK, Open
  <2>2. panel = "employee" => conns[k].op \notin Deletes
    BY <2>1 DEF Asked, Permitted, Deletes
  <2>3. PICK stage \in {"success", "error"}, list \in Seq(Keys) : Answers(k, stage, list)
    <3>1. Listing(table) \in Seq(Keys)
      BY ListingAssumption, SeqMonotonic DEF Typed, TypeOK
    <3>2. <<>> \in Seq(Keys)
      OBVIOUS
    <3> QED
      BY <1>5, <3>1, <3>2 DEF ServeStep, ServeGet, ServeCreate, ServeDelete
  <2>4. conns' \in [Connections -> Messages \cup {NoRequest}] /\ PanelRequests' /\ RowNumbers'
    BY <1>0, <2>1, <2>2, <2>3, AnswersProperties
  <2>5. table' \subseteq Keys /\ stale' \in BOOLEAN /\ losses' \in Nat
    <3>1. conns[k].key \in Keys
      BY <2>1 DEF Messages
    <3>2. table \subseteq Keys /\ stale \in BOOLEAN /\ losses \in Nat
      BY DEF Typed, TypeOK
    <3>3. CASE ServeGet(k)
      BY <3>2, <3>3 DEF ServeGet
    <3>4. CASE ServeCreate(k)
      BY <3>1, <3>2, <3>4 DEF ServeCreate
    <3>5. CASE ServeDelete(k)
      <4>1. CASE UNCHANGED <<stale, losses>>
        BY <3>2, <3>5, <4>1 DEF ServeDelete
      <4>2. CASE losses' = losses + 1 /\ stale' = TRUE /\ UNCHANGED table
        <5>1. losses' \in Nat /\ table' \subseteq Keys
          BY <3>2, <4>2
        <5>2. stale' \in BOOLEAN
          BY <4>2, Zenon
        <5> QED
          BY <5>1, <5>2
      <4> QED
        BY <3>5, <4>1, <4>2 DEF ServeDelete
    <3> QED
      BY <1>5, <3>3, <3>4, <3>5 DEF ServeStep
  <2>6. UNCHANGED <<rows, view_rows, dialog, crashed, lone, acts, others>>
    BY <2>3 DEF Answers
  <2> QED
    BY <1>0, <2>4, <2>5, <2>6 DEF Typed, TypeOK, RowsInStep
<1>6. ASSUME NEW k \in Connections, Refuse(k) PROVE Typed'
  <2>1. Answers(k, "error", <<>>) /\ Open(k) /\ UNCHANGED <<table, stale, losses>> /\ <<>> \in Seq(Keys)
    BY <1>6 DEF Refuse, Open
  <2>2. conns' \in [Connections -> Messages \cup {NoRequest}] /\ PanelRequests' /\ RowNumbers'
    BY <1>0, <2>1, AnswersProperties
  <2> QED
    BY <1>0, <2>1, <2>2 DEF Answers, Typed, TypeOK, RowsInStep
<1>7. ASSUME NEW k \in Connections, Lost(k) PROVE Typed'
  <2>1. conns' \in [Connections -> Messages \cup {NoRequest}] /\ PanelRequests' /\ RowNumbers'
    BY <1>0, <1>7, ClosedProperties DEF Lost
  <2> QED
    BY <1>0, <1>7, <2>1 DEF Lost, Typed, TypeOK, RowsInStep
<1>8. CASE Dismiss
  BY <1>0, <1>8, TableAssumption
     DEF Dismiss, env_vars, Typed, TypeOK, RowsInStep, RowNumbers, PanelRequests, Asked, Open, NoDialog
<1>9. CASE OtherClient
  <2>1. table' \subseteq Keys
    BY <1>9 DEF OtherClient, Typed, TypeOK
  <2>2. UNCHANGED <<rows, view_rows, conns, dialog, crashed, acts, losses>>
        /\ others' = others + 1 /\ lone' = FALSE /\ stale' = TRUE
    BY <1>9 DEF OtherClient
  <2>3. TypeOK'
    <3>1. others' \in Nat
      BY <2>2 DEF Typed, TypeOK
    <3>2. lone' \in BOOLEAN /\ stale' \in BOOLEAN
      BY <2>2, Zenon
    <3> QED
      BY <2>1, <2>2, <3>1, <3>2 DEF Typed, TypeOK
  <2>4. RowsInStep' /\ RowNumbers' /\ PanelRequests'
    BY <1>0, <2>2 DEF Typed, RowsInStep, RowNumbers, PanelRequests, Asked, Open
  <2> QED
    BY <1>0, <2>3, <2>4 DEF Typed
<1> QED
  BY <1>1, <1>2, <1>3, <1>4, <1>5, <1>6, <1>7, <1>8, <1>9, Steps DEF Typed

-----------------------------------------------------------------------------
(* What the client knows.                                                  *)

RowsTrue == Range(rows) = table /\ IsInjective(rows)

(* A request that has met no other one is the only one; the list it brings *)
(* is still the table, and the row it is to remove is still there.         *)
Lonely ==
    lone =>
        /\ \A j, k \in Connections : Open(j) /\ Open(k) => j = k
        /\ \A k \in Connections : Open(k) =>
              /\ conns[k].op \in Gets /\ conns[k].stage = "success" =>
                    Range(conns[k].list) = table /\ IsInjective(conns[k].list)
              /\ conns[k].op \in Deletes => conns[k].row <= Len(rows)

(* A client that has missed nothing differs from the table by the change   *)
(* whose success it has not been told of yet, and by nothing else.         *)
Differs(k) ==
    /\ conns[k].op \in Gets \/ conns[k].stage # "success" => RowsTrue
    /\ conns[k].op \in Deletes => rows[conns[k].row] = conns[k].key
    /\ conns[k].op \in Creates /\ conns[k].stage = "success" =>
          /\ IsInjective(rows)
          /\ conns[k].key \notin Range(rows)
          /\ table = Range(rows) \cup {conns[k].key}
    /\ conns[k].op \in Deletes /\ conns[k].stage = "success" =>
          /\ IsInjective(rows)
          /\ table = Range(rows) \ {conns[k].key}

Informed ==
    ~stale =>
        /\ lone
        /\ (\A k \in Connections : ~Open(k)) => RowsTrue
        /\ \A k \in Connections : Open(k) => Differs(k)

IInv == Typed /\ Lonely /\ RowsExist /\ Informed

LEMMA InitIInv == Init => IInv
<1> SUFFICES ASSUME Init PROVE IInv
  OBVIOUS
<1>1. PICK k \in Connections, op \in Gets :
         /\ conns = [c \in Connections |-> IF c = k THEN Sent(op, Own, 0) ELSE NoRequest]
         /\ \/ panel = "admin" /\ op = "get_users"
            \/ panel = "employee" /\ op = "get_customers"
  <2>1. CASE InitAdmin
    BY <2>1, "get_users" \in Gets DEF InitAdmin, TableInit, GetUsersRequest, Gets
  <2>2. CASE InitEmployee
    BY <2>2, "get_customers" \in Gets DEF InitEmployee, TableInit, GetCustomersRequest, Gets
  <2> QED
    BY <2>1, <2>2 DEF Init
<1>2. /\ table = FirstTable /\ rows = <<>> /\ view_rows = 0 /\ dialog = NoDialog
      /\ crashed = FALSE /\ lone = TRUE /\ stale = TRUE /\ acts = 0 /\ others = 0 /\ losses = 0
  BY DEF Init, InitAdmin, InitEmployee, TableInit
<1>3. Sent(op, Own, 0) \in Messages /\ Sent(op, Own, 0).op = op /\ Sent(op, Own, 0).stage = "sent"
  BY TableAssumption DEF Sent, Messages, Ops, Gets
<1>4. TypeOK
  <2>1. conns \in [Connections -> Messages \cup {NoRequest}]
    BY <1>1, <1>3
  <2>2. dialog \in [row : Nat, key : Keys]
    BY <1>2, TableAssumption DEF NoDialog
  <2>3. crashed \in BOOLEAN /\ lone \in BOOLEAN /\ stale \in BOOLEAN
    BY <1>2, Zenon
  <2> QED
    BY <1>2, <2>1, <2>2, <2>3, TableAssumption DEF TypeOK
<1>5. \A c \in Connections : Open(c) => c = k /\ conns[c] = Sent(op, Own, 0)
  BY <1>1 DEF Open
<1>6. PanelType /\ RowsInStep /\ RowNumbers /\ PanelRequests
  BY <1>1, <1>2, <1>3, <1>5
     DEF PanelType, RowsInStep, RowNumbers, PanelRequests, Asked, Gets, Deletes
<1>7. Lonely /\ RowsExist /\ Informed
  BY <1>1, <1>2, <1>3, <1>5 DEF Lonely, RowsExist, Informed, Gets, Deletes
<1> QED
  BY <1>4, <1>6, <1>7 DEF IInv, Typed

(* A request that is opened while nothing is under way is the only one.    *)
LEMMA OpensKnown ==
    ASSUME IInv, panel' = panel, NEW k \in Connections, NEW request \in Messages, Opens(k, request),
           request.op \in Asked, request.stage = "sent", request.list = <<>>,
           request.op \in Deletes =>
              request.row \in 1..Len(rows) /\ rows[request.row] = request.key,
           UNCHANGED <<table, rows, crashed>>, ~crashed
    PROVE  Lonely' /\ RowsExist' /\ Informed'
<1>1. /\ ~Open(k) /\ conns'[k] = request
      /\ \A j \in Connections : j # k => conns'[j] = conns[j]
  BY OpensProperties DEF IInv
<1>2. lone' = (\A c \in Connections : ~Open(c)) /\ stale' = (stale \/ ~lone')
  BY DEF Opens, Open
<1>3. ASSUME lone' PROVE \A j \in Connections : Open(j)' => j = k
  BY <1>1, <1>2, <1>3 DEF Open
<1>4. Len(rows) \in Nat
  BY DEF IInv, Typed, TypeOK
<1>5. Lonely'
  BY <1>1, <1>3, <1>4 DEF Lonely, Open
<1>6. RowsExist'
  BY DEF RowsExist
<1>7. ASSUME ~stale' PROVE lone' /\ RowsTrue /\ \A j \in Connections : Open(j)' => Differs(j)'
  <2>1. lone' /\ ~stale /\ \A c \in Connections : ~Open(c)
    BY <1>2, <1>7
  <2>2. RowsTrue /\ RowsTrue'
    BY <2>1 DEF IInv, Informed, RowsTrue
  <2>3. Differs(k)'
    BY <1>1, <2>2 DEF Differs
  <2> QED
    BY <1>3, <2>1, <2>2, <2>3
<1>8. Informed'
  BY <1>1, <1>7 DEF Informed, RowsTrue
<1> QED
  BY <1>5, <1>6, <1>8

LEMMA StepKnown ==
    ASSUME IInv, Next
    PROVE  Lonely' /\ RowsExist' /\ Informed'
<1>0. panel' = panel /\ Typed /\ Lonely /\ RowsExist /\ Informed
      /\ PanelType /\ PanelRequests /\ RowNumbers
  BY Steps DEF IInv, Typed
<1>T. /\ rows \in Seq(Keys) /\ Len(rows) \in Nat /\ table \subseteq Keys
      /\ \A k \in Connections : Open(k) => conns[k] \in Messages
  BY DEF IInv, Typed, TypeOK, Open
<1>1. ASSUME NEW k \in Connections, AskStep(k) PROVE Lonely' /\ RowsExist' /\ Informed'
  <2>1. PICK op \in Asked \ Deletes, key \in Keys : Asks(k, Sent(op, key, 0))
    BY <1>1 DEF AskStep
  <2> DEFINE request == Sent(op, key, 0)
  <2>2. /\ request \in Messages /\ request.op \in Asked \ Deletes
        /\ request.stage = "sent" /\ request.list = <<>>
    BY <2>1 DEF Sent, Messages, Ops, Asked
  <2>3. Opens(k, request) /\ UNCHANGED <<table, rows, crashed>> /\ ~crashed
    BY <2>1 DEF Asks, Acts
  <2> HIDE DEF request
  <2> QED
    BY <1>0, <2>2, <2>3, OpensKnown
<1>2. ASSUME NEW k \in Connections, ConfirmedStep(k) PROVE Lonely' /\ RowsExist' /\ Informed'
  <2>1. UNCHANGED <<table, rows, crashed>> /\ ~crashed
    BY <1>2 DEF ConfirmedStep
  <2>2. CASE UNCHANGED <<conns, lone, stale>>
    BY <1>0, <2>1, <2>2 DEF Lonely, RowsExist, Informed, Differs, RowsTrue, Open
  <2>3. CASE dialog.row <= Len(rows) /\ Opens(k, Sent("delete_user", rows[dialog.row], dialog.row))
    <3> DEFINE request == Sent("delete_user", rows[dialog.row], dialog.row)
    <3>1. dialog.row \in 1..Len(rows)
      BY <1>0, <1>2, <2>3 DEF ConfirmedStep, Typed, TypeOK, RowNumbers
    <3>2. rows[dialog.row] \in Keys
      BY <3>1, <1>T
    <3>3. /\ request \in Messages /\ request.op \in Asked
          /\ request.stage = "sent" /\ request.list = <<>>
          /\ request.row \in 1..Len(rows) /\ rows[request.row] = request.key
      BY <3>1, <3>2 DEF Sent, Messages, Ops, Asked
    <3>4. Opens(k, request)
      BY <2>3
    <3> HIDE DEF request
    <3> QED
      BY <1>0, <2>1, <3>3, <3>4, OpensKnown
  <2>4. dialog.row \in Nat
    BY <1>0 DEF Typed, TypeOK
  <2> QED
    BY <1>2, <1>T, <2>2, <2>3, <2>4 DEF ConfirmedStep
<1>3. ASSUME NEW k \in Connections, AnswerStep(k) PROVE Lonely' /\ RowsExist' /\ Informed'
  <2>1. /\ conns' = [conns EXCEPT ![k] = NoRequest] /\ Open(k) /\ conns[k] \in Messages
        /\ UNCHANGED <<table, lone>> /\ ~crashed
    BY <1>3, <1>T DEF AnswerStep, Answered, Open
  <2>2. ~Open(k)' /\ \A j \in Connections : j # k => conns'[j] = conns[j]
    BY <1>0, <2>1 DEF Typed, TypeOK, Open
  <2>3. ASSUME lone PROVE \A j \in Connections : ~Open(j)'
    BY <1>0, <2>1, <2>2, <2>3 DEF Lonely, Open
  <2>4. Lonely'
    BY <2>1, <2>3 DEF Lonely
  <2>5. SUFFICES /\ lone => ~crashed'
                 /\ crashed' => panel = "admin"
                 /\ ~stale' => lone /\ RowsTrue'
    BY <1>0, <2>1, <2>3, <2>4 DEF RowsExist, Informed
  <2>6. CASE conns[k].stage = "success" /\ conns[k].op \in Gets /\ Overwrite(conns[k].list)
    <3>1. rows' = conns[k].list /\ stale' = ~lone /\ crashed' = crashed
      BY <2>6 DEF Overwrite
    <3>2. lone => Range(conns[k].list) = table /\ IsInjective(conns[k].list)
      BY <1>0, <2>1, <2>6 DEF Lonely
    <3> QED
      BY <2>1, <3>1, <3>2 DEF RowsTrue
  <2>7. CASE conns[k].stage = "success" /\ conns[k].op \in Creates /\ AppendRow(conns[k].key)
    <3>1. rows' = Append(rows, conns[k].key) /\ UNCHANGED <<crashed, stale>> /\ conns[k].key \in Keys
      BY <2>1, <2>7 DEF AppendRow, Messages
    <3>2. ~stale => lone /\ Differs(k)
      BY <1>0, <2>1 DEF Informed
    <3>3. ~stale => RowsTrue'
      BY <1>T, <2>1, <2>7, <3>1, <3>2, AppendRange DEF Differs, RowsTrue
    <3> QED
      BY <2>1, <3>1, <3>2, <3>3
  <2>8. CASE conns[k].stage = "success" /\ conns[k].op \in Deletes /\ RemoveRow(conns[k].row)
    <3>1. conns[k].row \in Nat /\ conns[k].row > 0 /\ panel = "admin"
      BY <1>0, <2>1, <2>8 DEF Messages, RowNumbers, PanelRequests, PanelType
    <3>2. lone => conns[k].row <= Len(rows)
      BY <1>0, <2>1, <2>8 DEF Lonely
    <3>3. ~stale => lone /\ Differs(k)
      BY <1>0, <2>1 DEF Informed
    <3>4. stale' = stale
      BY <2>8 DEF RemoveRow
    <3>5. CASE conns[k].row > Len(rows)
      BY <1>T, <3>1, <3>2, <3>3, <3>4, <3>5
    <3>6. CASE ~(conns[k].row > Len(rows))
      <4>1. rows' = RemoveAt(rows, conns[k].row) /\ crashed' = crashed
        BY <2>8, <3>6 DEF RemoveRow
      <4>2. conns[k].row \in 1..Len(rows)
        BY <1>T, <3>1, <3>6
      <4>3. ~stale => RowsTrue'
        BY <1>T, <2>1, <2>8, <3>3, <4>1, <4>2, RemoveAtRange DEF Differs, RowsTrue
      <4> QED
        BY <2>1, <3>3, <3>4, <4>1, <4>3
    <3> QED
      BY <3>5, <3>6
  <2>9. CASE conns[k].stage = "error" /\ Ignore
    BY <1>0, <2>1, <2>9 DEF Ignore, Informed, Differs, RowsTrue
  <2> QED
    BY <1>3, <2>6, <2>7, <2>8, <2>9 DEF AnswerStep
<1>4. ASSUME NEW k \in Connections, ServeStep(k) PROVE Lonely' /\ RowsExist' /\ Informed'
  <2>1. Open(k) /\ conns[k].stage = "sent"
    BY <1>4 DEF ServeStep
  <2>2. PICK stage \in {"success", "error"}, list \in Seq(Keys) :
           /\ Answers(k, stage, list)
           /\ conns[k].op \in Gets => list = Listing(table)
           /\ conns[k].op \in Gets \cup Deletes => stage = "success"
           /\ conns[k].op \in Creates =>
                 stage = IF conns[k].key \in table THEN "error" ELSE "success"
    <3>1. Listing(table) \in Seq(Keys) /\ <<>> \in Seq(Keys)
      BY <1>T, ListingAssumption, SeqMonotonic
    <3> QED
      BY <1>4, <3>1 DEF ServeStep, ServeGet, ServeCreate, ServeDelete, Gets, Creates, Deletes
  <2>3. panel = "employee" => conns[k].op \notin Deletes
    BY <1>0, <1>4, <2>1 DEF ServeStep, PanelRequests, Asked, Permitted, Deletes
  <2>4. /\ conns'[k].op = conns[k].op /\ conns'[k].key = conns[k].key
        /\ conns'[k].row = conns[k].row
        /\ conns'[k].stage = stage /\ conns'[k].list = list
        /\ \A j \in Connections : j # k => conns'[j] = conns[j]
    BY <1>0, <2>1, <2>2, <2>3, AnswersProperties
  <2>5. UNCHANGED <<rows, crashed, lone>>
    BY <2>2 DEF Answers
  <2>6. conns[k].op \in Gets => table' = table /\ stale' = stale
    BY <1>4 DEF ServeStep, ServeGet, Gets, Creates, Deletes
  <2>7. conns[k].op \in Creates => table' = table \cup {conns[k].key} /\ stale' = stale
    BY <1>4 DEF ServeStep, ServeCreate, Gets, Creates, Deletes
  <2>8. conns[k].op \in Deletes /\ ~stale' => table' = table \ {conns[k].key} /\ stale' = stale
    BY <1>4 DEF ServeStep, ServeDelete, Gets, Creates, Deletes
  <2>9. ASSUME lone PROVE \A j \in Connections : Open(j)' => j = k
    BY <1>0, <2>1, <2>4, <2>9 DEF Lonely, Open
  <2>10. conns[k].op \in Gets \/ conns[k].op \in Creates \/ conns[k].op \in Deletes
    BY <1>4 DEF ServeStep
  <2>11. Lonely'
    <3>1. Range(Listing(table)) = table /\ IsInjective(Listing(table))
      BY <1>T, ListingAssumption
    <3> QED
      BY <1>0, <2>1, <2>2, <2>4, <2>5, <2>6, <2>9, <3>1 DEF Lonely
  <2>12. ASSUME ~stale' PROVE lone /\ Differs(k)'
    <3>1. ~stale /\ lone /\ Differs(k) /\ RowsTrue
      BY <1>0, <2>1, <2>6, <2>7, <2>8, <2>10, <2>12 DEF Informed, Differs
    <3>2. CASE conns[k].op \in Gets
      BY <2>4, <2>5, <2>6, <3>1, <3>2 DEF Differs, RowsTrue, Gets, Creates, Deletes
    <3>3. CASE conns[k].op \in Creates
      BY <2>2, <2>4, <2>5, <2>7, <3>1, <3>3 DEF Differs, RowsTrue, Gets, Creates, Deletes
    <3>4. CASE conns[k].op \in Deletes
      BY <2>2, <2>4, <2>5, <2>8, <2>12, <3>1, <3>4 DEF Differs, RowsTrue, Gets, Creates, Deletes
    <3> QED
      BY <2>10, <3>1, <3>2, <3>3, <3>4
  <2>13. Open(k)'
    <3>1. conns'[k] \in Messages
      BY <1>T, <2>1, <2>2 DEF Answers, Messages, Typed, TypeOK, IInv
    <3> QED
      BY <3>1, NoRequestAssumption DEF Open
  <2>14. Informed'
    BY <2>5, <2>9, <2>12, <2>13 DEF Informed
  <2> QED
    BY <1>0, <2>5, <2>11, <2>14 DEF RowsExist
<1>5. ASSUME NEW k \in Connections, Refuse(k) PROVE Lonely' /\ RowsExist' /\ Informed'
  <2>1. /\ Answers(k, "error", <<>>) /\ Open(k) /\ conns[k].stage = "sent"
        /\ UNCHANGED <<table, stale>> /\ <<>> \in Seq(Keys)
    BY <1>5 DEF Refuse, Open
  <2>2. /\ conns'[k].op = conns[k].op /\ conns'[k].key = conns[k].key
        /\ conns'[k].row = conns[k].row /\ conns'[k].stage = "error"
        /\ \A j \in Connections : j # k => conns'[j] = conns[j]
    BY <1>0, <2>1, AnswersProperties
  <2>3. UNCHANGED <<rows, crashed, lone>>
    BY <2>1 DEF Answers
  <2>4. Lonely'
    BY <1>0, <2>1, <2>2, <2>3 DEF Lonely, Open
  <2>5. \A j \in Connections : j # k /\ Open(j)' => Open(j) /\ (Differs(j) => Differs(j)')
    BY <2>1, <2>2, <2>3 DEF Open, Differs, RowsTrue
  <2>6. Differs(k) => Differs(k)' /\ RowsTrue'
    BY <2>1, <2>2, <2>3 DEF Differs, RowsTrue, Gets, Creates, Deletes
  <2>7. Informed'
    BY <1>0, <2>1, <2>3, <2>5, <2>6 DEF Informed
  <2> QED
    BY <1>0, <2>3, <2>4, <2>7 DEF RowsExist
<1>6. ASSUME NEW k \in Connections, Lost(k) PROVE Lonely' /\ RowsExist' /\ Informed'
  <2>1. /\ conns' = [conns EXCEPT ![k] = NoRequest] /\ Open(k)
        /\ UNCHANGED <<table, rows, crashed, lone>>
        /\ stale' = (stale \/ conns[k].op \notin Gets)
    BY <1>6 DEF Lost, Open, Gets
  <2>2. ~Open(k)' /\ \A j \in Connections : j # k => conns'[j] = conns[j]
    BY <1>0, <2>1 DEF Typed, TypeOK, Open
  <2>3. Lonely'
    BY <1>0, <2>1, <2>2 DEF Lonely, Open
  <2>4. ASSUME ~stale' PROVE lone /\ RowsTrue' /\ \A j \in Connections : ~Open(j)'
    <3>1. ~stale /\ conns[k].op \in Gets /\ lone /\ Differs(k)
      BY <1>0, <2>1, <2>4 DEF Informed
    <3> QED
      BY <1>0, <2>1, <2>2, <3>1 DEF Lonely, Differs, RowsTrue, Open
  <2>5. Informed'
    BY <2>1, <2>4 DEF Informed
  <2> QED
    BY <1>0, <2>1, <2>3, <2>5 DEF RowsExist
<1>7. CASE Dismiss \/ \E i \in DOMAIN rows : Confirmation(i)
  <2>1. UNCHANGED <<table, rows, conns, crashed, lone, stale>>
    BY <1>7 DEF Dismiss, Confirmation, Acts
  <2> QED
    BY <1>0, <2>1 DEF Lonely, RowsExist, Informed, Differs, RowsTrue, Open
<1>8. CASE OtherClient
  <2>1. lone' = FALSE /\ stale' = TRUE /\ crashed' = crashed
    BY <1>8 DEF OtherClient
  <2> QED
    BY <1>0, <2>1 DEF Lonely, RowsExist, Informed
<1> QED
  BY <1>0, <1>1, <1>2, <1>3, <1>4, <1>5, <1>6, <1>7, <1>8, Steps

LEMMA StepIInv == IInv /\ [Next]_panel_vars => IInv'
<1>1. ASSUME IInv, Next PROVE IInv'
  BY <1>1, StepTyped, StepKnown DEF IInv
<1>2. ASSUME IInv, UNCHANGED panel_vars PROVE IInv'
  BY <1>2 DEF panel_vars, vars, env_vars, IInv, Typed, TypeOK, PanelType, RowsInStep, RowNumbers,
              PanelRequests, Asked, Lonely, RowsExist, Informed, Differs, RowsTrue, Open
<1> QED
  BY <1>1, <1>2

LEMMA IInvHolds == Spec => []IInv
BY InitIInv, StepIInv, PTL DEF Spec

(* Every row has a key, and the number of rows of the view is none below   *)
(* zero, however the answers overtake each other.                          *)
THEOREM TypeCorrect == Spec => []TypeOK
<1>1. IInv => TypeOK
  BY DEF IInv, Typed
<1> QED
  BY <1>1, IInvHolds, PTL

(* The view knows the number of rows (UsersModel.cpp:173-193, 228-230,     *)
(* 266-268, CustomersModel.cpp:147-167, 203-205, 243-245).                 *)
THEOREM RowsAreInStep == Spec => []RowsInStep
<1>1. IInv => RowsInStep
  BY DEF IInv, Typed
<1> QED
  BY <1>1, IInvHolds, PTL

(* No row that is not there is removed, as long as requests meet no other  *)
(* one and no change by others (UsersModel.cpp:266-268).                   *)
THEOREM RowsAreThere == Spec => []RowsExist
<1>1. IInv => RowsExist
  BY DEF IInv
<1> QED
  BY <1>1, IInvHolds, PTL

(* When nothing is under way and nothing was missed, the rows of the panel *)
(* are those of the server (UsersModel.cpp:122-274).                       *)
THEOREM QuietTrue == Spec => []QuietIsTrue
<1>1. IInv => QuietIsTrue
  BY DEF IInv, Informed, QuietIsTrue, Quiet, RowsTrue, Open
<1> QED
  BY <1>1, IInvHolds, PTL
=============================================================================
