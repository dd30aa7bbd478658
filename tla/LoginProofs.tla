----------------------------- MODULE LoginProofs -----------------------------
(***************************************************************************)
(* Proofs about Login, for any size of an answer, any width of size_t and  *)
(* any number of windows, panels and connections.                          *)
(***************************************************************************)
EXTENDS Login, TLAPS

Open(k) == conns[k] # NoConn
Pending(k) == conns[k].verdict \notin {"told", "failed"}
Posted(k) == \E d \in later : d[1] = k
Boxed(k) == \E i \in DOMAIN boxes : boxes[i].op = "error" /\ boxes[i].conn = k

(* What has been read of an answer only grows.                             *)
ReadGrows ==
    \A k \in Connections : Open(k) =>
        conns[k].got < Total \/ conns[k].pre = Delim

(* The server tells the truth.                                             *)
SuccessIsValid ==
    \A k \in Connections : Open(k) /\ conns[k].verdict = "success" => conns[k].cred \in Valid

(* A connection does not outlive its window.                               *)
ParentsLive == \A k \in Connections : Open(k) => window[conns[k].win] # "gone"

Sound == TypeOK /\ ReadGrows /\ SuccessIsValid /\ ParentsLive

(* There is one window or panel at a time.                                 *)
OneVisible ==
    /\ \A v, w \in Windows : window[v] = "shown" /\ window[w] = "shown" => v = w
    /\ \A p, q \in Panels : panels[p] # NoPanel /\ panels[q] # NoPanel => p = q
    /\ \A w \in Windows, p \in Panels : window[w] = "shown" => panels[p] = NoPanel

OneConn == \A j, k \in Connections : Open(j) /\ Open(k) => j = k

(* An answer is awaited in the window that is shown, and behind no box.    *)
Awaited ==
    \A k \in Connections : Open(k) /\ Pending(k) =>
        /\ boxes = <<>>
        /\ Running => window[conns[k].win] = "shown"

(* A connection that is done with is to be deleted, now or by the handler  *)
(* that waits for its box.                                                 *)
Settled == \A k \in Connections : Open(k) /\ ~Pending(k) => Posted(k) \/ Boxed(k)

BoxesLive == \A i \in DOMAIN boxes : window[boxes[i].win] # "gone"

(* No window is closed from within a message box.                          *)
ClosedOutside == \A d \in later : d[1] \in Windows => d[2] = 0

OnceEach ==
    \A w \in Windows :
        /\ opened[w] <= 1
        /\ opened[w] = 1 => window[w] \notin {"unborn", "shown"}

Orderly ==
    /\ ~crashed
    /\ OneVisible /\ OneConn /\ Awaited /\ Settled
    /\ BoxesLive /\ ClosedOutside /\ OnceEach

(* The request has the credentials the widgets still say.                  *)
Unedited == \A k \in Connections : Open(k) /\ Pending(k) => conns[k].cred = text[conns[k].win]

PanelsConfirmed ==
    \A p \in Panels : panels[p] # NoPanel =>
        /\ user = panels[p].confirmed
        /\ user \in Valid
        /\ panels[p].rank = Rank[user]

(* The user who presses the button once for each answer, and the one who   *)
(* leaves the widgets alone as well.                                       *)
IInv ==
    /\ Sound
    /\ ~again => Orderly
    /\ ~again /\ ~edited => Unedited /\ PanelsConfirmed

-----------------------------------------------------------------------------
(* An answer is found unless exactly the delimiter's length was there      *)
(* before the block that completes it: the one case in which the wrapped   *)
(* start lies behind the delimiter (ServerConnection.cpp:91-94).           *)
LEMMA CompleteUnlessTwo ==
    ASSUME NEW pre \in 0..Total, pre < Total, pre # Delim
    PROVE  Complete(pre, Total)
<1>1. Size \in Nat /\ Size > 0 /\ Total = Size + 2 /\ Total \in Nat /\ Word \in Nat /\ Word > 2 * Total /\ Delim = 2
  BY SizeAssumption, WordAssumption DEF Total, Delim
<1>2. CASE pre = 0
  BY <1>1, <1>2 DEF Complete, SearchStart, IsFound
<1>3. CASE pre = 1
  <2>1. Minus(pre, Delim) = Word - 1
    BY <1>1, <1>3 DEF Minus
  <2>2. Minus(Word - 1, 1) = Word - 2
    BY <1>1 DEF Minus
  <2>3. AsInt(Word - 2) = -2
    BY <1>1 DEF AsInt
  <2>4. SearchStart(pre) = -2
    BY <1>1, <1>3, <2>1, <2>2, <2>3 DEF SearchStart
  <2> QED
    BY <1>1, <2>4 DEF Complete, IsFound
<1>4. CASE pre > 2
  <2>1. Minus(pre, Delim) = pre - 2
    BY <1>1, <1>4 DEF Minus
  <2>2. Minus(pre - 2, 1) = pre - 3
    BY <1>1, <1>4 DEF Minus
  <2>3. AsInt(pre - 3) = pre - 3
    BY <1>1, <1>4 DEF AsInt
  <2>4. SearchStart(pre) = pre - 3
    BY <1>1, <1>4, <2>1, <2>2, <2>3 DEF SearchStart
  <2> QED
    BY <1>1, <1>4, <2>4 DEF Complete, IsFound
<1> QED
  BY <1>1, <1>2, <1>3, <1>4

LEMMA InitIInv == Init => IInv
<1> SUFFICES ASSUME Init PROVE IInv
  OBVIOUS
<1>1. TypeOK
  <2>1. boxes \in Seq(Boxes)
    BY DEF Init
  <2>2. {crashed, again, edited} \subseteq BOOLEAN
    BY DEF Init
  <2>3. Fresh \in Texts
    BY CredsAssumption DEF Texts
  <2> QED
    BY <2>1, <2>2, <2>3 DEF Init, TypeOK
<1>2. \A k \in Connections : ~Open(k)
  BY DEF Init, Open
<1>3. Sound /\ OneConn /\ Awaited /\ Settled /\ Unedited
  BY <1>1, <1>2 DEF Sound, ReadGrows, SuccessIsValid, ParentsLive, OneConn, Awaited, Settled, Unedited
<1>4. OneVisible /\ PanelsConfirmed
  BY DEF Init, OneVisible, PanelsConfirmed
<1>5. ~crashed /\ BoxesLive /\ ClosedOutside /\ OnceEach
  BY DEF Init, BoxesLive, ClosedOutside, OnceEach
<1> QED
  BY <1>3, <1>4, <1>5 DEF IInv, Orderly

-----------------------------------------------------------------------------
(* What deleteLater adds, and what a deletion takes away.                  *)
LEMMA LaterAdds ==
    ASSUME TypeOK, NEW S \in SUBSET (Windows \cup Connections), NEW n \in Nat, later' = Later(S, n)
    PROVE  /\ later' \subseteq (Windows \cup Connections) \X Nat
           /\ \A d \in later' : d \in later \/ (d[1] \in S /\ d[2] = n)
           /\ \A k \in Connections : Posted(k) \/ k \in S => Posted(k)'
<1>1. later \subseteq (Windows \cup Connections) \X Nat
  BY DEF TypeOK
<1>2. later \subseteq later'
  BY DEF Later
<1>3. \A d \in later' : d \in later \/ \E x \in S : d = <<x, n>>
  BY DEF Later
<1>4. ASSUME NEW k \in S PROVE Posted(k)'
  <2>1. CASE Posted(k)
    BY <1>2, <2>1 DEF Posted
  <2>2. CASE ~Posted(k)
    <3>1. <<k, n>> \in later'
      BY <2>2 DEF Later, Posted
    <3> QED
      BY <3>1 DEF Posted
  <2> QED
    BY <2>1, <2>2
<1>5. \A k \in Connections : Posted(k) => Posted(k)'
  BY <1>2 DEF Posted
<1> QED
  BY <1>1, <1>3, <1>4, <1>5

LEMMA ForgottenTakes ==
    ASSUME NEW S, Forgotten(S)
    PROVE  /\ later' \subseteq later
           /\ \A k \in Connections \ S : Posted(k) => Posted(k)'
BY DEF Forgotten, Posted

(* With no box open everything posted is due.                              *)
LEMMA NothingLater ==
    ASSUME TypeOK, boxes = <<>>, Due = {}
    PROVE  \A k \in Connections : ~Posted(k) /\ ~Boxed(k)
<1>1. Len(boxes) = 0
  OBVIOUS
<1>2. \A d \in later : Len(boxes) <= d[2]
  BY <1>1 DEF TypeOK
<1>3. later = {}
  BY <1>2 DEF Due
<1> QED
  BY <1>3 DEF Posted, Boxed

(* A box comes and goes on top of the others.                              *)
LEMMA Pushed ==
    ASSUME TypeOK, NEW b \in Boxes, boxes' = <<b>> \o boxes
    PROVE  /\ boxes' \in Seq(Boxes)
           /\ \A i \in DOMAIN boxes' : boxes'[i] = b \/ \E j \in DOMAIN boxes : boxes'[i] = boxes[j]
           /\ \E i \in DOMAIN boxes' : boxes'[i] = b
           /\ \A j \in DOMAIN boxes : \E i \in DOMAIN boxes' : boxes'[i] = boxes[j]
<1>1. boxes \in Seq(Boxes) /\ boxes' \in Seq(Boxes)
  BY DEF TypeOK
<1>2. Len(boxes') = Len(boxes) + 1 /\ Len(boxes) \in Nat
  BY <1>1
<1>3. boxes'[1] = b
  BY <1>1
<1>4. \A j \in 1..Len(boxes) : boxes'[j + 1] = boxes[j]
  BY <1>1
<1>5. \A i \in DOMAIN boxes' : i = 1 \/ (i - 1 \in DOMAIN boxes /\ boxes'[i] = boxes[i - 1])
  BY <1>1, <1>2, <1>4
<1>6. 1 \in DOMAIN boxes' /\ \A j \in DOMAIN boxes : j + 1 \in DOMAIN boxes'
  BY <1>1, <1>2
<1> QED
  BY <1>1, <1>3, <1>4, <1>5, <1>6

LEMMA Popped ==
    ASSUME TypeOK, boxes # <<>>, boxes' = Tail(boxes)
    PROVE  /\ boxes' \in Seq(Boxes)
           /\ Head(boxes) \in Boxes
           /\ 1 \in DOMAIN boxes /\ boxes[1] = Head(boxes)
           /\ Len(boxes') \in Nat
           /\ \A i \in DOMAIN boxes' : \E j \in DOMAIN boxes : boxes'[i] = boxes[j]
           /\ \A j \in DOMAIN boxes : j = 1 \/ \E i \in DOMAIN boxes' : boxes'[i] = boxes[j]
<1>1. boxes \in Seq(Boxes) /\ boxes' \in Seq(Boxes)
  BY DEF TypeOK
<1>2. Len(boxes) \in Nat \ {0} /\ Len(boxes') = Len(boxes) - 1
  BY <1>1
<1>3. \A i \in 1..Len(boxes') : boxes'[i] = boxes[i + 1]
  BY <1>1, <1>2
<1>4. \A i \in DOMAIN boxes' : i + 1 \in DOMAIN boxes
  BY <1>1, <1>2
<1>5. \A j \in DOMAIN boxes : j = 1 \/ (j - 1 \in DOMAIN boxes' /\ boxes'[j - 1] = boxes[j])
  BY <1>1, <1>2, <1>3
<1>6. 1 \in DOMAIN boxes /\ boxes[1] = Head(boxes) /\ Head(boxes) \in Boxes
  BY <1>1, <1>2
<1>7. Len(boxes') \in Nat
  BY <1>2
<1>8. \A i \in DOMAIN boxes' : \E j \in DOMAIN boxes : boxes'[i] = boxes[j]
  <2> TAKE i \in DOMAIN boxes'
  <2>1. i \in 1..Len(boxes')
    BY <1>1
  <2> WITNESS i + 1 \in DOMAIN boxes
  <2> QED
    BY <1>3, <2>1
<1>9. \A j \in DOMAIN boxes : j = 1 \/ \E i \in DOMAIN boxes' : boxes'[i] = boxes[j]
  BY <1>5
<1> QED
  BY <1>1, <1>6, <1>7, <1>8, <1>9

-----------------------------------------------------------------------------
(* Types, one action at a time.                                            *)
LEMMA OverChanges ==
    ASSUME TypeOK, NEW k \in Connections, Open(k), NEW v \in {"told", "failed"}, Over(k, v)
    PROVE  /\ conns' \in [Connections -> Conns \cup {NoConn}]
           /\ \A j \in Connections : j # k => conns'[j] = conns[j]
           /\ conns'[k].win = conns[k].win /\ conns'[k].cred = conns[k].cred
           /\ conns'[k].verdict = v /\ conns'[k].got = 0
<1>1. conns[k] \in Conns /\ 0 \in 0..Total
  BY SizeAssumption DEF TypeOK, Open, Total, Delim
<1>2. conns'[k] = [conns[k] EXCEPT !.verdict = v, !.pre = 0, !.got = 0]
  BY DEF Over, TypeOK
<1>3. \A j \in Connections : j # k => conns'[j] = conns[j]
  BY DEF Over, TypeOK
<1>4. conns'[k] = [win |-> conns[k].win, cred |-> conns[k].cred, verdict |-> v, pre |-> 0, got |-> 0]
  BY <1>1, <1>2 DEF Conns
<1>5. conns'[k] \in Conns
  BY <1>1, <1>4 DEF Conns, Verdicts
<1>6. conns' \in [Connections -> Conns \cup {NoConn}]
  BY <1>5 DEF Over, TypeOK
<1> QED
  BY <1>3, <1>4, <1>6

LEMMA OpensTypes ==
    ASSUME TypeOK, NEW k \in Connections, Open(k), NEW op \in {"answer", "error"}, Opens(op, k)
    PROVE  /\ [op |-> op, conn |-> k, win |-> conns[k].win] \in Boxes
           /\ boxes' \in Seq(Boxes)
<1>1. [op |-> op, conn |-> k, win |-> conns[k].win] \in Boxes
  BY DEF TypeOK, Open, Conns, Boxes
<1> QED
  BY <1>1, Pushed DEF Opens

(* Posting a deletion from a handler.                                      *)
LEMMA LaterTypes ==
    ASSUME TypeOK, NEW S \in SUBSET (Windows \cup Connections), later' = Later(S, Len(boxes))
    PROVE  later' \subseteq (Windows \cup Connections) \X Nat
<1>1. Len(boxes) \in Nat
  BY DEF TypeOK
<1> QED
  BY <1>1, LaterAdds

LEMMA Told ==
    ASSUME TypeOK, NEW k \in Connections, NEW v, MessageArrived(k, v)
    PROVE  /\ Open(k) /\ Running /\ conns[k] \in Conns
           /\ conns[k].verdict = v /\ Pending(k)
           /\ Over(k, "told")
           /\ UNCHANGED <<text, crashed, history_vars>>
<1>1. Open(k) /\ Running /\ Pending(k)
  BY DEF MessageArrived, Arrives, Open, Pending
<1> QED
  BY <1>1 DEF MessageArrived, TypeOK, Open

LEMMA CloseTypes ==
    ASSUME TypeOK, NEW w \in Windows, NEW S \in SUBSET Connections, Close(w, S)
    PROVE  /\ window' \in [Windows -> {"unborn", "shown", "hidden", "closed", "gone"}]
           /\ window'[w] \in {"hidden", "closed"}
           /\ \A v \in Windows : v # w => window'[v] = window[v]
           /\ S \cup ({w} \ {First}) \in SUBSET (Windows \cup Connections)
           /\ later' = Later(S \cup ({w} \ {First}), Len(boxes))
           /\ later' \subseteq (Windows \cup Connections) \X Nat
<1>1. S \cup ({w} \ {First}) \in SUBSET (Windows \cup Connections)
  OBVIOUS
<1>2. later' \subseteq (Windows \cup Connections) \X Nat
  BY <1>1, LaterTypes DEF Close
<1> QED
  BY <1>1, <1>2 DEF Close, TypeOK

LEMMA OpensPanelTypes ==
    ASSUME TypeOK, NEW w \in Windows, NEW k \in Connections, Open(k),
           user' \in Texts, OpensPanel(w, k)
    PROVE  /\ panels' \in [Panels -> [rank : Ranks, confirmed : Creds] \cup {NoPanel}]
           /\ opened' = [opened EXCEPT ![w] = @ + 1]
           /\ opened' \in [Windows -> Nat]
           /\ \E p \in Panels :
                 /\ panels'[p] = [rank |-> Rank[user'], confirmed |-> conns[k].cred]
                 /\ \A q \in Panels : q # p => panels'[q] = panels[q]
<1>1. conns[k].cred \in Creds /\ Rank[user'] \in Ranks
  BY CredsAssumption DEF TypeOK, Open, Conns
<1>2. PICK p \in Panels :
         panels' = [panels EXCEPT ![p] = [rank |-> Rank[user'], confirmed |-> conns[k].cred]]
  BY DEF OpensPanel
<1>3. opened' = [opened EXCEPT ![w] = @ + 1]
  BY DEF OpensPanel
<1> QED
  BY <1>1, <1>2, <1>3 DEF TypeOK

LEMMA StepTypeOK == TypeOK /\ [Next]_vars => TypeOK'
<1> SUFFICES ASSUME TypeOK, [Next]_vars PROVE TypeOK'
  OBVIOUS
<1> USE DEF session_vars, history_vars
<1>1. ASSUME NEW w \in Windows, Edit(w) PROVE TypeOK'
  BY <1>1 DEF TypeOK, Edit
<1>2. ASSUME NEW w \in Windows, CheckUserExists(w) PROVE TypeOK'
  <2>1. text[w] \in Creds /\ 0 \in 0..Total
    BY <1>2, SizeAssumption DEF CheckUserExists, Total, Delim
  <2>2. AuthRequest(w) \in Conns
    BY <2>1 DEF AuthRequest, Conns, Verdicts
  <2>3. conns' \in [Connections -> Conns \cup {NoConn}] /\ again' \in BOOLEAN
    BY <1>2, <2>2 DEF TypeOK, CheckUserExists, Connects
  <2> QED
    BY <1>2, <2>3 DEF TypeOK, CheckUserExists, Presses
<1>3. ASSUME NEW w \in Windows, CloseWindow(w) PROVE TypeOK'
  <2>1. Close(w, {}) /\ {} \in SUBSET Connections
    BY <1>3 DEF CloseWindow
  <2> QED
    BY <1>3, <2>1, CloseTypes DEF TypeOK, CloseWindow
<1>4. ASSUME NEW w \in Windows, DeleteWindow(w) PROVE TypeOK'
  <2>1. conns' \in [Connections -> Conns \cup {NoConn}]
    <3>1. conns' = [j \in Connections |-> IF j \in Children(w) THEN NoConn ELSE conns[j]]
      BY <1>4 DEF DeleteWindow
    <3>2. conns \in [Connections -> Conns \cup {NoConn}]
      BY DEF TypeOK
    <3> QED
      BY <3>1, <3>2
  <2>2. later' \subseteq later
    BY <1>4, ForgottenTakes DEF DeleteWindow
  <2> QED
    BY <1>4, <2>1, <2>2 DEF TypeOK, DeleteWindow
<1>5. ASSUME NEW k \in Connections, Auth(k) PROVE TypeOK'
  <2>1. conns[k] \in Conns
    BY <1>5 DEF TypeOK, Auth
  <2>2. PICK v \in Verdicts : conns' = [conns EXCEPT ![k].verdict = v]
    BY <1>5 DEF Auth, Verdicts
  <2>3. [conns[k] EXCEPT !.verdict = v] \in Conns
    BY <2>1 DEF Conns
  <2>4. conns' \in [Connections -> Conns \cup {NoConn}]
    BY <2>2, <2>3 DEF TypeOK
  <2> QED
    BY <1>5, <2>4 DEF TypeOK, Auth
<1>6. ASSUME NEW k \in Connections, ReadyRead(k) PROVE TypeOK'
  <2>1. PICK n \in 1..Total :
           conns[k] # NoConn /\ conns' = [conns EXCEPT ![k].pre = conns[k].got, ![k].got = n]
    BY <1>6 DEF ReadyRead, Arrives
  <2>2. conns[k] \in Conns /\ n \in 0..Total
    BY <2>1, SizeAssumption DEF TypeOK, Total, Delim
  <2>3. conns' \in [Connections -> Conns \cup {NoConn}]
    BY <2>1, <2>2 DEF TypeOK, Conns
  <2> QED
    BY <1>6, <2>3 DEF TypeOK, ReadyRead
<1>7. ASSUME NEW k \in Connections, ErrorOccured(k) PROVE TypeOK'
  <2>1. Open(k) /\ Over(k, "failed") /\ Opens("error", k)
    BY <1>7 DEF ErrorOccured, Open
  <2>2. conns' \in [Connections -> Conns \cup {NoConn}] /\ boxes' \in Seq(Boxes)
    BY <2>1, OverChanges, OpensTypes
  <2> QED
    BY <1>7, <2>2 DEF TypeOK, ErrorOccured
<1>8. ASSUME NEW k \in Connections, DeleteConnection(k) PROVE TypeOK'
  <2>1. conns' \in [Connections -> Conns \cup {NoConn}]
    BY <1>8 DEF TypeOK, DeleteConnection
  <2>2. later' \subseteq later
    BY <1>8, ForgottenTakes DEF DeleteConnection
  <2> QED
    BY <1>8, <2>1, <2>2 DEF TypeOK, DeleteConnection
<1>9. ASSUME NEW k \in Connections, AuthUnreadable(k) \/ AuthRefused(k) PROVE TypeOK'
  <2>1. /\ MessageArrived(k, "unreadable") \/ MessageArrived(k, "refused")
        /\ Opens("answer", k)
        /\ later' = Later({k}, Len(boxes)) /\ {k} \in SUBSET (Windows \cup Connections)
        /\ UNCHANGED <<window, panels, opened>>
        /\ user' = user \/ user' = text[conns[k].win]
    BY <1>9 DEF AuthUnreadable, AuthRefused, SetUser
  <2>2. /\ Open(k) /\ conns[k] \in Conns /\ Over(k, "told")
        /\ UNCHANGED <<text, crashed, history_vars>>
    BY <2>1, Told
  <2>3. user' \in Texts \cup {NoUser}
    BY <2>1, <2>2 DEF TypeOK, Conns
  <2>4. conns' \in [Connections -> Conns \cup {NoConn}] /\ boxes' \in Seq(Boxes)
    BY <2>1, <2>2, OverChanges, OpensTypes
  <2>5. later' \subseteq (Windows \cup Connections) \X Nat
    BY <2>1, LaterTypes
  <2> QED
    BY <2>1, <2>2, <2>3, <2>4, <2>5 DEF TypeOK
<1>10. ASSUME NEW k \in Connections, AuthSucceeded(k) PROVE TypeOK'
  <2> DEFINE w == conns[k].win
  <2>1. /\ MessageArrived(k, "success") /\ user' = text[w] /\ OpensPanel(w, k)
        /\ Close(w, {k}) /\ {k} \in SUBSET Connections /\ boxes' = boxes
    BY <1>10 DEF AuthSucceeded, SetUser
  <2>2. /\ Open(k) /\ conns[k] \in Conns /\ Over(k, "told")
        /\ UNCHANGED <<text, crashed, history_vars>>
    BY <2>1, Told
  <2>3. w \in Windows /\ user' \in Texts
    BY <2>1, <2>2 DEF TypeOK, Conns
  <2>4. conns' \in [Connections -> Conns \cup {NoConn}]
    BY <2>2, OverChanges
  <2>5. /\ window' \in [Windows -> {"unborn", "shown", "hidden", "closed", "gone"}]
        /\ later' \subseteq (Windows \cup Connections) \X Nat
    BY <2>1, <2>3, CloseTypes
  <2>6. /\ panels' \in [Panels -> [rank : Ranks, confirmed : Creds] \cup {NoPanel}]
        /\ opened' \in [Windows -> Nat]
    BY <2>1, <2>2, <2>3, OpensPanelTypes
  <2> QED
    BY <2>1, <2>2, <2>3, <2>4, <2>5, <2>6 DEF TypeOK
<1>11. ASSUME NEW p \in Panels, CloseAdminPanel(p) \/ CloseEmployeePanel(p) \/ CloseAccountantPanel(p)
       PROVE TypeOK'
  BY <1>11 DEF TypeOK, CloseAdminPanel, CloseEmployeePanel, CloseAccountantPanel, PanelCloses, OpensLogin
<1>12. CASE CloseBox
  <2>1. boxes # <<>> /\ boxes' = Tail(boxes)
    BY <1>12 DEF CloseBox
  <2>2. boxes' \in Seq(Boxes) /\ Head(boxes) \in Boxes /\ Len(boxes') \in Nat
    BY <2>1, Popped
  <2>3. {Head(boxes).conn} \in SUBSET (Windows \cup Connections)
    BY <2>2 DEF Boxes
  <2>4. later' = later \/ later' = Later({Head(boxes).conn}, Len(boxes'))
    BY <1>12 DEF CloseBox
  <2>5. later' \subseteq (Windows \cup Connections) \X Nat
    BY <2>2, <2>3, <2>4, LaterAdds DEF TypeOK
  <2>6. {crashed', again', edited'} \subseteq BOOLEAN
    BY <1>12 DEF CloseBox, TypeOK
  <2> QED
    BY <1>12, <2>2, <2>5, <2>6 DEF TypeOK, CloseBox
<1>13. CASE UNCHANGED vars
  BY <1>13 DEF TypeOK, vars
<1> QED
  BY <1>1, <1>2, <1>3, <1>4, <1>5, <1>6, <1>7, <1>8, <1>9, <1>10, <1>11, <1>12, <1>13 DEF Next

-----------------------------------------------------------------------------
(* A connection that is there after a step was there before, for the same  *)
(* window and credentials, or has just been opened.                        *)
Goes(j) ==
    /\ Open(j)
    /\ conns'[j].win = conns[j].win
    /\ conns'[j].cred = conns[j].cred
    /\ Pending(j)' => Pending(j)
    /\ conns'[j].verdict = conns[j].verdict \/ conns'[j].verdict # "success" \/ conns[j].cred \in Valid
    /\ \/ conns'[j].got = conns[j].got /\ conns'[j].pre = conns[j].pre
       \/ conns'[j].got < Total
       \/ conns'[j].pre = Delim

Comes(j) ==
    \E w \in Windows : CheckUserExists(w) /\ conns'[j] = AuthRequest(w) /\ ~Open(j)

(* The steps that take no connection in.                                   *)
LEMMA OverGoes ==
    ASSUME TypeOK, NEW k \in Connections, Open(k), NEW v \in {"told", "failed"}, Over(k, v)
    PROVE  \A j \in Connections : Open(j)' => Goes(j)
<1>1. 0 < Total
  BY SizeAssumption DEF Total, Delim
<1>2. Goes(k)
  BY <1>1, OverChanges DEF Goes, Pending
<1>3. \A j \in Connections : j # k /\ Open(j)' => Goes(j)
  BY OverChanges DEF Goes, Open, Pending
<1> QED
  BY <1>2, <1>3

LEMMA ConnsChange ==
    ASSUME TypeOK, Next, NEW j \in Connections, Open(j)'
    PROVE  Goes(j) \/ Comes(j)
<1>0. UNCHANGED conns => Goes(j)
  BY DEF Goes, Open, Pending
<1>1. ASSUME NEW w \in Windows, CheckUserExists(w) PROVE Goes(j) \/ Comes(j)
  <2>1. CASE UNCHANGED conns
    BY <1>0, <2>1
  <2>2. CASE Connects(w)
    <3>1. PICK k \in Connections : conns[k] = NoConn /\ conns' = [conns EXCEPT ![k] = AuthRequest(w)]
      BY <2>2 DEF Connects
    <3>2. CASE j = k
      BY <1>1, <3>1, <3>2 DEF Comes, Open, TypeOK
    <3>3. CASE j # k
      BY <3>1, <3>3 DEF Goes, Open, Pending, TypeOK
    <3> QED
      BY <3>2, <3>3
  <2> QED
    BY <1>1, <2>1, <2>2 DEF CheckUserExists
<1>2. ASSUME NEW w \in Windows, DeleteWindow(w) PROVE Goes(j)
  <2>1. conns' = [i \in Connections |-> IF i \in Children(w) THEN NoConn ELSE conns[i]]
    BY <1>2 DEF DeleteWindow
  <2>2. conns'[j] = conns[j]
    BY <2>1 DEF Open
  <2> QED
    BY <2>2 DEF Goes, Open, Pending
<1>3. ASSUME NEW k \in Connections, DeleteConnection(k) PROVE Goes(j)
  <2>1. conns'[j] = conns[j]
    BY <1>3 DEF DeleteConnection, TypeOK, Open
  <2> QED
    BY <2>1 DEF Goes, Open, Pending
<1>4. ASSUME NEW k \in Connections, Auth(k) PROVE Goes(j)
  <2>1. PICK v \in {"success", "refused", "unreadable"} :
           (v = "success" => conns[k].cred \in Valid) /\ conns' = [conns EXCEPT ![k].verdict = v]
    BY <1>4 DEF Auth
  <2>2. conns[k] \in Conns /\ Open(k) /\ conns[k].verdict = "none"
    BY <1>4 DEF TypeOK, Auth, Open
  <2>3. conns'[k] = [conns[k] EXCEPT !.verdict = v]
    BY <2>1 DEF TypeOK
  <2>4. conns'[k].verdict = v /\ conns'[k].win = conns[k].win /\ conns'[k].cred = conns[k].cred
        /\ conns'[k].got = conns[k].got /\ conns'[k].pre = conns[k].pre
    BY <2>2, <2>3 DEF Conns
  <2>5. CASE j = k
    BY <2>1, <2>2, <2>4, <2>5 DEF Goes, Pending
  <2>6. CASE j # k
    BY <2>1, <2>6 DEF Goes, Open, Pending, TypeOK
  <2> QED
    BY <2>5, <2>6
<1>5. ASSUME NEW k \in Connections, ReadyRead(k) PROVE Goes(j)
  <2>1. PICK n \in 1..Total :
           /\ Arrives(k, n)
           /\ ~Complete(conns[k].got, n)
           /\ conns' = [conns EXCEPT ![k].pre = conns[k].got, ![k].got = n]
    BY <1>5 DEF ReadyRead
  <2>2. conns[k] \in Conns /\ Open(k) /\ Total \in Nat /\ n \in (conns[k].got + 1)..Total
    BY <2>1, SizeAssumption DEF TypeOK, Arrives, Total, Delim, Open
  <2>3. /\ conns'[k].pre = conns[k].got /\ conns'[k].got = n
        /\ conns'[k].win = conns[k].win /\ conns'[k].cred = conns[k].cred
        /\ conns'[k].verdict = conns[k].verdict
    BY <2>1, <2>2 DEF TypeOK, Conns
  <2>4. conns[k].got \in 0..Total /\ conns[k].got < Total
    BY <2>2 DEF Conns
  <2>5. n = Total => conns[k].got = Delim
    BY <2>1, <2>4, CompleteUnlessTwo
  <2>6. CASE j = k
    BY <2>2, <2>3, <2>5, <2>6 DEF Goes, Pending
  <2>7. CASE j # k
    BY <2>1, <2>7 DEF Goes, Open, Pending, TypeOK
  <2> QED
    BY <2>6, <2>7
<1>6. ASSUME NEW k \in Connections, ErrorOccured(k) PROVE Goes(j)
  <2>1. Open(k) /\ Over(k, "failed")
    BY <1>6 DEF ErrorOccured, Open
  <2> QED
    BY <2>1, OverGoes
<1>7. ASSUME NEW k \in Connections, AuthUnreadable(k) \/ AuthRefused(k) \/ AuthSucceeded(k)
      PROVE  Goes(j)
  <2>1. PICK v : MessageArrived(k, v)
    BY <1>7 DEF AuthUnreadable, AuthRefused, AuthSucceeded
  <2> QED
    BY <2>1, Told, OverGoes
<1>8. CASE UNCHANGED conns
  BY <1>0, <1>8
<1> QED
  BY <1>1, <1>2, <1>3, <1>4, <1>5, <1>6, <1>7, <1>8
     DEF Next, Edit, CloseWindow, CloseBox, CloseAdminPanel, CloseEmployeePanel,
         CloseAccountantPanel, PanelCloses

(* A window that is gone was gone before, or goes now with its connections. *)
LEMMA WindowsGo ==
    ASSUME TypeOK, ParentsLive, Next, NEW w \in Windows, window'[w] = "gone"
    PROVE  window[w] = "gone" \/ DeleteWindow(w)
<1>1. ASSUME NEW v \in Windows, CloseWindow(v) PROVE window[w] = "gone"
  <2>1. Close(v, {}) /\ {} \in SUBSET Connections
    BY <1>1 DEF CloseWindow
  <2> QED
    BY <2>1, CloseTypes
<1>2. ASSUME NEW v \in Windows, DeleteWindow(v) PROVE window[w] = "gone" \/ DeleteWindow(w)
  BY <1>2 DEF DeleteWindow, TypeOK
<1>3. ASSUME NEW k \in Connections, AuthSucceeded(k) PROVE window[w] = "gone"
  <2>1. MessageArrived(k, "success") /\ Close(conns[k].win, {k}) /\ {k} \in SUBSET Connections
    BY <1>3 DEF AuthSucceeded
  <2>2. conns[k].win \in Windows
    BY <2>1, Told DEF Conns
  <2> QED
    BY <2>1, <2>2, CloseTypes
<1>4. ASSUME NEW p \in Panels, CloseAdminPanel(p) \/ CloseEmployeePanel(p) PROVE window[w] = "gone"
  BY <1>4 DEF CloseAdminPanel, CloseEmployeePanel, OpensLogin, TypeOK
<1>5. CASE UNCHANGED window
  BY <1>5
<1> QED
  BY <1>1, <1>2, <1>3, <1>4, <1>5
     DEF Next, Edit, CheckUserExists, Presses, Auth, ReadyRead, ErrorOccured, DeleteConnection,
         AuthUnreadable, AuthRefused, CloseAccountantPanel, CloseBox

LEMMA StepSound == Sound /\ [Next]_vars => Sound'
<1>1. ASSUME Sound, Next PROVE Sound'
  <2>1. TypeOK /\ ReadGrows /\ SuccessIsValid /\ ParentsLive
    BY <1>1 DEF Sound
  <2>2. TypeOK'
    BY <1>1, <2>1, StepTypeOK
  <2>3. ASSUME NEW j \in Connections, Open(j)'
        PROVE  /\ conns'[j].got < Total \/ conns'[j].pre = Delim
               /\ conns'[j].verdict = "success" => conns'[j].cred \in Valid
               /\ window'[conns'[j].win] # "gone"
    <3>1. CASE Goes(j)
      <4>1. /\ conns'[j].got < Total \/ conns'[j].pre = Delim
            /\ conns'[j].verdict = "success" => conns'[j].cred \in Valid
        BY <2>1, <3>1 DEF Goes, ReadGrows, SuccessIsValid
      <4>2. conns[j].win \in Windows /\ window[conns[j].win] # "gone" /\ Open(j)
        BY <2>1, <3>1 DEF Goes, ParentsLive, TypeOK, Open, Conns
      <4>3. ~DeleteWindow(conns[j].win)
        BY <2>3, <4>2 DEF DeleteWindow, Children, Open
      <4>4. window'[conns[j].win] # "gone"
        BY <1>1, <2>1, <4>2, <4>3, WindowsGo
      <4> QED
        BY <3>1, <4>1, <4>4 DEF Goes
    <3>2. CASE Comes(j)
      <4>1. PICK w \in Windows : CheckUserExists(w) /\ conns'[j] = AuthRequest(w)
        BY <3>2 DEF Comes
      <4>2. window'[w] = "shown"
        BY <4>1 DEF CheckUserExists, Presses
      <4>3. 0 < Total
        BY SizeAssumption DEF Total, Delim
      <4> QED
        BY <4>1, <4>2, <4>3 DEF AuthRequest
    <3> QED
      BY <1>1, <2>1, <2>3, <3>1, <3>2, ConnsChange
  <2> QED
    BY <2>2, <2>3 DEF Sound, ReadGrows, SuccessIsValid, ParentsLive, Open
<1>2. ASSUME Sound, UNCHANGED vars PROVE Sound'
  BY <1>2, StepTypeOK DEF Sound, vars, ReadGrows, SuccessIsValid, ParentsLive, Open
<1> QED
  BY <1>1, <1>2

-----------------------------------------------------------------------------
(* What holds for the user who presses once, and for the one who does not  *)
(* edit either.                                                            *)
Confirmed == ~edited => Unedited /\ PanelsConfirmed

Before == Sound /\ ~again /\ Orderly /\ Confirmed

(* Nothing makes a hasty user patient again.                               *)
LEMMA HistoryStays == Next => (again => again') /\ (edited => edited')
<1> SUFFICES ASSUME Next PROVE (again => again') /\ (edited => edited')
  OBVIOUS
<1>1. ASSUME NEW w \in Windows, Edit(w) PROVE (again => again') /\ (edited => edited')
  BY <1>1 DEF Edit
<1>2. ASSUME NEW w \in Windows, CheckUserExists(w) PROVE (again => again') /\ (edited => edited')
  <2>1. edited => edited'
    BY <1>2 DEF CheckUserExists, Presses
  <2>2. again => again'
    <3>1. CASE UNCHANGED <<conns, again>>
      BY <3>1
    <3>2. CASE Connects(w)
      BY <3>2 DEF Connects
    <3> QED
      BY <1>2, <3>1, <3>2 DEF CheckUserExists
  <2> QED
    BY <2>1, <2>2
<1>3. CASE UNCHANGED <<again, edited>>
  BY <1>3
<1>4. ASSUME NEW k \in Connections,
             \/ Auth(k) \/ ReadyRead(k) \/ ErrorOccured(k) \/ DeleteConnection(k)
             \/ AuthUnreadable(k) \/ AuthRefused(k) \/ AuthSucceeded(k)
      PROVE  UNCHANGED <<again, edited>>
  BY <1>4 DEF Auth, ReadyRead, ErrorOccured, DeleteConnection, AuthUnreadable, AuthRefused,
              AuthSucceeded, MessageArrived, history_vars
<1>5. ASSUME NEW w \in Windows, CloseWindow(w) \/ DeleteWindow(w)
      PROVE  UNCHANGED <<again, edited>>
  BY <1>5 DEF CloseWindow, DeleteWindow, history_vars
<1>6. ASSUME NEW p \in Panels, CloseAdminPanel(p) \/ CloseEmployeePanel(p) \/ CloseAccountantPanel(p)
      PROVE  UNCHANGED <<again, edited>>
  BY <1>6 DEF CloseAdminPanel, CloseEmployeePanel, CloseAccountantPanel, PanelCloses, history_vars
<1>7. CloseBox => UNCHANGED <<again, edited>>
  BY DEF CloseBox, history_vars
<1> QED
  BY <1>1, <1>2, <1>3, <1>4, <1>5, <1>6, <1>7 DEF Next

(* While the windows take input there is no connection, unless the window  *)
(* that is shown awaits its answer.                                        *)
LEMMA NoneElse ==
    ASSUME Before, Listening, NEW j \in Connections, Open(j)
    PROVE  Pending(j) /\ window[conns[j].win] = "shown" /\ conns[j].win \in Windows
<1>1. TypeOK /\ Awaited /\ Settled /\ Running /\ boxes = <<>> /\ Due = {}
  BY DEF Before, Sound, Orderly, Listening
<1>2. Pending(j)
  BY <1>1, NothingLater DEF Settled
<1> QED
  BY <1>1, <1>2 DEF Awaited, TypeOK, Open, Conns

LEMMA EditOrderly ==
    ASSUME Before, NEW w \in Windows, Edit(w)
    PROVE  Orderly' /\ Confirmed'
<1>1. TypeOK /\ Orderly /\ UNCHANGED <<window, user, panels, opened, conns, boxes, later, crashed>>
  BY DEF Before, Sound, Edit
<1>2. Orderly'
  BY <1>1 DEF Orderly, OneVisible, OneConn, Awaited, Settled, BoxesLive, ClosedOutside, OnceEach,
              Open, Pending, Posted, Boxed, Running
<1>3. ASSUME ~edited' PROVE Unedited' /\ PanelsConfirmed'
  <2>1. ~edited /\ ~Awaits(w) /\ Unedited /\ PanelsConfirmed
    BY <1>3 DEF Edit, Before, Confirmed
  <2>2. \A v \in Windows : v # w => text'[v] = text[v]
    BY <1>1 DEF Edit, TypeOK
  <2>3. \A k \in Connections : Open(k) /\ Pending(k) => conns[k].win \in Windows /\ conns[k].win # w
    BY <1>1, <2>1 DEF Awaits, Open, Pending, TypeOK, Conns
  <2>4. Unedited'
    BY <1>1, <2>1, <2>2, <2>3 DEF Unedited, Open, Pending
  <2> QED
    BY <1>1, <2>1, <2>4 DEF PanelsConfirmed
<1> QED
  BY <1>2, <1>3 DEF Confirmed

LEMMA PressOrderly ==
    ASSUME Before, NEW w \in Windows, CheckUserExists(w), ~again'
    PROVE  Orderly' /\ Confirmed'
<1>1. /\ TypeOK /\ Orderly /\ Listening /\ window[w] = "shown"
      /\ UNCHANGED <<window, boxes, later, crashed, text, user, panels, opened, edited>>
  BY DEF Before, Sound, CheckUserExists, Presses, session_vars
<1>2. CASE UNCHANGED conns
  BY <1>1, <1>2
     DEF Before, Orderly, OneVisible, OneConn, Awaited, Settled, BoxesLive, ClosedOutside, OnceEach,
         Open, Pending, Posted, Boxed, Running, Confirmed, Unedited, PanelsConfirmed
<1>3. CASE Connects(w)
  <2>1. PICK k \in Connections : conns[k] = NoConn /\ conns' = [conns EXCEPT ![k] = AuthRequest(w)]
    BY <1>3 DEF Connects
  <2>2. ~Awaits(w)
    BY <1>3 DEF Connects
  <2>3. ASSUME NEW j \in Connections, Open(j) PROVE FALSE
    <3>1. Pending(j) /\ window[conns[j].win] = "shown" /\ conns[j].win \in Windows
      BY <1>1, <2>3, NoneElse
    <3>2. conns[j].win = w
      BY <1>1, <3>1 DEF Orderly, OneVisible
    <3> QED
      BY <2>2, <2>3, <3>1, <3>2 DEF Awaits, Open, Pending
  <2>4. conns'[k] = AuthRequest(w) /\ \A j \in Connections : Open(j)' => j = k
    BY <1>1, <2>1, <2>3 DEF TypeOK, Open
  <2>5. conns'[k].win = w /\ conns'[k].cred = text[w] /\ Pending(k)' /\ boxes = <<>>
    BY <1>1, <2>4 DEF AuthRequest, Pending, Listening
  <2>6. OneConn' /\ Awaited' /\ Settled' /\ Unedited'
    BY <1>1, <2>4, <2>5 DEF OneConn, Awaited, Settled, Unedited
  <2> QED
    BY <1>1, <2>6
       DEF Before, Orderly, OneVisible, BoxesLive, ClosedOutside, OnceEach, Confirmed, PanelsConfirmed
<1> QED
  BY <1>2, <1>3 DEF CheckUserExists

LEMMA CloseWindowOrderly ==
    ASSUME Before, NEW w \in Windows, CloseWindow(w)
    PROVE  Orderly' /\ Confirmed'
<1>1. /\ TypeOK /\ Orderly /\ boxes = <<>> /\ window[w] = "shown"
      /\ Close(w, {}) /\ {} \in SUBSET Connections
      /\ UNCHANGED <<conns, boxes, crashed, text, user, panels, opened, again, edited>>
  BY DEF Before, Sound, CloseWindow, Listening, session_vars, history_vars
<1>2. /\ window'[w] \in {"hidden", "closed"}
      /\ \A v \in Windows : v # w => window'[v] = window[v]
  BY <1>1, CloseTypes
<1>3. /\ \A d \in later' : d \in later \/ d[2] = 0
      /\ \A k \in Connections : Posted(k) => Posted(k)'
  <2> DEFINE S == {} \cup ({w} \ {First})
  <2>1. S \in SUBSET (Windows \cup Connections) /\ later' = Later(S, 0)
    BY <1>1 DEF Close
  <2> HIDE DEF S
  <2> QED
    BY <1>1, <2>1, LaterAdds
<1>4. /\ \A v \in Windows : window'[v] # "shown"
      /\ \A p \in Panels : panels'[p] = NoPanel
  BY <1>1, <1>2 DEF Orderly, OneVisible
<1>5. ~Running'
  BY <1>4 DEF Running
<1>6. Awaited' /\ OneVisible'
  BY <1>1, <1>4, <1>5 DEF Awaited, OneVisible
<1>7. Settled' /\ OneConn'
  BY <1>1, <1>3 DEF Orderly, Settled, OneConn, Open, Pending, Boxed
<1>8. BoxesLive' /\ ClosedOutside'
  BY <1>1, <1>3 DEF Orderly, BoxesLive, ClosedOutside
<1>9. OnceEach'
  BY <1>1, <1>2 DEF Orderly, OnceEach
<1> QED
  BY <1>1, <1>6, <1>7, <1>8, <1>9
     DEF Before, Orderly, Confirmed, Unedited, PanelsConfirmed, Open, Pending

LEMMA DeleteWindowOrderly ==
    ASSUME Before, NEW w \in Windows, DeleteWindow(w)
    PROVE  Orderly' /\ Confirmed'
<1>1. /\ TypeOK /\ Orderly /\ w \in Due
      /\ window' = [window EXCEPT ![w] = "gone"]
      /\ conns' = [j \in Connections |-> IF j \in Children(w) THEN NoConn ELSE conns[j]]
      /\ Forgotten({w} \cup Children(w))
      /\ UNCHANGED <<boxes, crashed, text, user, panels, opened, again, edited>>
  BY DEF Before, Sound, DeleteWindow, session_vars, history_vars
<1>2. boxes = <<>>
  <2>1. PICK d \in later : d[1] = w /\ Len(boxes) <= d[2]
    BY <1>1 DEF Due
  <2>2. Len(boxes) = 0
    BY <1>1, <2>1 DEF Orderly, ClosedOutside, TypeOK
  <2> QED
    BY <1>1, <2>2 DEF TypeOK
<1>3. window'[w] = "gone" /\ \A v \in Windows : v # w => window'[v] = window[v]
  BY <1>1 DEF TypeOK
<1>4. ASSUME NEW j \in Connections, Open(j)'
      PROVE  /\ Open(j) /\ conns'[j] = conns[j]
             /\ conns[j].win \in Windows \ {w} /\ j \notin {w} \cup Children(w)
  <2>1. j \notin Children(w) /\ conns'[j] = conns[j] /\ Open(j)
    BY <1>1, <1>4 DEF Open
  <2>2. conns[j].win \in Windows \ {w}
    BY <1>1, <2>1 DEF Children, Open, TypeOK, Conns
  <2> QED
    BY <2>1, <2>2, WindowsAssumption
<1>5. Running' => Running
  BY <1>1, <1>3 DEF Running
<1>6. OneVisible'
  BY <1>1, <1>3 DEF Orderly, OneVisible
<1>7. OneConn' /\ Awaited'
  BY <1>1, <1>2, <1>3, <1>4, <1>5 DEF Orderly, OneConn, Awaited, Pending
<1>8. Settled'
  <2> SUFFICES ASSUME NEW j \in Connections, Open(j)', ~Pending(j)'
               PROVE  Posted(j)' \/ Boxed(j)'
    BY DEF Settled
  <2>1. Posted(j) \/ Boxed(j)
    BY <1>1, <1>4 DEF Orderly, Settled, Pending
  <2>2. Posted(j) => Posted(j)'
    BY <1>1, <1>4, ForgottenTakes
  <2> QED
    BY <1>1, <2>1, <2>2 DEF Boxed
<1>9. BoxesLive' /\ ClosedOutside'
  BY <1>1, <1>2, ForgottenTakes DEF Orderly, BoxesLive, ClosedOutside
<1>10. OnceEach'
  BY <1>1, <1>3 DEF Orderly, OnceEach
<1>11. Unedited => Unedited'
  BY <1>1, <1>4 DEF Unedited, Pending
<1> QED
  BY <1>1, <1>6, <1>7, <1>8, <1>9, <1>10, <1>11 DEF Before, Orderly, Confirmed, PanelsConfirmed

LEMMA CloseBoxOrderly ==
    ASSUME Before, CloseBox
    PROVE  Orderly' /\ Confirmed'
<1> DEFINE box == Head(boxes)
<1>1. /\ TypeOK /\ Orderly /\ boxes # <<>> /\ boxes' = Tail(boxes)
      /\ UNCHANGED <<window, conns, text, user, panels, opened, again, edited>>
  BY DEF Before, Sound, CloseBox, session_vars, history_vars
<1>2. /\ box \in Boxes /\ 1 \in DOMAIN boxes /\ boxes[1] = box /\ Len(boxes') \in Nat
      /\ \A i \in DOMAIN boxes' : \E j \in DOMAIN boxes : boxes'[i] = boxes[j]
      /\ \A j \in DOMAIN boxes : j = 1 \/ \E i \in DOMAIN boxes' : boxes'[i] = boxes[j]
  BY <1>1, Popped
<1>3. window[box.win] # "gone" /\ box.conn \in Connections
  BY <1>1, <1>2 DEF Orderly, BoxesLive, Boxes
<1>4. \/ box.op = "answer" /\ UNCHANGED <<later, crashed>>
      \/ box.op = "error" /\ later' = Later({box.conn}, Len(boxes')) /\ UNCHANGED crashed
  BY <1>3 DEF CloseBox
<1> HIDE DEF box
<1>5. PICK c \in Connections : c = box.conn
  BY <1>3
<1>6. /\ \A d \in later' : d \in later \/ d[1] = c
      /\ \A k \in Connections : Posted(k) => Posted(k)'
      /\ box.op = "error" => Posted(c)'
  <2>1. CASE UNCHANGED later /\ box.op = "answer"
    BY <2>1 DEF Posted
  <2>2. CASE later' = Later({box.conn}, Len(boxes'))
    <3> DEFINE S == {c}
    <3>1. PICK n \in Nat : n = Len(boxes')
      BY <1>2
    <3>2. /\ S \in SUBSET (Windows \cup Connections) /\ c \in S
          /\ later' = Later(S, n) /\ \A x \in S : x = c
      BY <1>5, <2>2, <3>1
    <3> HIDE DEF S
    <3> QED
      BY <1>1, <3>2, LaterAdds
  <2> QED
    BY <1>4, <2>1, <2>2
<1>7. Awaited' /\ OneVisible' /\ OneConn' /\ OnceEach' /\ ~crashed'
  BY <1>1, <1>4 DEF Orderly, Awaited, OneVisible, OneConn, OnceEach, Open, Pending
<1>8. Settled'
  <2> SUFFICES ASSUME NEW k \in Connections, Open(k)', ~Pending(k)'
               PROVE  Posted(k)' \/ Boxed(k)'
    BY DEF Settled
  <2>1. Posted(k) \/ Boxed(k)
    BY <1>1 DEF Orderly, Settled, Open, Pending
  <2>2. CASE Posted(k)
    BY <1>6, <2>2
  <2>3. CASE Boxed(k)
    <3>1. PICK j \in DOMAIN boxes : boxes[j].op = "error" /\ boxes[j].conn = k
      BY <2>3 DEF Boxed
    <3>2. CASE j = 1
      <4>1. boxes[j] = box
        BY <1>2, <3>2
      <4>2. box.op = "error" /\ box.conn = k
        BY <3>1, <4>1
      <4> QED
        BY <1>5, <1>6, <4>2
    <3>3. CASE j # 1
      <4>1. PICK i \in DOMAIN boxes' : boxes'[i] = boxes[j]
        BY <1>2, <3>1, <3>3
      <4> QED
        BY <3>1, <4>1 DEF Boxed
    <3> QED
      BY <3>2, <3>3
  <2> QED
    BY <2>1, <2>2, <2>3
<1>9. BoxesLive'
  BY <1>1, <1>2 DEF Orderly, BoxesLive
<1>10. ClosedOutside'
  BY <1>1, <1>6, WindowsAssumption DEF Orderly, ClosedOutside
<1> QED
  BY <1>1, <1>7, <1>8, <1>9, <1>10
     DEF Before, Orderly, Confirmed, Unedited, PanelsConfirmed, Open, Pending

(* The server's answer and its blocks.                                     *)
LEMMA AnswerOrderly ==
    ASSUME Before, NEW k \in Connections, Auth(k) \/ ReadyRead(k)
    PROVE  Orderly' /\ Confirmed'
<1>1. /\ TypeOK /\ Orderly /\ Open(k)
      /\ UNCHANGED <<window, boxes, later, crashed, text, user, panels, opened, again, edited>>
  BY DEF Before, Sound, Auth, ReadyRead, Arrives, Open, session_vars, history_vars
<1>2. conns[k] \in Conns
  BY <1>1 DEF TypeOK, Open
<1>3. /\ Pending(k) /\ Pending(k)'
      /\ conns'[k].win = conns[k].win /\ conns'[k].cred = conns[k].cred
      /\ \A j \in Connections : j # k => conns'[j] = conns[j]
  <2>1. CASE Auth(k)
    <3>1. PICK v \in {"success", "refused", "unreadable"} : conns' = [conns EXCEPT ![k].verdict = v]
      BY <2>1 DEF Auth
    <3>2. conns'[k] = [conns[k] EXCEPT !.verdict = v]
      BY <1>1, <3>1 DEF TypeOK
    <3>3. conns'[k].verdict = v /\ conns'[k].win = conns[k].win /\ conns'[k].cred = conns[k].cred
      BY <1>2, <3>2 DEF Conns
    <3> QED
      BY <1>1, <2>1, <3>1, <3>3 DEF Auth, Pending, TypeOK
  <2>2. CASE ReadyRead(k)
    <3>1. PICK n \in 1..Total :
             Arrives(k, n) /\ conns' = [conns EXCEPT ![k].pre = conns[k].got, ![k].got = n]
      BY <2>2 DEF ReadyRead
    <3>2. /\ conns'[k].win = conns[k].win /\ conns'[k].cred = conns[k].cred
          /\ conns'[k].verdict = conns[k].verdict
      BY <1>1, <1>2, <3>1 DEF TypeOK, Conns
    <3> QED
      BY <1>1, <3>1, <3>2 DEF Arrives, Pending, TypeOK
  <2> QED
    BY <2>1, <2>2
<1>4. \A j \in Connections :
        /\ Open(j)' => Open(j)
        /\ Pending(j)' <=> Pending(j)
        /\ conns'[j].win = conns[j].win /\ conns'[j].cred = conns[j].cred
  BY <1>1, <1>3 DEF Open, Pending
<1>5. OneConn' /\ Awaited' /\ Settled'
  BY <1>1, <1>4 DEF Orderly, OneConn, Awaited, Settled, Posted, Boxed, Running
<1>6. Unedited => Unedited'
  BY <1>1, <1>4 DEF Unedited
<1> QED
  BY <1>1, <1>5, <1>6
     DEF Before, Orderly, OneVisible, BoxesLive, ClosedOutside, OnceEach, Confirmed, PanelsConfirmed

LEMMA DeleteConnectionOrderly ==
    ASSUME Before, NEW k \in Connections, DeleteConnection(k)
    PROVE  Orderly' /\ Confirmed'
<1>1. /\ TypeOK /\ Orderly /\ conns' = [conns EXCEPT ![k] = NoConn] /\ Forgotten({k})
      /\ UNCHANGED <<window, boxes, crashed, text, user, panels, opened, again, edited>>
  BY DEF Before, Sound, DeleteConnection, session_vars, history_vars
<1>2. /\ \A j \in Connections : Open(j)' => j # k /\ Open(j) /\ conns'[j] = conns[j]
      /\ later' \subseteq later
      /\ \A j \in Connections \ {k} : Posted(j) => Posted(j)'
  BY <1>1, ForgottenTakes DEF TypeOK, Open
<1>3. OneConn' /\ Awaited' /\ Settled'
  BY <1>1, <1>2 DEF Orderly, OneConn, Awaited, Settled, Pending, Boxed, Running
<1>4. Unedited => Unedited'
  BY <1>1, <1>2 DEF Unedited, Pending
<1>5. ClosedOutside'
  BY <1>1, <1>2 DEF Orderly, ClosedOutside
<1> QED
  BY <1>1, <1>3, <1>4, <1>5
     DEF Before, Orderly, OneVisible, BoxesLive, OnceEach, Confirmed, PanelsConfirmed

(* A box that opens is about the one connection there is.                  *)
LEMMA OpensOrderly ==
    ASSUME Before, NEW k \in Connections, Open(k), NEW op \in {"answer", "error"}, Opens(op, k),
           NEW v \in {"told", "failed"}, Over(k, v),
           UNCHANGED <<window, panels, opened, crashed>>,
           ClosedOutside', op = "error" \/ Posted(k)'
    PROVE  /\ Orderly'
           /\ \A j \in Connections : Open(j)' => ~Pending(j)'
<1>1. /\ TypeOK /\ Orderly
      /\ conns[k].win \in Windows /\ window[conns[k].win] # "gone"
  BY DEF Before, Sound, ParentsLive, TypeOK, Open, Conns
<1> DEFINE b == [op |-> op, conn |-> k, win |-> conns[k].win]
<1>2. b \in Boxes /\ boxes' = <<b>> \o boxes
  BY <1>1, OpensTypes DEF Opens
<1>3. /\ b.op = op /\ b.conn = k /\ b.win = conns[k].win
  OBVIOUS
<1> HIDE DEF b
<1>4. /\ \A i \in DOMAIN boxes' : boxes'[i] = b \/ \E j \in DOMAIN boxes : boxes'[i] = boxes[j]
      /\ \E i \in DOMAIN boxes' : boxes'[i] = b
  BY <1>1, <1>2, Pushed
<1>5. \A j \in Connections : j # k => ~Open(j)'
  BY <1>1, OverChanges DEF Orderly, OneConn, Open
<1>6. ~Pending(k)'
  BY <1>1, OverChanges DEF Pending
<1>7. OneConn' /\ Awaited'
  BY <1>5, <1>6 DEF OneConn, Awaited
<1>8. Settled'
  BY <1>3, <1>4, <1>5 DEF Settled, Boxed
<1>9. BoxesLive'
  BY <1>1, <1>3, <1>4 DEF Orderly, BoxesLive
<1> QED
  BY <1>1, <1>5, <1>6, <1>7, <1>8, <1>9 DEF Orderly, OneVisible, OnceEach

LEMMA ErrorOrderly ==
    ASSUME Before, NEW k \in Connections, ErrorOccured(k)
    PROVE  Orderly' /\ Confirmed'
<1>1. /\ Open(k) /\ Over(k, "failed") /\ Opens("error", k)
      /\ UNCHANGED <<window, later, crashed, text, user, panels, opened, again, edited>>
  BY DEF ErrorOccured, Open, session_vars, history_vars
<1>2. ClosedOutside'
  BY <1>1 DEF Before, Orderly, ClosedOutside
<1>3. Orderly' /\ \A j \in Connections : Open(j)' => ~Pending(j)'
  BY <1>1, <1>2, OpensOrderly
<1> QED
  BY <1>1, <1>3 DEF Before, Confirmed, Unedited, PanelsConfirmed

(* An answer arrives in the window that is shown, and no panel is open.    *)
LEMMA ToldInWindow ==
    ASSUME Before, NEW k \in Connections, NEW v, MessageArrived(k, v)
    PROVE  /\ boxes = <<>> /\ Len(boxes) = 0
           /\ conns[k].win \in Windows /\ window[conns[k].win] = "shown"
           /\ \A w \in Windows : window[w] = "shown" => w = conns[k].win
           /\ \A p \in Panels : panels[p] = NoPanel
<1>1. TypeOK /\ OneVisible /\ Awaited
  BY DEF Before, Sound, Orderly
<1>2. Open(k) /\ Running /\ conns[k] \in Conns /\ Pending(k)
  BY <1>1, Told
<1>3. boxes = <<>> /\ conns[k].win \in Windows /\ window[conns[k].win] = "shown"
  BY <1>1, <1>2 DEF Awaited, Conns
<1> QED
  BY <1>1, <1>3 DEF OneVisible

LEMMA ToldOrderly ==
    ASSUME Before, NEW k \in Connections, AuthUnreadable(k) \/ AuthRefused(k)
    PROVE  Orderly' /\ Confirmed'
<1>1. PICK v : MessageArrived(k, v)
  BY DEF AuthUnreadable, AuthRefused
<1>2. /\ Open(k) /\ Over(k, "told") /\ TypeOK
      /\ Opens("answer", k) /\ later' = Later({k}, Len(boxes))
      /\ UNCHANGED <<window, panels, opened, crashed>>
  BY <1>1, Told DEF AuthUnreadable, AuthRefused, Before, Sound
<1>3. Len(boxes) = 0 /\ \A p \in Panels : panels[p] = NoPanel
  BY <1>1, ToldInWindow
<1>4. {k} \in SUBSET (Windows \cup Connections) /\ k \notin Windows
  BY WindowsAssumption
<1>5. (\A d \in later' : d \in later \/ d[1] = k) /\ Posted(k)'
  <2> DEFINE S == {k}
  <2>1. /\ S \in SUBSET (Windows \cup Connections) /\ k \in S /\ later' = Later(S, 0)
        /\ (\A x \in S : x = k) /\ 0 \in Nat
    BY <1>2, <1>3, <1>4
  <2> HIDE DEF S
  <2> QED
    BY <1>2, <2>1, LaterAdds
<1>6. ClosedOutside'
  BY <1>4, <1>5 DEF Before, Orderly, ClosedOutside
<1>7. Orderly' /\ \A j \in Connections : Open(j)' => ~Pending(j)'
  BY <1>2, <1>5, <1>6, OpensOrderly
<1> QED
  BY <1>2, <1>3, <1>7 DEF Confirmed, Unedited, PanelsConfirmed

LEMMA SucceededOrderly ==
    ASSUME Before, NEW k \in Connections, AuthSucceeded(k)
    PROVE  Orderly' /\ Confirmed'
<1> DEFINE w == conns[k].win
<1>1. /\ MessageArrived(k, "success") /\ user' = text[w] /\ OpensPanel(w, k)
      /\ Close(w, {k}) /\ boxes' = boxes /\ TypeOK /\ Orderly
      /\ {k} \in SUBSET Connections
  BY DEF AuthSucceeded, SetUser, Before, Sound
<1>2. /\ Open(k) /\ Over(k, "told") /\ Pending(k) /\ conns[k] \in Conns
      /\ conns[k].verdict = "success"
      /\ UNCHANGED <<text, crashed, again, edited>>
  BY <1>1, Told DEF history_vars
<1>3. /\ boxes = <<>> /\ Len(boxes) = 0 /\ w \in Windows /\ window[w] = "shown"
      /\ \A v \in Windows : window[v] = "shown" => v = w
      /\ \A p \in Panels : panels[p] = NoPanel
  BY <1>1, ToldInWindow
<1>4. /\ window'[w] \in {"hidden", "closed"}
      /\ \A v \in Windows : v # w => window'[v] = window[v]
  BY <1>1, <1>3, CloseTypes
<1>5. (\A d \in later' : d \in later \/ d[2] = 0) /\ Posted(k)'
  <2> DEFINE S == {k} \cup ({w} \ {First})
  <2>1. S \in SUBSET (Windows \cup Connections) /\ later' = Later(S, 0) /\ k \in S
    BY <1>1, <1>3 DEF Close
  <2> HIDE DEF S
  <2> QED
    BY <1>1, <2>1, LaterAdds
<1>6. user' \in Texts
  BY <1>1, <1>3 DEF TypeOK
<1>7. /\ opened' = [opened EXCEPT ![w] = @ + 1]
      /\ \E p \in Panels :
            /\ panels'[p] = [rank |-> Rank[user'], confirmed |-> conns[k].cred]
            /\ \A q \in Panels : q # p => panels'[q] = panels[q]
  BY <1>1, <1>2, <1>3, <1>6, OpensPanelTypes
<1>8. PICK p \in Panels :
         /\ panels'[p] = [rank |-> Rank[user'], confirmed |-> conns[k].cred]
         /\ \A q \in Panels : q # p => panels'[q] = NoPanel
  BY <1>3, <1>7
<1>9. \A v \in Windows : window'[v] # "shown"
  BY <1>3, <1>4
<1>10. OneVisible'
  BY <1>8, <1>9 DEF OneVisible
<1>11. (\A j \in Connections : j # k => ~Open(j)') /\ ~Pending(k)'
  BY <1>1, <1>2, OverChanges DEF Orderly, OneConn, Open, Pending
<1>12. OneConn' /\ Awaited' /\ Settled' /\ Unedited'
  BY <1>5, <1>11 DEF OneConn, Awaited, Settled, Unedited
<1>13. BoxesLive' /\ ClosedOutside'
  BY <1>1, <1>3, <1>5 DEF Orderly, BoxesLive, ClosedOutside
<1>14. OnceEach'
  <2>1. opened[w] \in Nat /\ opened[w] <= 1 /\ opened[w] # 1
    BY <1>1, <1>3 DEF Orderly, OnceEach, TypeOK
  <2>2. opened'[w] = 1 /\ \A v \in Windows : v # w => opened'[v] = opened[v]
    BY <1>1, <1>3, <1>7, <2>1 DEF TypeOK
  <2> QED
    BY <1>1, <1>4, <2>2 DEF Orderly, OnceEach
<1>15. ASSUME ~edited' PROVE PanelsConfirmed'
  <2>1. user' = conns[k].cred
    BY <1>1, <1>2, <1>15 DEF Before, Confirmed, Unedited
  <2>2. conns[k].cred \in Valid
    BY <1>2 DEF Before, Sound, SuccessIsValid
  <2> QED
    BY <1>8, <2>1, <2>2 DEF PanelsConfirmed
<1> QED
  BY <1>1, <1>2, <1>10, <1>12, <1>13, <1>14, <1>15 DEF Orderly, Confirmed

LEMMA ClosePanelOrderly ==
    ASSUME Before, NEW p \in Panels,
           CloseAdminPanel(p) \/ CloseEmployeePanel(p) \/ CloseAccountantPanel(p)
    PROVE  Orderly' /\ Confirmed'
<1>1. /\ TypeOK /\ Orderly /\ Listening /\ panels[p] # NoPanel
      /\ panels' = [panels EXCEPT ![p] = NoPanel]
      /\ UNCHANGED <<text, user, opened, conns, boxes, later, crashed, again, edited>>
  BY DEF Before, Sound, CloseAdminPanel, CloseEmployeePanel, CloseAccountantPanel, PanelCloses,
         history_vars
<1>2. /\ \A q \in Panels : panels'[q] = NoPanel
      /\ \A v \in Windows : window[v] # "shown"
  BY <1>1 DEF Orderly, OneVisible, TypeOK
<1>3. \A j \in Connections : ~Open(j) /\ ~Open(j)'
  BY <1>1, <1>2, NoneElse DEF Open
<1>4. \/ window' = window
      \/ \E u \in Windows : window[u] = "unborn" /\ window' = [window EXCEPT ![u] = "shown"]
  BY DEF CloseAdminPanel, CloseEmployeePanel, CloseAccountantPanel, OpensLogin
<1>5. OneVisible'
  BY <1>1, <1>2, <1>4 DEF OneVisible, TypeOK
<1>6. OneConn' /\ Awaited' /\ Settled' /\ Unedited'
  BY <1>3 DEF OneConn, Awaited, Settled, Unedited
<1>7. BoxesLive' /\ ClosedOutside'
  BY <1>1 DEF Orderly, BoxesLive, ClosedOutside, Listening
<1>8. OnceEach'
  BY <1>1, <1>4 DEF Orderly, OnceEach, TypeOK
<1>9. PanelsConfirmed'
  BY <1>2 DEF PanelsConfirmed
<1> QED
  BY <1>1, <1>5, <1>6, <1>7, <1>8, <1>9 DEF Orderly, Confirmed

LEMMA StepIInv == IInv /\ [Next]_vars => IInv'
<1>1. ASSUME IInv, Next PROVE IInv'
  <2>1. Sound'
    BY <1>1, StepSound DEF IInv
  <2>2. ASSUME ~again' PROVE Orderly' /\ Confirmed'
    <3>1. Before
      BY <1>1, <2>2, HistoryStays DEF IInv, Before, Confirmed
    <3>2. ASSUME NEW w \in Windows, Edit(w) \/ CheckUserExists(w) \/ CloseWindow(w) \/ DeleteWindow(w)
          PROVE  Orderly' /\ Confirmed'
      BY <2>2, <3>1, <3>2, EditOrderly, PressOrderly, CloseWindowOrderly, DeleteWindowOrderly
    <3>3. ASSUME NEW k \in Connections,
                 \/ Auth(k) \/ ReadyRead(k) \/ ErrorOccured(k) \/ DeleteConnection(k)
                 \/ AuthUnreadable(k) \/ AuthRefused(k) \/ AuthSucceeded(k)
          PROVE  Orderly' /\ Confirmed'
      BY <3>1, <3>3, AnswerOrderly, ErrorOrderly, DeleteConnectionOrderly, ToldOrderly, SucceededOrderly
    <3> QED
      BY <1>1, <3>1, <3>2, <3>3, CloseBoxOrderly, ClosePanelOrderly DEF Next
  <2>3. ASSUME ~again', ~edited' PROVE Unedited' /\ PanelsConfirmed'
    BY <2>2, <2>3 DEF Confirmed
  <2> QED
    BY <2>1, <2>2, <2>3 DEF IInv
<1>2. ASSUME IInv, UNCHANGED vars PROVE IInv'
  <2>1. Sound'
    BY <1>2, StepSound DEF IInv
  <2>2. Orderly => Orderly'
    BY <1>2 DEF vars, session_vars, history_vars, Orderly, OneVisible, OneConn, Awaited, Settled,
                BoxesLive, ClosedOutside, OnceEach, Open, Pending, Posted, Boxed, Running
  <2>3. Unedited /\ PanelsConfirmed => Unedited' /\ PanelsConfirmed'
    BY <1>2 DEF vars, session_vars, history_vars, Unedited, PanelsConfirmed, Open, Pending
  <2>4. again' = again /\ edited' = edited
    BY <1>2 DEF vars, history_vars
  <2> QED
    BY <1>2, <2>1, <2>2, <2>3, <2>4 DEF IInv
<1> QED
  BY <1>1, <1>2

LEMMA IInvHolds == Spec => []IInv
BY InitIInv, StepIInv, PTL DEF Spec

(* A request is only sent from a window that is filled in, and a panel is  *)
(* only opened for a real rank (LoginWindow.cpp:33-37, 56-72).             *)
THEOREM TypeCorrect == Spec => []TypeOK
<1>1. IInv => TypeOK
  BY DEF IInv, Sound
<1> QED
  BY <1>1, IInvHolds, PTL

(* However the bytes of an answer are cut into blocks, its end is missed   *)
(* only after a block that ended right behind the second byte              *)
(* (ServerConnection.cpp:91-94).                                           *)
THEOREM OnlyTwoBytesMiss == Spec => []MissedAfterTwoBytes
<1>1. IInv => MissedAfterTwoBytes
  <2> SUFFICES ASSUME IInv, NEW k \in Connections, Open(k), conns[k].got = Total
               PROVE  conns[k].pre = Delim
    BY DEF MissedAfterTwoBytes, Open
  <2>1. Total \in Nat
    BY SizeAssumption DEF Total, Delim
  <2> QED
    BY <2>1 DEF IInv, Sound, ReadGrows
<1> QED
  BY <1>1, IInvHolds, PTL

(* A user who waits for each answer works with the credentials the server  *)
(* has confirmed (LoginWindow.cpp:54-72).                                  *)
THEOREM UserConfirmed == Spec => []UserIsConfirmed
<1>1. IInv => UserIsConfirmed
  BY DEF IInv, PanelsConfirmed, UserIsConfirmed
<1> QED
  BY <1>1, IInvHolds, PTL

(* One press for each answer opens one panel for each window, although a   *)
(* closed window and its connections live on until the event loop deletes  *)
(* them (LoginWindow.cpp:70-78, AdminPanel.cpp:41-43).                     *)
THEOREM OnePanel == Spec => []OnePanelPerWindow
<1>1. IInv => OnePanelPerWindow
  BY DEF IInv, Orderly, OnceEach, OnePanelPerWindow
<1> QED
  BY <1>1, IInvHolds, PTL

(* With one press for each answer no handler comes back from its message   *)
(* box into a window that is gone (LoginWindow.cpp:39-43).                 *)
THEOREM HandlersAreOutlived == Spec => []HandlersOutlived
<1>1. IInv => HandlersOutlived
  BY DEF IInv, Orderly, HandlersOutlived
<1> QED
  BY <1>1, IInvHolds, PTL
=============================================================================
