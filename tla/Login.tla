-------------------------------- MODULE Login --------------------------------
(***************************************************************************)
(* Logging in (src/pc_course_client/Login/Ui/LoginWindow.cpp, main.cpp and *)
(* the closeEvents of the panels): the credentials in the widgets of a     *)
(* window, the ones in the User object that every later request names, and *)
(* the ones the server has confirmed.                                      *)
(*                                                                         *)
(* Nothing keeps the user from editing or from pressing the button again   *)
(* while an answer is awaited.  The first window lives on the stack of     *)
(* main and is only hidden when it closes: answers still reach it.  The    *)
(* later ones are deleted with their connections, but not at once:         *)
(* deleteLater only posts an event, and what is ready before it is handled *)
(* is still delivered.  The event is handled by an event loop no deeper    *)
(* than the one it was posted in, and every message box runs an event loop *)
(* of its own inside the handler that opens it.                            *)
(***************************************************************************)
EXTENDS ServerConnection, Sequences, FiniteSets

CONSTANTS
    Creds,          \* what can be typed: login, password and rank
    Blank,          \* what the widgets can say with a field empty
    Fresh,          \* what they say at first
    Rank,           \* the rank of each
    Valid,          \* the ones the server has
    NoUser,         \* the User object before it is set
    Windows,        \* bound: the login windows there may ever be
    First,          \* the one of main
    Panels,         \* bound: panels open at a time
    NoPanel,
    Connections,    \* bound: connections of login windows at a time
    NoConn,
    MaxPresses      \* bound: times the button is pressed

Ranks == {"Admin", "Employee", "Accountant"}
Texts == Creds \cup Blank

ASSUME CredsAssumption ==
    /\ Rank \in [Texts -> Ranks]
    /\ Valid \subseteq Creds
    /\ Fresh \in Blank
    /\ Creds \cap Blank = {}
ASSUME WindowsAssumption == First \in Windows /\ Windows \cap Connections = {}
ASSUME PressesAssumption == MaxPresses \in Nat

VARIABLES
    window,         \* what has become of each login window
    text,           \* what its widgets say
    user,           \* the User object
    panels,         \* the open panels: their rank and whom the server confirmed
    conns,          \* the connections: what was sent, and what of the answer has come
    boxes,          \* the open message boxes, the one that takes input first
    later,          \* the objects to be deleted, and how many boxes were open then
    crashed,        \* a window that is gone has been used
    again,          \* history: the button was pressed while an answer was awaited
    edited,         \* history: the widgets were edited while an answer was awaited
    opened,         \* history: the panels each window has opened
    presses

session_vars == <<text, user, panels, opened>>
history_vars == <<again, edited, presses>>
vars == <<window, conns, boxes, later, crashed, session_vars, history_vars>>

Verdicts == {"none", "success", "refused", "unreadable", "told", "failed"}

Conns == [win : Windows, cred : Creds, verdict : Verdicts, pre : 0..Total, got : 0..Total]

Boxes == [op : {"answer", "error"}, conn : Connections, win : Windows]

TypeOK ==
    /\ window \in [Windows -> {"unborn", "shown", "hidden", "closed", "gone"}]
    /\ text \in [Windows -> Texts]
    /\ user \in Texts \cup {NoUser}
    /\ panels \in [Panels -> [rank : Ranks, confirmed : Creds] \cup {NoPanel}]
    /\ conns \in [Connections -> Conns \cup {NoConn}]
    /\ boxes \in Seq(Boxes)
    /\ later \subseteq (Windows \cup Connections) \X Nat
    /\ {crashed, again, edited} \subseteq BOOLEAN
    /\ opened \in [Windows -> Nat]
    /\ presses \in Nat

Init ==
    /\ window = [w \in Windows |-> IF w = First THEN "shown" ELSE "unborn"]
    /\ text = [w \in Windows |-> Fresh]
    /\ user = NoUser
    /\ panels = [p \in Panels |-> NoPanel]
    /\ conns = [k \in Connections |-> NoConn]
    /\ boxes = <<>>
    /\ later = {}
    /\ crashed = FALSE
    /\ again = FALSE
    /\ edited = FALSE
    /\ opened = [w \in Windows |-> 0]
    /\ presses = 0

-----------------------------------------------------------------------------
(* The event loops.                                                        *)

(* The application ends with its last visible window.                      *)
Running ==
    /\ ~crashed
    /\ (\E w \in Windows : window[w] = "shown") \/ (\E p \in Panels : panels[p] # NoPanel)

(* deleteLater with depth boxes open; a second call is ignored.            *)
Later(S, depth) ==
    later \cup {<<x, depth>> : x \in {y \in S : \A d \in later : d[1] # y}}

(* The event loop that runs now deletes these before it takes new input.   *)
Due == {d[1] : d \in {e \in later : Len(boxes) <= e[2]}}

(* A message box keeps the input from every window.                        *)
Listening == Running /\ boxes = <<>> /\ Due = {}

Forgotten(S) == later' = {d \in later : d[1] \notin S}

(* An answered connection is deleted.                                      *)
DeleteConnection(k) ==
    /\ ~crashed
    /\ k \in Due
    /\ conns' = [conns EXCEPT ![k] = NoConn]
    /\ Forgotten({k})
    /\ UNCHANGED <<window, boxes, crashed, session_vars, history_vars>>

(* The connections of a window are its children and are deleted with it.   *)
Children(w) == {j \in Connections : conns[j] # NoConn /\ conns[j].win = w}

(* A closed window is deleted.                                             *)
DeleteWindow(w) ==
    /\ ~crashed
    /\ w \in Due
    /\ window' = [window EXCEPT ![w] = "gone"]
    /\ conns' = [j \in Connections |-> IF j \in Children(w) THEN NoConn ELSE conns[j]]
    /\ Forgotten({w} \cup Children(w))
    /\ UNCHANGED <<boxes, crashed, session_vars, history_vars>>

Opens(op, k) == boxes' = <<[op |-> op, conn |-> k, win |-> conns[k].win]>> \o boxes

(* The user closes the box on top.  The handler of an answer has nothing   *)
(* left to do; that of an error goes on to sender(), a member of its       *)
(* window, and sender()->deleteLater().                                    *)
CloseBox ==
    /\ Running
    /\ Due = {}
    /\ boxes # <<>>
    /\ boxes' = Tail(boxes)
    /\ LET box == Head(boxes)
       IN  \/ /\ box.op = "answer"
              /\ UNCHANGED <<later, crashed>>
           \/ /\ box.op = "error" /\ window[box.win] # "gone"
              /\ later' = Later({box.conn}, Len(boxes'))
              /\ UNCHANGED crashed
           \/ /\ box.op = "error" /\ window[box.win] = "gone"
              /\ crashed' = TRUE
              /\ UNCHANGED later
    /\ UNCHANGED <<window, conns, session_vars, history_vars>>

-----------------------------------------------------------------------------
(* A login window.                                                         *)
Awaits(w) ==
    \E k \in Connections :
        conns[k] # NoConn /\ conns[k].win = w /\ conns[k].verdict \notin {"told", "failed"}

(* The user types, or empties a field.                                     *)
Edit(w) ==
    /\ Listening
    /\ window[w] = "shown"
    /\ \E c \in Texts : text' = [text EXCEPT ![w] = c]
    /\ edited' = (edited \/ Awaits(w))
    /\ UNCHANGED <<window, user, panels, opened, conns, boxes, later, crashed, again, presses>>

AuthRequest(w) ==
    [win |-> w, cred |-> text[w], verdict |-> "none", pre |-> 0, got |-> 0]

Presses(w) ==
    /\ window[w] = "shown"
    /\ presses < MaxPresses
    /\ presses' = presses + 1
    /\ UNCHANGED <<window, boxes, later, crashed, session_vars, edited>>

Connects(w) ==
    /\ \E k \in Connections :
          /\ conns[k] = NoConn
          /\ conns' = [conns EXCEPT ![k] = AuthRequest(w)]
    /\ again' = (again \/ Awaits(w))

(* Mutant: empty fields are sent as well.                                  *)
CheckUserExistsEmpty(w) ==
    /\ Listening
    /\ Presses(w)
    /\ Connects(w)

(* Mutant: the message boxes leave the input to the windows.               *)
CheckUserExistsBehindBox(w) ==
    /\ Running
    /\ text[w] \in Creds
    /\ Presses(w)
    /\ Connects(w) \/ UNCHANGED <<conns, again>>

(* CheckUserExists: the request is sent, if all fields are filled in.  If  *)
(* no connection could be made the user is told (ErrorOccured), or, when   *)
(* the second in WaitForConnected has run out, is told nothing.            *)
CheckUserExists(w) ==
    /\ Listening
    /\ text[w] \in Creds
    /\ Presses(w)
    /\ Connects(w) \/ UNCHANGED <<conns, again>>

(* The server answers; a statement of its may fail.                        *)
Auth(k) ==
    /\ Running
    /\ conns[k] # NoConn
    /\ conns[k].verdict = "none"
    /\ \E v \in {"success", "refused", "unreadable"} :
          /\ v = "success" => conns[k].cred \in Valid
          /\ conns' = [conns EXCEPT ![k].verdict = v]
    /\ UNCHANGED <<window, boxes, later, crashed, session_vars, history_vars>>

(* A block of the answer up to byte n.                                     *)
Arrives(k, n) ==
    /\ Running
    /\ conns[k] # NoConn
    /\ conns[k].verdict \in {"success", "refused", "unreadable"}
    /\ n \in (conns[k].got + 1)..Total

ReadyRead(k) ==
    /\ \E n \in 1..Total :
          /\ Arrives(k, n)
          /\ ~Complete(conns[k].got, n)
          /\ conns' = [conns EXCEPT ![k].pre = conns[k].got, ![k].got = n]
    /\ UNCHANGED <<window, boxes, later, crashed, session_vars, history_vars>>

(* input_message is cleared.                                               *)
Over(k, verdict) ==
    conns' = [conns EXCEPT ![k].verdict = verdict, ![k].pre = 0, ![k].got = 0]

MessageArrived(k, verdict) ==
    /\ \E n \in 1..Total : Arrives(k, n) /\ Complete(conns[k].got, n)
    /\ conns[k].verdict = verdict
    /\ Over(k, "told")
    /\ UNCHANGED <<text, crashed, history_vars>>

AuthUnreadable(k) ==
    /\ MessageArrived(k, "unreadable")
    /\ Opens("answer", k)
    /\ later' = Later({k}, Len(boxes))
    /\ UNCHANGED <<window, user, panels, opened>>

(* The User object becomes what the widgets say now.                       *)
SetUser(w) == user' = text[w]

(* The User object is set before the answer is looked at.                  *)
AuthRefused(k) ==
    /\ MessageArrived(k, "refused")
    /\ SetUser(conns[k].win)
    /\ Opens("answer", k)
    /\ later' = Later({k}, Len(boxes))
    /\ UNCHANGED <<window, panels, opened>>

(* close() hides the first window; any other one is to be deleted, too.    *)
Close(w, S) ==
    /\ window' = [window EXCEPT ![w] = IF w = First THEN "hidden" ELSE "closed"]
    /\ later' = Later(S \cup ({w} \ {First}), Len(boxes))

(* The panel that opens is that of the rank in the User object.            *)
OpensPanel(w, k) ==
    /\ \E p \in Panels :
          /\ panels[p] = NoPanel
          /\ panels' = [panels EXCEPT ![p] = [rank |-> Rank[user'], confirmed |-> conns[k].cred]]
    /\ opened' = [opened EXCEPT ![w] = @ + 1]

(* Mutant: a User object that has been set is left alone.                  *)
AuthSucceededUnset(k) ==
    /\ MessageArrived(k, "success")
    /\ LET w == conns[k].win
       IN  /\ user' = IF user = NoUser THEN text[w] ELSE user
           /\ OpensPanel(w, k)
           /\ Close(w, {k})
    /\ UNCHANGED boxes

(* Mutant: the login window stays open beside the panel.                   *)
AuthSucceededStays(k) ==
    /\ MessageArrived(k, "success")
    /\ SetUser(conns[k].win)
    /\ OpensPanel(conns[k].win, k)
    /\ later' = Later({k}, Len(boxes))
    /\ UNCHANGED <<window, boxes>>

AuthSucceeded(k) ==
    /\ MessageArrived(k, "success")
    /\ LET w == conns[k].win
       IN  /\ SetUser(w)
           /\ OpensPanel(w, k)
           /\ Close(w, {k})
    /\ UNCHANGED boxes

(* The connection ends with an error before the answer was found in it, at *)
(* the latest when the server closes it, or while the answer is shown.     *)
ErrorOccured(k) ==
    /\ Running
    /\ conns[k] # NoConn
    /\ conns[k].verdict # "failed"
    /\ Over(k, "failed")
    /\ Opens("error", k)
    /\ UNCHANGED <<window, later, crashed, session_vars, history_vars>>

(* The user closes a login window.                                         *)
CloseWindow(w) ==
    /\ Listening
    /\ window[w] = "shown"
    /\ Close(w, {})
    /\ UNCHANGED <<conns, boxes, crashed, session_vars, history_vars>>

-----------------------------------------------------------------------------
(* The panels of admins and employees open a login window when they close. *)
PanelCloses(p, rank) ==
    /\ Listening
    /\ panels[p] # NoPanel
    /\ panels[p].rank = rank
    /\ panels' = [panels EXCEPT ![p] = NoPanel]
    /\ UNCHANGED <<text, user, opened, conns, boxes, later, crashed, history_vars>>

OpensLogin ==
    \E w \in Windows : window[w] = "unborn" /\ window' = [window EXCEPT ![w] = "shown"]

CloseAdminPanel(p) == PanelCloses(p, "Admin") /\ OpensLogin
CloseEmployeePanel(p) == PanelCloses(p, "Employee") /\ OpensLogin
CloseAccountantPanel(p) == PanelCloses(p, "Accountant") /\ UNCHANGED window

Next ==
    \/ \E w \in Windows : Edit(w) \/ CheckUserExists(w) \/ CloseWindow(w) \/ DeleteWindow(w)
    \/ \E k \in Connections :
          \/ Auth(k) \/ ReadyRead(k) \/ ErrorOccured(k) \/ DeleteConnection(k)
          \/ AuthUnreadable(k) \/ AuthRefused(k) \/ AuthSucceeded(k)
    \/ \E p \in Panels :
          CloseAdminPanel(p) \/ CloseEmployeePanel(p) \/ CloseAccountantPanel(p)
    \/ CloseBox

Spec == Init /\ [][Next]_vars

-----------------------------------------------------------------------------
(* An answer that has arrived completely is found, unless a block has      *)
(* ended right after its second byte and the rest has come in one: then    *)
(* pre_size - delim.size() - 1 has wrapped around, and the search begins   *)
(* at the last byte (ServerConnection.cpp:91-94).  A block of one byte     *)
(* wraps as well, but leads to the right place.                            *)
MissedAfterTwoBytes ==
    \A k \in Connections :
        conns[k] # NoConn /\ conns[k].got = Total => conns[k].pre = Delim

(* The credentials that every request of an open panel names are the ones  *)
(* the server has confirmed, and the panel is that of their rank, for a    *)
(* user who neither edits nor presses the button again while an answer is  *)
(* awaited (LoginWindow.cpp:54-72).                                        *)
UserIsConfirmed ==
    ~again /\ ~edited => \A p \in Panels : panels[p] # NoPanel =>
        /\ user = panels[p].confirmed
        /\ user \in Valid
        /\ panels[p].rank = Rank[user]

(* No window opens a second panel, for a user who does not press the       *)
(* button again while an answer is awaited, whatever is edited meanwhile   *)
(* (LoginWindow.cpp:58-73).  One who does can open two panels from any     *)
(* window: close() leaves its connections alive, those of the first window *)
(* for good and those of a later one until the window is deleted.          *)
OnePanelPerWindow == ~again => \A w \in Windows : opened[w] <= 1

(* For the same user no handler returns from a message box into a window   *)
(* that has been deleted under it: the error handler goes on to use its    *)
(* window (LoginWindow.cpp:39-43).  A second answer that arrives while the *)
(* box is open would close and delete the window.                          *)
HandlersOutlived == crashed => again
=============================================================================
