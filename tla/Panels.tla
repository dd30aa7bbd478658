------------------------------- MODULE Panels -------------------------------
(***************************************************************************)
(* A client with one panel open: LoginWindow opens an AdminPanel or an     *)
(* EmployeePanel, by the rank of the user.                                 *)
(***************************************************************************)
EXTENDS UsersModel, CustomersModel

VARIABLE panel

InitAdmin == panel = "admin" /\ TableInit(GetUsersRequest)
InitEmployee == panel = "employee" /\ TableInit(GetCustomersRequest)

Init == InitAdmin \/ InitEmployee

AdminStep ==
    /\ panel = "admin"
    /\ DeleteUser \/ \E k \in Connections : Admin(k) \/ ServeAdmin(k)

EmployeeStep ==
    /\ panel = "employee"
    /\ DeleteCustomer \/ \E k \in Connections : Employee(k) \/ ServeEmployee(k)

CommonStep == Dismiss \/ OtherClient \/ \E k \in Connections : Refuse(k) \/ Lost(k)

Next == (AdminStep \/ EmployeeStep \/ CommonStep) /\ UNCHANGED panel

panel_vars == <<panel, vars>>

Spec == Init /\ [][Next]_panel_vars

-----------------------------------------------------------------------------
(* No answer removes a row that is not there, unless an admin has had two  *)
(* requests under way or another client has interfered (UsersModel.cpp:    *)
(* 266-268).  An employee can have no success with removing a row: the     *)
(* panel asks for delete_user, which the server refuses to an employee     *)
(* (Requests.hpp:129, Request.hpp:358); with the right name of the request *)
(* the rows of an employee would be as little safe as those of an admin.   *)
RowsExist == crashed => panel = "admin" /\ ~lone

(* No admin asks for the deletion of the account they are logged in with:  *)
(* the panel refuses with "you cannot delete your own account"             *)
(* (AdminPanel.cpp:71-75).                                                 *)
OwnAccountKept ==
    panel = "admin" =>
        \A k \in Connections :
            conns[k] # NoRequest /\ conns[k].op = "delete_user" => conns[k].key # Own
=============================================================================
