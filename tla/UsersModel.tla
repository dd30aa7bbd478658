----------------------------- MODULE UsersModel -----------------------------
(***************************************************************************)
(* The table of accounts in the admin's client (src/pc_course_client/      *)
(* Admin/Models/UsersModel.cpp and Admin/Ui/AdminPanel.cpp) against the    *)
(* User table of the server.                                               *)
(***************************************************************************)
EXTENDS RemoteTable

GetUsersRequest == Sent("get_users", Own, 0)
CreateUserRequest(login) == Sent("create_user", login, 0)
DeleteUserRequest(login, row) == Sent("delete_user", login, row)

UpdateUsers(k) == Asks(k, GetUsersRequest)

InsertUser(k, login) == Asks(k, CreateUserRequest(login))

CreateUser(k) == \E l \in Keys : InsertUser(k, l)

(* AdminPanel::DeleteUser: the selected row is not the user's own account. *)
DeleteUser == \E i \in DOMAIN rows : rows[i] # Own /\ Confirmation(i)

RemoveUser(k) == Confirmed(k, DeleteUserRequest)

(* check_user_existance: the account of the user is still there.           *)
ServeAdmin(k) ==
    Own \in table /\ Serve(k, {"get_users", "create_user", "delete_user"})

(* Mutant: a row less is announced as removed.                             *)
UsersReceivedShort(k) ==
    /\ Answered(k, "get_users", "success")
    /\ LET new == conns[k].list
       IN  /\ rows' = new
           /\ view_rows' = IF Len(rows) <= Len(new)
                             THEN view_rows + (Len(new) - Len(rows))
                             ELSE view_rows - ((Len(rows) - 1) - Len(new))
    /\ stale' = ~lone
    /\ UNCHANGED crashed

UsersReceived(k) ==
    /\ Answered(k, "get_users", "success")
    /\ Overwrite(conns[k].list)

UserAdded(k) ==
    /\ Answered(k, "create_user", "success")
    /\ AppendRow(conns[k].key)

(* Mutant: the row is counted from 0 when it is kept and from 1 here.      *)
UserRemovedNext(k) ==
    /\ Answered(k, "delete_user", "success")
    /\ RemoveRow(conns[k].row + 1)

UserRemoved(k) ==
    /\ Answered(k, "delete_user", "success")
    /\ RemoveRow(conns[k].row)

(* An answer other than success, or a list that cannot be read, is shown.  *)
UsersRefused(k) ==
    \E op \in {"get_users", "create_user", "delete_user"} :
        Answered(k, op, "error") /\ Ignore

Admin(k) ==
    \/ UpdateUsers(k) \/ CreateUser(k) \/ RemoveUser(k)
    \/ UsersReceived(k) \/ UserAdded(k) \/ UserRemoved(k) \/ UsersRefused(k)
=============================================================================
