--------------------------- MODULE CustomersModel ---------------------------
(***************************************************************************)
(* The table of customers in the employee's client (src/pc_course_client/  *)
(* Employee/Models/CustomersModel.cpp and Employee/Ui/EmployeePanel.cpp)   *)
(* against the Customer table of the server.                               *)
(***************************************************************************)
EXTENDS RemoteTable

GetCustomersRequest == Sent("get_customers", Own, 0)
CreateCustomerRequest(tel) == Sent("create_customer", tel, 0)

(* The request has the name of the one that deletes an account.            *)
DeleteCustomerRequest(tel, row) == Sent("delete_user", tel, row)

UpdateCustomers(k) == Asks(k, GetCustomersRequest)

InsertCustomer(k, tel) == Asks(k, CreateCustomerRequest(tel))

CreateCustomer(k) == \E t \in Keys : InsertCustomer(k, t)

DeleteCustomer == \E i \in DOMAIN rows : Confirmation(i)

RemoveCustomer(k) == Confirmed(k, DeleteCustomerRequest)

(* An employee may not delete accounts: delete_user is refused (Refuse).   *)
ServeEmployee(k) ==
    Serve(k, {"get_customers", "create_customer", "delete_customer"})

CustomersReceived(k) ==
    /\ Answered(k, "get_customers", "success")
    /\ Overwrite(conns[k].list)

CustomerAdded(k) ==
    /\ Answered(k, "create_customer", "success")
    /\ AppendRow(conns[k].key)

(* Mutant: a refused customer is shown all the same.                       *)
CustomerRefusedShown(k) ==
    /\ Answered(k, "create_customer", "error")
    /\ AppendRow(conns[k].key)

(* An answer other than success is shown.                                  *)
CustomerRefused(k) ==
    /\ Answered(k, "create_customer", "error")
    /\ Ignore

(* The answer to a deletion; it is never success while the server refuses. *)
CustomerRemoved(k) ==
    \E op \in {"delete_user", "delete_customer"}, stage \in {"success", "error"} :
        /\ Answered(k, op, stage)
        /\ IF stage = "success" THEN RemoveRow(conns[k].row) ELSE Ignore

Employee(k) ==
    \/ UpdateCustomers(k) \/ CreateCustomer(k) \/ RemoveCustomer(k)
    \/ CustomersReceived(k) \/ CustomerAdded(k) \/ CustomerRefused(k) \/ CustomerRemoved(k)
=============================================================================
