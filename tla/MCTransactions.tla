---------------------------- MODULE MCTransactions ----------------------------
(* One transaction, one template, a category of each type and three requests. *)
EXTENDS Transactions, TLC

CONSTANTS q1, q2, q3, t1, p1, food, salary

MCTypeOf == food :> "expense" @@ salary :> "income"

\* Requests that meet: on a transaction and its category, on a receipt, on the mapping, on
\* templates, in bulk.
MCMixes ==
    [size : {3}, kinds : {
        {"update", "remove", "restore"},
        {"upload", "deleteReceipt", "extract", "discard"},
        {"fromTemplate", "updateTemplate"},
        {"fromTemplate", "removeTemplate", "incrementUsage"},
        {"fromTemplate", "createTemplate", "saveAsTemplate"},
        {"create", "bulkDelete", "duplicate", "bulkDuplicate", "restore"}}]
    \cup [size : {2}, kinds : {
        {"update", "apply", "discard"},
        {"create", "update", "categories"},
        {"import", "remove"},
        {"upload", "extract", "apply", "mapping"}}]

MCSymmetry == Permutations(Requests)
=============================================================================
