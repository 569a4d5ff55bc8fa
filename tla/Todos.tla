-------------------------------- MODULE Todos --------------------------------
(***************************************************************************)
(* The template feature: a user's own todos.  Every statement selects by   *)
(* id and owner, and someone else's row is not found.                      *)
(***************************************************************************)
EXTENDS HttpRequest

VARIABLE todos

NewTodo(id, user) == [id |-> id, user |-> user, by |-> Nobody]

ASSUME TodoIds ==
    \A m \in Mixes : \A call \in m.calls :
        call.route \in {"findTodo", "updateTodo", "removeTodo"} => call.id \in Id

TodosInit == todos = [i \in Id |-> IF i \in Existing THEN NewTodo(i, Owner) ELSE NoRow]

\* Mutant: the row is selected by its id alone.
SelectsById(id, user) == todos[id] # NoRow

\* Does `where id and user` select the row?
Selects(id, user) == todos[id] # NoRow /\ todos[id].user = user

ListTodos(r) ==
    /\ At(r, "handler", {"listTodos"})
    /\ Return(r, [ids |-> {i \in Id : Selects(i, Caller(r))}])
    /\ UNCHANGED todos

\* findOne, and the first half of remove.
FindTodo(r) ==
    /\ At(r, "handler", {"findTodo", "removeTodo"})
    /\ LET row == todos[Target(r)]
       IN  IF ~Selects(Target(r), Caller(r)) THEN Throw(r, Http(404))
           ELSE IF Route(r) = "findTodo" THEN Return(r, row)
           ELSE Goto(r, "found", row)
    /\ UNCHANGED todos

CreateTodo(r) ==
    /\ At(r, "handler", {"createTodo"})
    /\ todos' = [todos EXCEPT ![r] = NewTodo(r, Caller(r))]
    /\ Wrote(r, todos'[r], {Caller(r)})

UpdateTodo(r) ==
    /\ At(r, "handler", {"updateTodo"})
    /\ IF Selects(Target(r), Caller(r))
       THEN /\ todos' = [todos EXCEPT ![Target(r)].by = r]
            /\ Wrote(r, todos'[Target(r)], {todos[Target(r)].user})
       ELSE Throw(r, Http(404)) /\ UNCHANGED todos

\* The row may be gone by now; the answer is the same.
DeleteTodo(r) ==
    /\ At(r, "found", {"removeTodo"})
    /\ IF Selects(Target(r), Caller(r))
       THEN /\ todos' = [todos EXCEPT ![Target(r)] = NoRow]
            /\ Wrote(r, NoRow, {Caller(r)})
       ELSE Return(r, NoRow) /\ UNCHANGED todos

TodoStep(r) ==
    \/ ListTodos(r) \/ FindTodo(r) \/ CreateTodo(r) \/ UpdateTodo(r) \/ DeleteTodo(r)

-----------------------------------------------------------------------------

\* A todo whose removal was answered is gone from then on.
TodoGone ==
    \A r \in Request : Route(r) = "removeTodo" /\ Done(r) => todos[Target(r)] = NoRow
==============================================================================
