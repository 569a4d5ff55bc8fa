------------------------------- MODULE MCApi -------------------------------
EXTENDS Api, TLC

CONSTANTS a1, u1, g1, i1, v1, v2

MCRole == a1 :> "admin" @@ u1 :> "user" @@ g1 :> "gone"

Call(route, who, id, patch) == [route |-> route, user |-> who, id |-> id, patch |-> patch]
Asks(routes, who, id) == {Call(x, who, id, {}) : x \in routes}
AMix(calls, publish, docs, mishap) ==
    [calls |-> calls, publish |-> publish, docs |-> docs, mishap |-> mishap]

\* The inbox, and notifications that arrive.
MCInbox ==
    AMix(Asks({"listNotes", "unreadCount", "markRead", "notify"}, u1, i1)
         \cup Asks({"markRead"}, a1, i1) \cup Asks({"listNotes"}, g1, i1)
         \cup {Call("notify", u1, i1, {"alias"})}
         \cup {Call("markRead", u1, r, {}) : r \in Request}, 0, 0, 1)

MCMixes == {
    \* reports: two patches, an empty one, both removals
    AMix({Call("updateReport", a1, i1, {"title"}), Call("updateReport", a1, i1, {"status"}),
          Call("updateReport", a1, i1, {}), Call("removeReport", a1, i1, {}),
          Call("removeReport", a1, i1, {"force"})}
         \cup Asks({"createReport"}, a1, i1) \cup {Call("findReport", a1, i1, {"inactive"})}, 0, 0, 1),
    \* todos of one user and another's, and who may list the reports
    AMix(Asks({"createTodo", "listTodos", "findTodo", "updateTodo", "removeTodo"}, u1, i1)
         \cup Asks({"updateTodo", "removeTodo", "listReports"}, a1, i1)
         \cup Asks({"listReports"}, u1, i1)
         \cup {Call("removeTodo", u1, r, {}) : r \in Request}, 0, 0, 1),
    MCInbox,
    \* consents, with documents that are published meanwhile
    AMix(Asks({"accept", "revoke", "findDocument"}, u1, v1)
         \cup Asks({"accept", "listConsents"}, u1, v2), 2, 0, 0),
    \* the cache
    AMix(Asks({"cachedRead", "bareRead", "evictingWrite"}, u1, i1), 0, 0, 1),
    \* the documents that are served, over a release
    AMix(Asks({"openapi", "postman"}, a1, "full") \cup Asks({"openapi", "postman"}, a1, "mobile"),
         0, 1, 1),
    \* the files that are generated from them
    AMix(Asks({"openapi"}, u1, "full"), 0, 5, 1)}

MCFileOf == <<"auth.md", "todos.md", "todos.md">>
Op(name, tags) == [name |-> name, tags |-> tags]
Enum(at, kind, values) == [at |-> at, kind |-> kind, values |-> values]
MCSpecs == <<
    [ops |-> {Op("login", {1}), Op("list", {2}), Op("health", {})},
     enums |-> {Enum(1, "ts", {"a"}), Enum(2, "pg", {"a"}), Enum(3, "ts", {"a"})}],
    [ops |-> {Op("login", {1}), Op("both", {1, 2}), Op("import", {3})},
     enums |-> {Enum(1, "ts", {"a"}), Enum(2, "pg", {"b"})}]>>
MCMobileTags == {1}
MCSymmetry == Permutations(Request)
=============================================================================
