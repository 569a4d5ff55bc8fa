-------------------------------- MODULE Inbox --------------------------------
(***************************************************************************)
(* A user's notifications: the inbox routes, and notifyUser, which the     *)
(* event listener detaches from whoever emitted the event.  It stores the  *)
(* row, pushes, and then records how the push ended.                       *)
(***************************************************************************)
EXTENDS HttpRequest

VARIABLES
    notes,      \* the notifications, by id
    early       \* history: markReads whose update came before there was a row

noteVars == <<notes, early>>

NewNote(id, user) == [id |-> id, user |-> user, read |-> Nobody, push |-> "pending"]

ASSUME NoteIds ==
    \A m \in Mixes : \A call \in m.calls : call.route = "markRead" => call.id \in Id

NotesInit ==
    /\ notes = [i \in Id |-> IF i \in Existing THEN NewNote(i, Owner) ELSE NoRow]
    /\ early = {}

Mine(r, id) == notes[id] # NoRow /\ notes[id].user = Caller(r)
Unread(r, id) == Mine(r, id) /\ notes[id].read = Nobody

\* A page, of all or of the unread, and the number of the unread; a page's
\* total is a second statement in parallel, and is not kept.
UnreadOnly(r) == Route(r) = "unreadCount" \/ "unread" \in req[r].call.patch

ListNotes(r) ==
    /\ At(r, "handler", {"listNotes", "unreadCount"})
    /\ Return(r, [ids |-> {i \in Id : Mine(r, i) /\ (UnreadOnly(r) => Unread(r, i))}])
    /\ UNCHANGED noteVars

\* The update selects an unread row of the caller's ...  An id is a serial: a
\* call may name a row that notifyUser is about to insert.
MarkRead(r) ==
    /\ At(r, "handler", {"markRead"})
    /\ IF Unread(r, Target(r))
       THEN /\ notes' = [notes EXCEPT ![Target(r)].read = r]
            /\ Wrote(r, NoRow, {notes[Target(r)].user})
       ELSE Goto(r, "found", NoRow) /\ UNCHANGED notes
    /\ early' = IF notes[Target(r)] = NoRow THEN early \cup {r} ELSE early

\* ... and when there was none, a row that there is now is a success too.
ExistsForUser(r) ==
    /\ At(r, "found", {"markRead"})
    /\ IF Mine(r, Target(r)) THEN Return(r, NoRow)
       ELSE Throw(r, Domain("NOTIFICATION_NOT_FOUND"))
    /\ UNCHANGED noteVars

PersistInbox(r) ==
    /\ At(r, "handler", {"notify"})
    /\ notes' = [notes EXCEPT ![r] = NewNote(r, Caller(r))]
    /\ Goto(r, "push", NewNote(r, Caller(r)))
    /\ UNCHANGED early

\* Without an alias there is no push; with one the sender says delivered, or
\* skipped when it is not configured, or gives up and says failed.  What the
\* device got is not in its answer.
Push(r) ==
    /\ At(r, "push", {"notify"})
    /\ IF "alias" \in req[r].call.patch
       THEN \E result \in {"sent", "skipped", "failed"} : Goto(r, result, req[r].row)
       ELSE Goto(r, "skipped", req[r].row)
    /\ UNCHANGED noteVars

\* The status is recorded by id; the row returned still says pending.
RecordPush(r) ==
    /\ req[r].pc \in {"sent", "skipped", "failed"}
    /\ notes' = [notes EXCEPT ![r].push = req[r].pc]
    /\ Wrote(r, req[r].row, {Caller(r)})
    /\ UNCHANGED early

NoteStep(r) ==
    \/ ListNotes(r) \/ MarkRead(r) \/ ExistsForUser(r)
    \/ PersistInbox(r) \/ Push(r) \/ RecordPush(r)

-----------------------------------------------------------------------------

\* A notification whose reading was acknowledged is read from then on, the
\* push's outcome recorded meanwhile or not, unless the update had come before
\* the row: then markRead answers true for a row that nobody has read, and not
\* only, as its comment says, when it "is now (or was already) read".
ReadStays ==
    \A r \in Request : Route(r) = "markRead" /\ Done(r) =>
        /\ notes[Target(r)] # NoRow
        /\ r \in early \/ notes[Target(r)].read # Nobody

\* Once notifyUser has returned, its row says how the push ended.
NotifiedSettled ==
    \A r \in Request : Route(r) = "notify" /\ Done(r) => notes[r].push # "pending"
==============================================================================
