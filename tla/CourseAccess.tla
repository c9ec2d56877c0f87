----------------------------- MODULE CourseAccess -----------------------------
(***************************************************************************)
(* Who may do what: accounts and their browser sessions, Courses with      *)
(* their members and join codes, and the one open class of a Course, as    *)
(* far as requests of several browsers meet in them.                       *)
(*                                                                         *)
(* A request is authenticated in a transaction of its own; its work is a   *)
(* later transaction that does not read the account again.  Operations     *)
(* that lock one row are one step.  Those that lock two, the Course and    *)
(* its class, take them one after the other and in two different orders;   *)
(* PostgreSQL then ends one of two that wait for each other.  The deletion *)
(* of a Course locks its class while that is open, and afterwards when the *)
(* class has a material or a stored recording: the joins that look for     *)
(* them lock the rows of both tables.                                      *)
(*                                                                         *)
(* A User stands for one person with one verified email: registering again *)
(* after a withdrawal makes another account and is not followed.           *)
(***************************************************************************)
EXTENDS Naturals, FiniteSets

CONSTANTS
    User, Course, Browser,
    Key,        \* Idempotency-Key values that a browser sends
    NoKey,      \* the header is left out
    Nobody,
    Name,       \* display names
    Erased,     \* the display name of a withdrawn account
    MaxCode     \* bound: join codes that one Course is given

ASSUME AccessAssumption ==
    /\ Nobody \notin User \cup Browser \cup Course /\ NoKey \notin Key /\ Erased \notin Name
    /\ MaxCode \in Nat \ {0}

VARIABLES
    user,       \* [User -> row of users with the login methods linked to it]
    cookie,     \* the user of the auth_sessions row that a browser's cookie names
    oauth,      \* the oauth_transactions row of a browser is open
    course,     \* [Course -> row of courses]
    member,     \* course_members
    class,      \* status of the Course's latest class
    kept,       \* ... which has a material or a stored recording
    records,    \* idempotency_records that hold a reply
    request,    \* what each browser waits for
    courseLock, \* the browser whose transaction holds the Course row
    classLock   \* ... and the LectureSession row

account == <<user, cookie, oauth>>
content == <<course, member, class, kept, records>>
locks == <<courseLock, classLock>>
vars == <<account, content, request, locks>>

-----------------------------------------------------------------------------
(* Types *)

Account == [status : {"absent", "active", "withdrawn"},
            name   : Name \cup {Erased},
            login  : {"none", "GOOGLE", "PASSWORD"}]

CourseRow == [status : {"absent", "active", "deleted"}, owner : User \cup {Nobody},
              code : 0 .. MaxCode, key : Key \cup {NoKey}]
NoCourse == [status |-> "absent", owner |-> Nobody, code |-> 0, key |-> NoKey]

Record == [user : User, route : {"create", "rotate", "delete"}, key : Key]

ClassStatus == {"none", "READY", "LIVE", "PROCESSING", "COMPLETED"}
Open == {"READY", "LIVE", "PROCESSING"}

Operation == {"create", "join", "rotate", "delete", "open", "start", "end", "discard",
              "attach", "withdraw"}
OnClass == {"start", "end", "discard", "attach"}

(* "code" is the join code the student typed; creation and withdrawal name  *)
(* no Course.                                                               *)
Call == [op : Operation, user : User, course : Course \cup {Nobody}, key : Key \cup {NoKey},
         code : 1 .. MaxCode, at : {"checked", "locked"}]
Login == [op : {"login"}, user : User, name : Name \cup {Erased}, google : BOOLEAN]
Idle == [op |-> "none"]

TypeOK ==
    /\ user \in [User -> Account]
    /\ cookie \in [Browser -> User \cup {Nobody}] /\ oauth \in [Browser -> BOOLEAN]
    /\ course \in [Course -> CourseRow] /\ member \in [Course -> SUBSET User]
    /\ class \in [Course -> ClassStatus] /\ kept \in [Course -> BOOLEAN]
    /\ records \subseteq Record
    /\ request \in [Browser -> Call \cup Login \cup {Idle}]
    /\ courseLock \in [Course -> Browser \cup {Nobody}]
    /\ classLock \in [Course -> Browser \cup {Nobody}]
    /\ \A k \in Course : /\ course[k].status = "absent" <=> course[k].owner = Nobody
                         /\ courseLock[k] # Nobody => request[courseLock[k]].op \in {"delete"}
                         /\ classLock[k] # Nobody => request[classLock[k]].op \in OnClass

Init ==
    /\ user = [u \in User |-> [status |-> "absent", name |-> Erased, login |-> "none"]]
    /\ cookie = [b \in Browser |-> Nobody]
    /\ oauth = [b \in Browser |-> FALSE]
    /\ course = [k \in Course |-> NoCourse] /\ member = [k \in Course |-> {}]
    /\ class = [k \in Course |-> "none"] /\ kept = [k \in Course |-> FALSE] /\ records = {}
    /\ request = [b \in Browser |-> Idle]
    /\ courseLock = [k \in Course |-> Nobody] /\ classLock = [k \in Course |-> Nobody]

-----------------------------------------------------------------------------
(* Accounts and browser sessions *)

Free(b) == request[b].op = "none"

(* The browser's former session row is revoked and a new one inserted.      *)
IssueSession(b, u) == cookie' = [cookie EXCEPT ![b] = u]

(* register_with_password, and establish for a Google subject that is not   *)
(* known: either is refused when an active account has the email.           *)
SignUp(b, u, name, login) ==
    /\ user[u].status = "absent"
    /\ user' = [user EXCEPT ![u] = [status |-> "active", name |-> name, login |-> login]]
    /\ IssueSession(b, u)

Register(b) ==
    /\ Free(b)
    /\ \E u \in User, n \in Name : SignUp(b, u, n, "PASSWORD")
    /\ UNCHANGED <<oauth, content, request, locks>>

LogIn(b, u, google) ==
    request' = [request EXCEPT ![b] =
                  [op |-> "login", user |-> u, name |-> user[u].name, google |-> google]]

(* authenticate_password reads the account and compares the password; the   *)
(* session row is written at the end of the transaction.                    *)
LoginWithPassword(b) ==
    /\ Free(b)
    /\ \E u \in User :
         /\ user[u].status = "active" /\ user[u].login = "PASSWORD"
         /\ LogIn(b, u, FALSE)
    /\ UNCHANGED <<account, content, locks>>

StartGoogleLogin(b) ==
    /\ Free(b) /\ ~oauth[b]
    /\ oauth' = [oauth EXCEPT ![b] = TRUE]
    /\ UNCHANGED <<user, cookie, content, request, locks>>

(* The callback consumes the transaction before it asks Google.             *)
Consume(b) == Free(b) /\ oauth[b] /\ oauth' = [oauth EXCEPT ![b] = FALSE]

CallbackFails(b) ==
    /\ Consume(b)
    /\ UNCHANGED <<user, cookie, content, request, locks>>

CallbackKnown(b) ==
    /\ Consume(b)
    /\ \E u \in User :
         /\ user[u].status = "active" /\ user[u].login = "GOOGLE"
         /\ LogIn(b, u, TRUE)
    /\ UNCHANGED <<user, cookie, content, locks>>

CallbackNew(b) ==
    /\ Consume(b)
    /\ \E u \in User, n \in Name : SignUp(b, u, n, "GOOGLE")
    /\ UNCHANGED <<content, request, locks>>

(* The end of establish or authenticate_password.  The row is not read      *)
(* again, and only attributes that differ from what was read are written:   *)
(* the name, when Google gives another one.                                 *)
Establish(b) ==
    LET r == request[b]
        google == IF r.google THEN Name ELSE {r.name}
    IN  /\ r.op = "login"
        /\ IssueSession(b, r.user)
        /\ \E n \in google :
             user' = [user EXCEPT ![r.user].name = IF n = r.name THEN @ ELSE n]
        /\ request' = [request EXCEPT ![b] = Idle]
        /\ UNCHANGED <<oauth, content, locks>>

Logout(b) ==
    /\ Free(b) /\ cookie[b] # Nobody
    /\ cookie' = [cookie EXCEPT ![b] = Nobody]
    /\ UNCHANGED <<user, oauth, content, request, locks>>

-----------------------------------------------------------------------------
(* Requests *)

Owns(u, k) == course[k].status = "active" /\ course[k].owner = u /\ u \in member[k]

(* get_current_user commits before the operation's transaction begins.      *)
(* Rotation also asks require_course_professor there.                       *)
Authenticate(b) ==
    /\ Free(b) /\ cookie[b] # Nobody /\ user[cookie[b]].status = "active"
    /\ \E r \in Call :
         /\ r.user = cookie[b] /\ r.at = "checked"
         /\ r.course = Nobody <=> r.op \in {"create", "withdraw"}
         /\ r.course # Nobody => course[r.course].status # "absent"
         /\ r.op = "rotate" => Owns(r.user, r.course)
         /\ r.op = "join" => r.code <= course[r.course].code
         /\ r.op # "join" => r.code = 1
         /\ r.op \notin {"create", "rotate", "delete"} => r.key = NoKey
         /\ r.op \in {"rotate", "delete"} => r.key # NoKey
         /\ request' = [request EXCEPT ![b] = r]
    /\ UNCHANGED <<account, content, locks>>

Asks(b, op) == request[b].op = op /\ request[b].at = "checked"

(* The transaction ends, and with it the locks it holds.                    *)
Finish(b) ==
    /\ request' = [request EXCEPT ![b] = Idle]
    /\ courseLock' = [k \in Course |-> IF courseLock[k] = b THEN Nobody ELSE courseLock[k]]
    /\ classLock' = [k \in Course |-> IF classLock[k] = b THEN Nobody ELSE classLock[k]]

(* The record is found by user, route template and key; neither the route   *)
(* nor the hashed body of rotation and deletion names the Course.           *)
Stored(r) == {c \in records : c.user = r.user /\ c.route = r.op /\ c.key = r.key}

(* Bug: an optional key is not kept.                                        *)
KeepRequired(r) ==
    records' = IF r.op = "create" THEN records
               ELSE records \cup {[user |-> r.user, route |-> r.op, key |-> r.key]}

Keep(r) ==
    records' = IF r.key = NoKey THEN records
               ELSE records \cup {[user |-> r.user, route |-> r.op, key |-> r.key]}

Replay(b) ==
    /\ request[b].op \in {"create", "rotate", "delete"} /\ request[b].at = "checked"
    /\ Stored(request[b]) # {}
    /\ Finish(b)
    /\ UNCHANGED <<account, content>>

(* Bug: an error leaves the transaction open.                               *)
RefuseHolding(b) ==
    /\ request' = [request EXCEPT ![b] = Idle]
    /\ UNCHANGED <<account, content, locks>>

Refuse(b) == Finish(b) /\ UNCHANGED <<account, content>>

(* The Course and its professor's membership are one insertion.             *)
NewCourse(u, key) == [status |-> "active", owner |-> u, code |-> 1, key |-> key]

Unused == {k \in Course : course[k].status = "absent"}

CreateCourse(b) ==
    LET r == request[b]
        k == CHOOSE c \in Unused : TRUE
    IN  /\ Asks(b, "create") /\ Stored(r) = {} /\ Unused # {}
        /\ course' = [course EXCEPT ![k] = NewCourse(r.user, r.key)]
        /\ member' = [member EXCEPT ![k] = {r.user}]
        /\ Keep(r) /\ Finish(b)
        /\ UNCHANGED <<account, class, kept>>

(* No join code is free after five attempts, or the bound on Courses.       *)
CreateFails(b) == Asks(b, "create") /\ Stored(request[b]) = {} /\ Refuse(b)

(* Bug: a deleted Course is still found by its code.                        *)
CodeFitsAny(r) == course[r.course].code = r.code

(* The Course row is locked by its current code, unless it is deleted.      *)
CodeFits(r) == course[r.course].status = "active" /\ course[r.course].code = r.code

Join(b) ==
    LET r == request[b]
    IN  /\ Asks(b, "join") /\ courseLock[r.course] = Nobody
        /\ CodeFits(r) /\ r.user # course[r.course].owner
        /\ member' = [member EXCEPT ![r.course] = @ \cup {r.user}]
        /\ Finish(b)
        /\ UNCHANGED <<account, course, class, kept, records>>

JoinRefused(b) ==
    LET r == request[b]
    IN  /\ Asks(b, "join") /\ courseLock[r.course] = Nobody
        /\ ~CodeFits(r) \/ r.user = course[r.course].owner
        /\ Refuse(b)

RotateJoinCode(b) ==
    LET r == request[b]
    IN  /\ Asks(b, "rotate") /\ Stored(r) = {} /\ courseLock[r.course] = Nobody
        /\ Owns(r.user, r.course) /\ course[r.course].code < MaxCode
        /\ course' = [course EXCEPT ![r.course].code = @ + 1]
        /\ Keep(r) /\ Finish(b)
        /\ UNCHANGED <<account, member, class, kept>>

RotateRefused(b) ==
    LET r == request[b]
    IN  /\ Asks(b, "rotate") /\ Stored(r) = {} /\ courseLock[r.course] = Nobody
        /\ ~Owns(r.user, r.course) \/ course[r.course].code = MaxCode
        /\ Refuse(b)

-----------------------------------------------------------------------------
(* Deletion of a Course: the Course row, then the rows of its classes *)

LockCourse(b) ==
    LET r == request[b]
    IN  /\ Asks(b, "delete") /\ Stored(r) = {} /\ courseLock[r.course] = Nobody
        /\ Owns(r.user, r.course)
        /\ courseLock' = [courseLock EXCEPT ![r.course] = b]
        /\ request' = [request EXCEPT ![b].at = "locked"]
        /\ UNCHANGED <<account, content, classLock>>

DeleteRefused(b) ==
    LET r == request[b]
    IN  /\ Asks(b, "delete") /\ Stored(r) = {} /\ courseLock[r.course] = Nobody
        /\ ~Owns(r.user, r.course)
        /\ Refuse(b)

Deleting(b) == request[b].op = "delete" /\ request[b].at = "locked"

DeleteBlocked(b) ==
    /\ Deleting(b) /\ class[request[b].course] \in Open /\ classLock[request[b].course] = Nobody
    /\ Refuse(b)

(* The open class is selected FOR UPDATE, and so is every class that is     *)
(* joined to a material or to a recording with a key.                       *)
LocksClass(k) == class[k] \in Open \/ kept[k]

DeleteCourse(b) ==
    LET r == request[b]
    IN  /\ Deleting(b) /\ class[r.course] \notin Open
        /\ LocksClass(r.course) => classLock[r.course] = Nobody
        /\ course' = [course EXCEPT ![r.course].status = "deleted"]
        /\ member' = [member EXCEPT ![r.course] = {}]
        /\ Keep(r) /\ Finish(b)
        /\ UNCHANGED <<account, class, kept>>

-----------------------------------------------------------------------------
(* The class: its own row, then the row of the Course *)

(* Opening a class locks the Course alone; one open class keeps others out. *)
OpenClass(b) ==
    LET r == request[b]
    IN  /\ Asks(b, "open") /\ courseLock[r.course] = Nobody
        /\ Owns(r.user, r.course) /\ class[r.course] \notin Open
        /\ class' = [class EXCEPT ![r.course] = "READY"]
        /\ kept' = [kept EXCEPT ![r.course] = FALSE]
        /\ Finish(b)
        /\ UNCHANGED <<account, course, member, records>>

OpenRefused(b) ==
    LET r == request[b]
    IN  /\ Asks(b, "open") /\ courseLock[r.course] = Nobody
        /\ ~Owns(r.user, r.course) \/ class[r.course] \in Open
        /\ Refuse(b)

LockClass(b) ==
    LET r == request[b]
    IN  /\ r.op \in OnClass /\ r.at = "checked"
        /\ class[r.course] # "none" /\ classLock[r.course] = Nobody
        /\ classLock' = [classLock EXCEPT ![r.course] = b]
        /\ request' = [request EXCEPT ![b].at = "locked"]
        /\ UNCHANGED <<account, content, courseLock>>

NoClass(b) ==
    LET r == request[b]
    IN  /\ r.op \in OnClass /\ r.at = "checked" /\ class[r.course] = "none"
        /\ Refuse(b)

Allowed(op, status) ==
    \/ op = "start" /\ status = "READY"
    \/ op = "end" /\ status = "LIVE"
    \/ op = "discard" /\ status \in {"READY", "COMPLETED"}
    \/ op = "attach" /\ status \in {"READY", "LIVE", "COMPLETED"}

InClass(b) ==
    LET r == request[b]
    IN  r.op \in OnClass /\ r.at = "locked" /\ courseLock[r.course] = Nobody

ChangeClass(b) ==
    LET r == request[b]
        k == r.course
    IN  /\ InClass(b) /\ Owns(r.user, k) /\ Allowed(r.op, class[k])
        /\ class' = [class EXCEPT ![k] = CASE r.op = "start" -> "LIVE"
                                           [] r.op = "end" -> "PROCESSING"
                                           [] r.op = "discard" -> "none"
                                           [] OTHER -> @]
        /\ kept' = [kept EXCEPT ![k] = r.op = "attach" \/ (@ /\ r.op # "discard")]
        /\ Finish(b)
        /\ UNCHANGED <<account, course, member, records>>

(* Also the failed assertion of a class whose Course is deleted; a start    *)
(* while a material is processed, an end while an answer is captured, and   *)
(* one material too many.                                                   *)
ChangeRefused(b) ==
    LET r == request[b]
    IN  /\ InClass(b)
        /\ r.op # "discard" \/ ~(Owns(r.user, r.course) /\ Allowed(r.op, class[r.course]))
        /\ Refuse(b)

MarkCompleted(k) ==
    /\ class[k] = "PROCESSING" /\ classLock[k] = Nobody
    /\ class' = [class EXCEPT ![k] = "COMPLETED"]
    /\ UNCHANGED <<account, course, member, kept, records, request, locks>>

(* The publisher's upload locks the class and not the Course.               *)
RecordingStored(k) ==
    /\ class[k] \in {"PROCESSING", "COMPLETED"} /\ classLock[k] = Nobody
    /\ member[k] # {}
    /\ kept' = [kept EXCEPT ![k] = TRUE]
    /\ UNCHANGED <<account, course, member, class, records, request, locks>>

(* Two transactions that each hold the row the other waits for.             *)
Deadlocked(k) == courseLock[k] # Nobody /\ classLock[k] # Nobody /\ LocksClass(k)

DeadlockAbort(b) ==
    /\ request[b].op \in OnClass \cup {"delete"}
    /\ b \in {courseLock[request[b].course], classLock[request[b].course]}
    /\ Deadlocked(request[b].course)
    /\ Refuse(b)

-----------------------------------------------------------------------------
(* Withdrawal *)

(* Bug: a Course counts only while a class of it is open.                   *)
OwnedAndOpen(u) ==
    {k \in Course : course[k].status = "active" /\ course[k].owner = u /\ class[k] \in Open}

(* Locks the account and the Courses it owns; refused while there is one.   *)
Owned(u) == {k \in Course : course[k].status = "active" /\ course[k].owner = u}

Withdraw(b) ==
    LET u == request[b].user
    IN  /\ Asks(b, "withdraw")
        /\ user[u].status = "active" /\ Owned(u) = {}
        /\ user' = [user EXCEPT ![u] = [status |-> "withdrawn", name |-> Erased, login |-> "none"]]
        /\ cookie' = [c \in Browser |-> IF cookie[c] = u THEN Nobody ELSE cookie[c]]
        /\ member' = [k \in Course |-> member[k] \ {u}]
        /\ records' = {c \in records : c.user # u}
        /\ Finish(b)
        /\ UNCHANGED <<oauth, course, class, kept>>

WithdrawRefused(b) ==
    LET u == request[b].user
    IN  /\ Asks(b, "withdraw")
        /\ user[u].status # "active" \/ Owned(u) # {}
        /\ \A k \in Owned(u) : courseLock[k] = Nobody
        /\ Refuse(b)

-----------------------------------------------------------------------------
(* The system *)

LogsIn(b) ==
    \/ Register(b) \/ LoginWithPassword(b) \/ StartGoogleLogin(b)
    \/ CallbackFails(b) \/ CallbackKnown(b) \/ CallbackNew(b) \/ Logout(b)

WorksOnCourse(b) ==
    \/ Replay(b) \/ CreateCourse(b) \/ CreateFails(b) \/ Join(b) \/ JoinRefused(b)
    \/ RotateJoinCode(b) \/ RotateRefused(b)
    \/ LockCourse(b) \/ DeleteRefused(b) \/ DeleteBlocked(b) \/ DeleteCourse(b)

WorksOnClass(b) ==
    \/ OpenClass(b) \/ OpenRefused(b) \/ LockClass(b) \/ NoClass(b)
    \/ ChangeClass(b) \/ ChangeRefused(b)

Serve(b) ==
    \/ Establish(b) \/ WorksOnCourse(b) \/ WorksOnClass(b) \/ DeadlockAbort(b)
    \/ Withdraw(b) \/ WithdrawRefused(b)

Next ==
    \/ \E b \in Browser : LogsIn(b) \/ Authenticate(b) \/ Serve(b)
    \/ \E k \in Course : MarkCompleted(k) \/ RecordingStored(k)

Spec == Init /\ [][Next]_vars

(* A request that is being served goes on; row locks are granted in the     *)
(* order in which they are asked for.                                       *)
FairSpec == Spec /\ \A b \in Browser : SF_vars(Serve(b))

-----------------------------------------------------------------------------
(* Properties *)

(* Deleting a Course leaves nobody in it and no class open, whatever joins, *)
(* openings and starts meet the deletion (delete_course, join, create).     *)
DeletedCourseIsClosed ==
    \A k \in Course :
        course[k].status = "deleted" => member[k] = {} /\ class[k] \notin Open

(* An active Course always has its owner among its members, although a      *)
(* withdrawal removes memberships (create, withdraw_account).               *)
OwnerIsMember ==
    \A k \in Course : course[k].status = "active" => course[k].owner \in member[k]

(* A creation that is sent again with its Idempotency-Key, in turn or at    *)
(* the same time, makes one Course (create_course, acquire).                *)
CreatedOnce ==
    \A j, k \in Course :
        /\ course[j].key # NoKey /\ course[j].key = course[k].key
        /\ course[j].owner = course[k].owner /\ user[course[j].owner].status = "active"
        => j = k

(* Every request is answered, also when two transactions lock the Course    *)
(* and its class in opposite orders (delete_course against start, end,      *)
(* deletion and materials of a class that is open, or has files).           *)
RequestsEnd == \A b \in Browser : request[b].op # "none" ~> request[b].op = "none"

(* ERD.md:992 and API_명세서.md:421 say that an account is withdrawn only    *)
(* while it owns no Course that is not deleted.                             *)
OwnerIsActive ==
    \A k \in Course : course[k].status = "active" => user[course[k].owner].status = "active"

(* DB_스키마.md:2023 says that a withdrawn User keeps only anonymous values. *)
WithdrawnIsAnonymous == \A u \in User : user[u].status = "withdrawn" => user[u].name = Erased
=============================================================================
