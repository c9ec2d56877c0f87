------------------------- MODULE CourseAccess_proofs -------------------------
(***************************************************************************)
(* AccessInv is an inductive invariant of CourseAccess, for any number of  *)
(* persons, Courses and browsers: types, what a deletion leaves of a       *)
(* Course, the owner's membership, and the one Course of a keyed creation. *)
(***************************************************************************)
EXTENDS CourseAccess, TLAPS

(* TypeOK in the parts that an action can leave alone. *)
AccountsTyped ==
    /\ user \in [User -> Account]
    /\ cookie \in [Browser -> User \cup {Nobody}] /\ oauth \in [Browser -> BOOLEAN]

CoursesTyped ==
    /\ course \in [Course -> CourseRow] /\ member \in [Course -> SUBSET User]
    /\ class \in [Course -> ClassStatus] /\ kept \in [Course -> BOOLEAN]
    /\ records \subseteq Record
    /\ \A k \in Course : course[k].status = "absent" <=> course[k].owner = Nobody

RequestsTyped ==
    /\ request \in [Browser -> Call \cup Login \cup {Idle}]
    /\ courseLock \in [Course -> Browser \cup {Nobody}]
    /\ classLock \in [Course -> Browser \cup {Nobody}]
    /\ \A k \in Course : /\ courseLock[k] # Nobody => request[courseLock[k]].op \in {"delete"}
                         /\ classLock[k] # Nobody => request[classLock[k]].op \in OnClass

LEMMA TypeParts == TypeOK <=> AccountsTyped /\ CoursesTyped /\ RequestsTyped
BY DEF TypeOK, AccountsTyped, CoursesTyped, RequestsTyped

(* The record of a keyed creation stays as long as its account, and one     *)
(* Course stands for it: what makes CreatedOnce inductive.                  *)
KeyIsKept ==
    \A k \in Course : course[k].key # NoKey =>
        /\ course[k].owner \in User
        /\ user[course[k].owner].status # "withdrawn" =>
             [user |-> course[k].owner, route |-> "create", key |-> course[k].key] \in records

OneCoursePerKey ==
    \A j, k \in Course :
        /\ course[j].key # NoKey /\ course[j].key = course[k].key
        /\ course[j].owner = course[k].owner /\ user[course[j].owner].status # "withdrawn"
        => j = k

(* A request to delete names a Course that was created. *)
DeletesExisting ==
    \A b \in Browser : request[b].op = "delete" =>
        request[b].course \in Course /\ course[request[b].course].status # "absent"

AccessInv ==
    /\ TypeOK /\ DeletesExisting /\ DeletedCourseIsClosed /\ OwnerIsMember
    /\ KeyIsKept /\ OneCoursePerKey

(* A request other than a login is a Call. *)
LEMMA Calls ==
    ASSUME RequestsTyped, NEW b \in Browser
    PROVE  /\ request[b] \in Call \cup Login \cup {Idle}
           /\ request[b].op \in Operation => request[b] \in Call
           /\ request[b].op = "login" => request[b] \in Login
           /\ request[b].op \in Operation => request[b].op # "none"
BY DEF RequestsTyped, Call, Login, Idle, Operation

(* The end of a transaction keeps requests and locks well formed. *)
LEMMA FinishTyped ==
    ASSUME RequestsTyped, NEW b \in Browser, Finish(b)
    PROVE  RequestsTyped'
<1>1. request' \in [Browser -> Call \cup Login \cup {Idle}]
  BY DEF Finish, RequestsTyped
<1>2. /\ courseLock' \in [Course -> Browser \cup {Nobody}]
      /\ classLock' \in [Course -> Browser \cup {Nobody}]
  BY DEF Finish, RequestsTyped
<1>3. ASSUME NEW k \in Course, courseLock'[k] # Nobody
      PROVE  request'[courseLock'[k]].op \in {"delete"}
  BY <1>3, AccessAssumption DEF Finish, RequestsTyped
<1>4. ASSUME NEW k \in Course, classLock'[k] # Nobody
      PROVE  request'[classLock'[k]].op \in OnClass
  BY <1>4, AccessAssumption DEF Finish, RequestsTyped
<1> QED BY <1>1, <1>2, <1>3, <1>4 DEF RequestsTyped

(* A browser without a transaction holds no lock, so a change of its request *)
(* alone keeps the locks well formed.                                        *)
LEMMA RequestTyped ==
    ASSUME RequestsTyped, NEW b \in Browser, NEW r \in Call \cup Login \cup {Idle},
           request[b].op \notin OnClass \cup {"delete"} \/ r.op = request[b].op,
           request' = [request EXCEPT ![b] = r], UNCHANGED locks
    PROVE  RequestsTyped'
BY DEF RequestsTyped, locks, OnClass

(* Courses are never absent again, so requests to delete stay meaningful. *)
LEMMA FinishExisting ==
    ASSUME RequestsTyped, DeletesExisting, NEW b \in Browser, Finish(b),
           \A k \in Course : course[k].status # "absent" => course'[k].status # "absent"
    PROVE  DeletesExisting'
BY DEF RequestsTyped, DeletesExisting, Finish, Idle

LEMMA RequestExisting ==
    ASSUME RequestsTyped, DeletesExisting, NEW b \in Browser, NEW r,
           request' = [request EXCEPT ![b] = r], UNCHANGED course,
           r.op = "delete" => r.course \in Course /\ course[r.course].status # "absent"
    PROVE  DeletesExisting'
BY DEF RequestsTyped, DeletesExisting

(* What an action that leaves accounts and Courses alone must show. *)
LEMMA RequestStep ==
    ASSUME AccessInv, RequestsTyped', DeletesExisting', UNCHANGED <<account, content>>
    PROVE  AccessInv'
<1>1. AccountsTyped' /\ CoursesTyped'
  BY TypeParts DEF AccessInv, AccountsTyped, CoursesTyped, account, content
<1>2. TypeOK'
  BY <1>1, TypeParts DEF TypeOK, AccountsTyped, CoursesTyped, RequestsTyped
<1> QED BY <1>2 DEF AccessInv, DeletedCourseIsClosed, OwnerIsMember, KeyIsKept, OneCoursePerKey,
                    account, content

LEMMA RefuseStep ==
    ASSUME AccessInv, NEW b \in Browser, Refuse(b)
    PROVE  AccessInv'
<1>1. RequestsTyped' /\ DeletesExisting'
  BY FinishTyped, FinishExisting, TypeParts DEF Refuse, AccessInv, content
<1> QED BY <1>1, RequestStep DEF Refuse

LEMMA InitHolds == Init => AccessInv
<1> SUFFICES ASSUME Init PROVE AccessInv
  OBVIOUS
<1>1. AccountsTyped
  BY DEF Init, AccountsTyped, Account
<1>2. CoursesTyped
  BY AccessAssumption DEF Init, CoursesTyped, CourseRow, NoCourse, ClassStatus
<1>3. RequestsTyped
  BY DEF Init, RequestsTyped, Idle
<1>4. DeletesExisting /\ DeletedCourseIsClosed /\ OwnerIsMember /\ KeyIsKept /\ OneCoursePerKey
  BY DEF Init, Idle, DeletesExisting, DeletedCourseIsClosed, OwnerIsMember, KeyIsKept, OneCoursePerKey, NoCourse
<1> QED BY <1>1, <1>2, <1>3, <1>4, TypeParts DEF AccessInv

-----------------------------------------------------------------------------
(* Accounts *)

(* What an action on accounts must show: no account returns from withdrawal. *)
LEMMA AccountStep ==
    ASSUME AccessInv, AccountsTyped', RequestsTyped', DeletesExisting', UNCHANGED content,
           \A u \in User : user'[u].status # "withdrawn" => user[u].status # "withdrawn"
    PROVE  AccessInv'
<1>1. CoursesTyped'
  BY TypeParts DEF AccessInv, CoursesTyped, content
<1>2. TypeOK'
  BY <1>1 DEF TypeOK, AccountsTyped, CoursesTyped, RequestsTyped
<1>3. KeyIsKept'
  BY DEF AccessInv, KeyIsKept, content
<1>4. OneCoursePerKey'
  BY DEF AccessInv, KeyIsKept, OneCoursePerKey, content
<1> QED BY <1>2, <1>3, <1>4 DEF AccessInv, DeletedCourseIsClosed, OwnerIsMember, content

LEMMA RequestsStay ==
    ASSUME RequestsTyped, DeletesExisting, UNCHANGED <<request, locks, content>>
    PROVE  RequestsTyped' /\ DeletesExisting'
BY DEF RequestsTyped, DeletesExisting, locks, content

LEMMA SignUpTyped ==
    ASSUME AccountsTyped, NEW b \in Browser, NEW u \in User, NEW n \in Name,
           NEW l \in {"PASSWORD", "GOOGLE"}, SignUp(b, u, n, l), oauth' \in [Browser -> BOOLEAN]
    PROVE  /\ AccountsTyped'
           /\ \A v \in User : user'[v].status # "withdrawn" => user[v].status # "withdrawn"
<1>1. [status |-> "active", name |-> n, login |-> l] \in Account
  BY DEF Account
<1> QED BY <1>1 DEF AccountsTyped, SignUp, IssueSession

LEMMA RegisterStep ==
    ASSUME AccessInv, NEW b \in Browser, Register(b)
    PROVE  AccessInv'
<1>1. /\ AccountsTyped /\ RequestsTyped /\ RequestsTyped' /\ DeletesExisting'
      /\ UNCHANGED content
  BY TypeParts, RequestsStay DEF AccessInv, Register
<1>2. oauth' \in [Browser -> BOOLEAN]
  BY <1>1 DEF AccountsTyped, Register
<1> QED BY <1>1, <1>2, SignUpTyped, AccountStep DEF Register

LEMMA CallbackNewStep ==
    ASSUME AccessInv, NEW b \in Browser, CallbackNew(b)
    PROVE  AccessInv'
<1>1. /\ AccountsTyped /\ RequestsTyped /\ RequestsTyped' /\ DeletesExisting'
      /\ UNCHANGED content
  BY TypeParts, RequestsStay DEF AccessInv, CallbackNew
<1>2. oauth' \in [Browser -> BOOLEAN]
  BY <1>1 DEF AccountsTyped, CallbackNew, Consume
<1> QED BY <1>1, <1>2, SignUpTyped, AccountStep DEF CallbackNew

LEMMA LogInTyped ==
    ASSUME AccountsTyped, RequestsTyped, DeletesExisting, NEW b \in Browser, NEW u \in User,
           NEW g \in BOOLEAN, Free(b), LogIn(b, u, g), UNCHANGED <<locks, content>>
    PROVE  RequestsTyped' /\ DeletesExisting'
<1>1. user[u].name \in Name \cup {Erased}
  BY DEF AccountsTyped, Account
<1>2. [op |-> "login", user |-> u, name |-> user[u].name, google |-> g] \in Login
  BY <1>1 DEF Login
<1>3. RequestsTyped'
  BY <1>2, RequestTyped DEF Free, LogIn, OnClass
<1>4. DeletesExisting'
  BY <1>2, RequestExisting DEF LogIn, content
<1> QED BY <1>3, <1>4

LEMMA LoginWithPasswordStep ==
    ASSUME AccessInv, NEW b \in Browser, LoginWithPassword(b)
    PROVE  AccessInv'
BY TypeParts, LogInTyped, RequestStep DEF AccessInv, LoginWithPassword

LEMMA CallbackKnownStep ==
    ASSUME AccessInv, NEW b \in Browser, CallbackKnown(b)
    PROVE  AccessInv'
<1>1. AccountsTyped /\ RequestsTyped /\ AccountsTyped'
  BY TypeParts DEF AccessInv, AccountsTyped, CallbackKnown, Consume
<1>2. RequestsTyped' /\ DeletesExisting'
  BY <1>1, LogInTyped DEF AccessInv, CallbackKnown, Consume
<1> QED BY <1>1, <1>2, AccountStep DEF CallbackKnown

LEMMA OAuthStep ==
    ASSUME AccessInv, NEW b \in Browser, StartGoogleLogin(b) \/ CallbackFails(b) \/ Logout(b)
    PROVE  AccessInv'
<1>1. AccountsTyped' /\ RequestsTyped' /\ DeletesExisting'
  BY TypeParts, RequestsStay
     DEF AccessInv, AccountsTyped, StartGoogleLogin, CallbackFails, Consume, Logout
<1> QED BY <1>1, AccountStep DEF StartGoogleLogin, CallbackFails, Consume, Logout

LEMMA EstablishStep ==
    ASSUME AccessInv, NEW b \in Browser, Establish(b)
    PROVE  AccessInv'
<1> DEFINE r == request[b]
<1>1. AccountsTyped /\ RequestsTyped /\ r \in Login
  BY TypeParts, Calls DEF AccessInv, Establish
<1>2. RequestsTyped' /\ DeletesExisting'
  <2>1. RequestsTyped'
    BY <1>1, RequestTyped DEF Establish, Login, Idle, OnClass
  <2>2. DeletesExisting'
    BY <1>1, RequestExisting DEF AccessInv, Establish, Idle, content
  <2> QED BY <2>1, <2>2
<1>3. PICK n \in Name \cup {Erased} :
        user' = [user EXCEPT ![r.user].name = IF n = r.name THEN @ ELSE n]
  BY <1>1 DEF Establish, Login
<1>4. user' \in [User -> Account] /\ \A u \in User : user'[u].status = user[u].status
  BY <1>1, <1>3 DEF AccountsTyped, Account
<1>5. AccountsTyped'
  BY <1>1, <1>4 DEF AccountsTyped, Establish, IssueSession, Login
<1> QED BY <1>2, <1>4, <1>5, AccountStep DEF Establish

LEMMA AuthenticateStep ==
    ASSUME AccessInv, NEW b \in Browser, Authenticate(b)
    PROVE  AccessInv'
<1>1. PICK r \in Call : /\ request' = [request EXCEPT ![b] = r]
                         /\ r.course = Nobody <=> r.op \in {"create", "withdraw"}
                         /\ r.course # Nobody => course[r.course].status # "absent"
  BY DEF Authenticate
<1>2. RequestsTyped'
  BY <1>1, TypeParts, RequestTyped DEF AccessInv, Authenticate, Free, OnClass
<1>3. DeletesExisting'
  BY <1>1, TypeParts, RequestExisting DEF AccessInv, Authenticate, content, Call
<1> QED BY <1>2, <1>3, RequestStep DEF Authenticate

-----------------------------------------------------------------------------
(* Courses *)

(* What an action on Courses, members and records must show beside types. *)
LEMMA CourseStep ==
    ASSUME AccessInv, NEW b \in Browser, UNCHANGED account, CoursesTyped', Finish(b),
           \A k \in Course : course[k].status # "absent" => course'[k].status # "absent",
           DeletedCourseIsClosed', OwnerIsMember', KeyIsKept', OneCoursePerKey'
    PROVE  AccessInv'
<1>1. AccountsTyped' /\ RequestsTyped' /\ DeletesExisting'
  BY TypeParts, FinishTyped, FinishExisting DEF AccessInv, AccountsTyped, account
<1> QED BY <1>1 DEF AccessInv, TypeOK, AccountsTyped, CoursesTyped, RequestsTyped

(* Keeping a reply adds a record of the request. *)
LEMMA KeepTyped ==
    ASSUME records \subseteq Record, NEW r \in Call, Keep(r), r.op \in {"create", "rotate", "delete"}
    PROVE  /\ records' \subseteq Record /\ records \subseteq records'
           /\ r.key # NoKey => [user |-> r.user, route |-> r.op, key |-> r.key] \in records'
BY DEF Keep, Record, Call

(* An action that changes no owner, key or account and forgets no record *)
(* leaves keyed creations alone.                                         *)
LEMMA KeysStay ==
    ASSUME AccessInv, UNCHANGED account, records \subseteq records',
           \A k \in Course : course'[k].owner = course[k].owner /\ course'[k].key = course[k].key
    PROVE  KeyIsKept' /\ OneCoursePerKey'
BY DEF AccessInv, KeyIsKept, OneCoursePerKey, account

LEMMA CreateCourseStep ==
    ASSUME AccessInv, NEW b \in Browser, CreateCourse(b)
    PROVE  AccessInv'
<1> DEFINE r == request[b]
           k == CHOOSE c \in Unused : TRUE
<1>1. /\ r \in Call /\ r.op = "create" /\ r.user \in User /\ r.key \in Key \cup {NoKey}
      /\ AccountsTyped /\ CoursesTyped
  BY TypeParts, Calls DEF AccessInv, CreateCourse, Asks, Operation, Call
<1>2. k \in Course /\ course[k].status = "absent"
  BY DEF CreateCourse, Unused
<1>3. /\ course' = [course EXCEPT ![k] = NewCourse(r.user, r.key)]
      /\ member' = [member EXCEPT ![k] = {r.user}]
      /\ Keep(r) /\ Finish(b) /\ Stored(r) = {}
      /\ UNCHANGED <<account, class, kept>>
  BY DEF CreateCourse
<1>4. /\ records' \subseteq Record /\ records \subseteq records'
      /\ r.key # NoKey => [user |-> r.user, route |-> r.op, key |-> r.key] \in records'
  BY <1>1, <1>3, KeepTyped DEF CoursesTyped
<1>5. /\ NewCourse(r.user, r.key) \in CourseRow /\ r.user # Nobody
      /\ NewCourse(r.user, r.key).status = "active"
      /\ NewCourse(r.user, r.key).owner = r.user /\ NewCourse(r.user, r.key).key = r.key
  BY <1>1, AccessAssumption DEF NewCourse, CourseRow
<1> HIDE DEF r, k
<1>6. /\ \A c \in Course : course'[c] = IF c = k THEN NewCourse(r.user, r.key) ELSE course[c]
      /\ \A c \in Course : member'[c] = IF c = k THEN {r.user} ELSE member[c]
  BY <1>1, <1>2, <1>3 DEF CoursesTyped
<1>7. CoursesTyped'
  <2>1. course' \in [Course -> CourseRow] /\ member' \in [Course -> SUBSET User]
    BY <1>1, <1>2, <1>3, <1>5 DEF CoursesTyped
  <2>2. \A c \in Course : course'[c].status = "absent" <=> course'[c].owner = Nobody
    BY <1>1, <1>5, <1>6 DEF CoursesTyped
  <2> QED BY <1>1, <1>3, <1>4, <2>1, <2>2 DEF CoursesTyped
<1>8. DeletedCourseIsClosed'
  BY <1>3, <1>5, <1>6 DEF AccessInv, DeletedCourseIsClosed
<1>9. OwnerIsMember'
  BY <1>5, <1>6 DEF AccessInv, OwnerIsMember
<1>10. UNCHANGED user
  BY <1>3 DEF account
<1>11. KeyIsKept'
  BY <1>1, <1>4, <1>5, <1>6, <1>10 DEF AccessInv, KeyIsKept
<1>12. ASSUME NEW j \in Course, j # k, course[j].key = r.key, course[j].owner = r.user,
              r.key # NoKey, user[r.user].status # "withdrawn"
       PROVE  FALSE
  <2>1. [user |-> r.user, route |-> "create", key |-> r.key] \in records
    BY <1>12 DEF AccessInv, KeyIsKept
  <2> QED BY <1>1, <1>3, <2>1 DEF Stored
<1>13. OneCoursePerKey'
  BY <1>5, <1>6, <1>10, <1>12 DEF AccessInv, OneCoursePerKey
<1>14. \A c \in Course : course[c].status # "absent" => course'[c].status # "absent"
  BY <1>5, <1>6
<1> QED BY <1>3, <1>7, <1>8, <1>9, <1>11, <1>13, <1>14, CourseStep

LEMMA JoinStep ==
    ASSUME AccessInv, NEW b \in Browser, Join(b)
    PROVE  AccessInv'
<1> DEFINE r == request[b]
<1>1. r \in Call /\ r.user \in User /\ CoursesTyped
  BY TypeParts, Calls DEF AccessInv, Join, Asks, Operation, Call
<1>2. /\ member' = [member EXCEPT ![r.course] = @ \cup {r.user}]
      /\ Finish(b) /\ course[r.course].status = "active"
      /\ UNCHANGED <<account, course, class, kept, records>>
  BY DEF Join, CodeFits
<1> HIDE DEF r
<1>3. \A c \in Course : member[c] \subseteq member'[c] /\ (c # r.course => member'[c] = member[c])
  BY <1>1, <1>2 DEF CoursesTyped
<1>4. CoursesTyped'
  BY <1>1, <1>2 DEF CoursesTyped
<1>5. DeletedCourseIsClosed' /\ OwnerIsMember'
  BY <1>2, <1>3 DEF AccessInv, DeletedCourseIsClosed, OwnerIsMember
<1>6. KeyIsKept' /\ OneCoursePerKey'
  BY <1>2, KeysStay
<1> QED BY <1>2, <1>4, <1>5, <1>6, CourseStep

LEMMA RotateStep ==
    ASSUME AccessInv, NEW b \in Browser, RotateJoinCode(b)
    PROVE  AccessInv'
<1> DEFINE r == request[b]
<1>1. r \in Call /\ r.op = "rotate" /\ CoursesTyped
  BY TypeParts, Calls DEF AccessInv, RotateJoinCode, Asks, Operation, Call
<1>2. /\ course' = [course EXCEPT ![r.course].code = @ + 1]
      /\ course[r.course].code < MaxCode
      /\ Keep(r) /\ Finish(b)
      /\ UNCHANGED <<account, member, class, kept>>
  BY DEF RotateJoinCode
<1>3. records' \subseteq Record /\ records \subseteq records'
  BY <1>1, <1>2, KeepTyped DEF CoursesTyped
<1> HIDE DEF r
<1>4. /\ course' \in [Course -> CourseRow]
      /\ \A c \in Course : /\ course'[c].status = course[c].status
                            /\ course'[c].owner = course[c].owner /\ course'[c].key = course[c].key
  <2>1. CASE r.course \notin Course
    BY <1>1, <1>2, <2>1 DEF CoursesTyped
  <2>2. CASE r.course \in Course
    <3> DEFINE row == [course[r.course] EXCEPT !.code = @ + 1]
    <3>1. course[r.course] \in CourseRow
      BY <1>1, <2>2 DEF CoursesTyped
    <3>2. course[r.course].code \in Nat /\ course[r.course].code + 1 \in 0 .. MaxCode
      BY <1>2, <3>1, AccessAssumption DEF CourseRow
    <3>3. /\ row \in CourseRow /\ row.status = course[r.course].status
          /\ row.owner = course[r.course].owner /\ row.key = course[r.course].key
      BY <3>1, <3>2 DEF CourseRow
    <3>4. course' = [course EXCEPT ![r.course] = row]
      BY <1>2
    <3> HIDE DEF row
    <3> QED BY <1>1, <2>2, <3>3, <3>4 DEF CoursesTyped
  <2> QED BY <2>1, <2>2
<1>5. CoursesTyped'
  BY <1>1, <1>2, <1>3, <1>4 DEF CoursesTyped
<1>6. DeletedCourseIsClosed' /\ OwnerIsMember'
  BY <1>2, <1>4 DEF AccessInv, DeletedCourseIsClosed, OwnerIsMember
<1>7. KeyIsKept' /\ OneCoursePerKey'
  BY <1>2, <1>3, <1>4, KeysStay
<1> QED BY <1>2, <1>5, <1>6, <1>7, CourseStep

LEMMA LockCourseStep ==
    ASSUME AccessInv, NEW b \in Browser, LockCourse(b)
    PROVE  AccessInv'
<1> DEFINE r == request[b]
<1>1. r \in Call /\ r.op = "delete" /\ RequestsTyped
  BY TypeParts, Calls DEF AccessInv, LockCourse, Asks, Operation
<1>2. /\ courseLock' = [courseLock EXCEPT ![r.course] = b]
      /\ DeletesExisting
      /\ request' = [request EXCEPT ![b] = [r EXCEPT !.at = "locked"]]
      /\ UNCHANGED <<account, content, classLock>>
  BY DEF AccessInv, LockCourse
<1>3. /\ [r EXCEPT !.at = "locked"] \in Call /\ [r EXCEPT !.at = "locked"].op = "delete"
      /\ [r EXCEPT !.at = "locked"].course = r.course
  BY <1>1 DEF Call
<1>5. DeletesExisting'
  BY <1>1, <1>2, <1>3, RequestExisting DEF DeletesExisting, content
<1> HIDE DEF r
<1>4. RequestsTyped'
  <2>1. /\ request' \in [Browser -> Call \cup Login \cup {Idle}]
        /\ courseLock' \in [Course -> Browser \cup {Nobody}]
        /\ classLock' \in [Course -> Browser \cup {Nobody}]
    BY <1>1, <1>2, <1>3 DEF RequestsTyped
  <2>2. \A c \in Browser : request'[c].op = request[c].op
    BY <1>1, <1>2, <1>3 DEF RequestsTyped, r
  <2>3. \A k \in Course : courseLock'[k] # Nobody => request'[courseLock'[k]].op \in {"delete"}
    BY <1>1, <1>2, <2>2 DEF RequestsTyped, r
  <2>4. \A k \in Course : classLock'[k] # Nobody => request'[classLock'[k]].op \in OnClass
    BY <1>1, <1>2, <2>2 DEF RequestsTyped
  <2> QED BY <2>1, <2>3, <2>4 DEF RequestsTyped
<1> QED BY <1>2, <1>4, <1>5, RequestStep

LEMMA DeleteCourseStep ==
    ASSUME AccessInv, NEW b \in Browser, DeleteCourse(b)
    PROVE  AccessInv'
<1> DEFINE r == request[b]
           row == [course[r.course] EXCEPT !.status = "deleted"]
<1>1. /\ r \in Call /\ r.op = "delete" /\ CoursesTyped
      /\ r.course \in Course /\ course[r.course].status # "absent"
  BY TypeParts, Calls DEF AccessInv, DeleteCourse, Deleting, Operation, DeletesExisting
<1>2. /\ course' = [course EXCEPT ![r.course] = row]
      /\ member' = [member EXCEPT ![r.course] = {}]
      /\ class[r.course] \notin Open /\ Keep(r) /\ Finish(b)
      /\ UNCHANGED <<account, class, kept>>
  BY DEF DeleteCourse
<1>3. records' \subseteq Record /\ records \subseteq records'
  BY <1>1, <1>2, KeepTyped DEF CoursesTyped
<1>4. /\ row \in CourseRow /\ row.status = "deleted"
      /\ row.owner = course[r.course].owner /\ row.key = course[r.course].key
  BY <1>1 DEF CoursesTyped, CourseRow
<1> HIDE DEF r, row
<1>5. \A c \in Course : /\ course'[c] = IF c = r.course THEN row ELSE course[c]
                        /\ member'[c] = IF c = r.course THEN {} ELSE member[c]
  BY <1>1, <1>2 DEF CoursesTyped
<1>6. CoursesTyped'
  <2>1. course' \in [Course -> CourseRow] /\ member' \in [Course -> SUBSET User]
    BY <1>1, <1>2, <1>4 DEF CoursesTyped
  <2>2. \A c \in Course : course'[c].status = "absent" <=> course'[c].owner = Nobody
    BY <1>1, <1>4, <1>5 DEF CoursesTyped
  <2> QED BY <1>1, <1>2, <1>3, <2>1, <2>2 DEF CoursesTyped
<1>7. DeletedCourseIsClosed'
  BY <1>2, <1>5 DEF AccessInv, DeletedCourseIsClosed
<1>8. OwnerIsMember'
  BY <1>4, <1>5 DEF AccessInv, OwnerIsMember
<1>9. KeyIsKept' /\ OneCoursePerKey'
  BY <1>2, <1>3, <1>4, <1>5, KeysStay
<1>10. \A c \in Course : course[c].status # "absent" => course'[c].status # "absent"
  BY <1>4, <1>5
<1> QED BY <1>2, <1>6, <1>7, <1>8, <1>9, <1>10, CourseStep

-----------------------------------------------------------------------------
(* Classes *)

(* An action that changes the class of one Course that is not deleted. *)
LEMMA ClassStep ==
    ASSUME AccessInv, NEW k, NEW status, k \in Course => status \in ClassStatus,
           class' = [class EXCEPT ![k] = status], kept' \in [Course -> BOOLEAN],
           status \in Open => course[k].status # "deleted",
           RequestsTyped', DeletesExisting',
           UNCHANGED <<account, course, member, records>>
    PROVE  AccessInv'
<1>1. AccountsTyped' /\ CoursesTyped'
  BY TypeParts DEF AccessInv, AccountsTyped, CoursesTyped, account
<1>2. TypeOK'
  BY <1>1 DEF TypeOK, AccountsTyped, CoursesTyped, RequestsTyped
<1>3. DeletedCourseIsClosed'
  <2> SUFFICES ASSUME NEW c \in Course, course[c].status = "deleted"
               PROVE  member[c] = {} /\ class'[c] \notin Open
    BY DEF DeletedCourseIsClosed
  <2>1. member[c] = {} /\ class[c] \notin Open
    BY DEF AccessInv, DeletedCourseIsClosed
  <2> QED BY <2>1, TypeParts DEF AccessInv, CoursesTyped
<1>4. OwnerIsMember' /\ KeyIsKept' /\ OneCoursePerKey'
  BY DEF AccessInv, OwnerIsMember, KeyIsKept, OneCoursePerKey, account
<1> QED BY <1>2, <1>3, <1>4 DEF AccessInv

LEMMA OpenClassStep ==
    ASSUME AccessInv, NEW b \in Browser, OpenClass(b)
    PROVE  AccessInv'
<1>1. RequestsTyped' /\ DeletesExisting'
  BY TypeParts, FinishTyped, FinishExisting DEF AccessInv, OpenClass
<1>2. kept' \in [Course -> BOOLEAN]
  BY TypeParts DEF AccessInv, CoursesTyped, OpenClass
<1> QED BY <1>1, <1>2, ClassStep DEF OpenClass, Owns, ClassStatus

LEMMA ChangeClassStep ==
    ASSUME AccessInv, NEW b \in Browser, ChangeClass(b)
    PROVE  AccessInv'
<1>1. RequestsTyped' /\ DeletesExisting'
  BY TypeParts, FinishTyped, FinishExisting DEF AccessInv, ChangeClass
<1> DEFINE k == request[b].course
           status == CASE request[b].op = "start" -> "LIVE"
                       [] request[b].op = "end" -> "PROCESSING"
                       [] request[b].op = "discard" -> "none"
                       [] OTHER -> class[k]
<1>2. /\ class' = [class EXCEPT ![k] = status] /\ course[k].status # "deleted"
      /\ kept' \in [Course -> BOOLEAN]
      /\ UNCHANGED <<account, course, member, records>>
  <2>1. CoursesTyped
    BY TypeParts DEF AccessInv
  <2>2. class' = [class EXCEPT ![k] = status]
    BY <2>1 DEF ChangeClass, CoursesTyped
  <2>3. kept' \in [Course -> BOOLEAN]
    BY <2>1 DEF ChangeClass, CoursesTyped
  <2> QED BY <2>2, <2>3 DEF ChangeClass, Owns
<1>3. k \in Course => status \in ClassStatus
  BY TypeParts DEF AccessInv, CoursesTyped, ClassStatus
<1>4. ASSUME status \in Open PROVE course[k].status # "deleted"
  BY <1>2
<1> HIDE DEF status, k
<1> QED BY <1>1, <1>2, <1>3, <1>4, ClassStep

LEMMA LockClassStep ==
    ASSUME AccessInv, NEW b \in Browser, LockClass(b)
    PROVE  AccessInv'
<1> DEFINE r == request[b]
<1>1. r \in Call /\ r.op \in OnClass /\ RequestsTyped
  BY TypeParts, Calls DEF AccessInv, LockClass, OnClass, Operation
<1>2. /\ classLock' = [classLock EXCEPT ![r.course] = b]
      /\ request' = [request EXCEPT ![b] = [r EXCEPT !.at = "locked"]]
      /\ DeletesExisting
      /\ UNCHANGED <<account, content, courseLock>>
  BY DEF AccessInv, LockClass
<1>3. [r EXCEPT !.at = "locked"] \in Call /\ [r EXCEPT !.at = "locked"].op = r.op
  BY <1>1 DEF Call
<1>4. DeletesExisting'
  BY <1>1, <1>2, <1>3, RequestExisting DEF content, OnClass
<1> HIDE DEF r
<1>5. RequestsTyped'
  <2>1. /\ request' \in [Browser -> Call \cup Login \cup {Idle}]
        /\ courseLock' \in [Course -> Browser \cup {Nobody}]
        /\ classLock' \in [Course -> Browser \cup {Nobody}]
    BY <1>1, <1>2, <1>3 DEF RequestsTyped
  <2>2. \A c \in Browser : request'[c].op = request[c].op
    BY <1>1, <1>2, <1>3 DEF RequestsTyped, r
  <2>3. \A k \in Course : courseLock'[k] # Nobody => request'[courseLock'[k]].op \in {"delete"}
    BY <1>1, <1>2, <2>2 DEF RequestsTyped
  <2>4. \A k \in Course : classLock'[k] # Nobody => request'[classLock'[k]].op \in OnClass
    BY <1>1, <1>2, <2>2 DEF RequestsTyped, r
  <2> QED BY <2>1, <2>3, <2>4 DEF RequestsTyped
<1> QED BY <1>2, <1>4, <1>5, RequestStep

LEMMA MarkCompletedStep ==
    ASSUME AccessInv, NEW k \in Course, MarkCompleted(k)
    PROVE  AccessInv'
<1>1. RequestsTyped' /\ DeletesExisting'
  BY TypeParts DEF AccessInv, MarkCompleted, RequestsTyped, DeletesExisting, locks
<1>2. "COMPLETED" \in ClassStatus /\ "COMPLETED" \notin Open
  BY DEF ClassStatus, Open
<1>3. kept' \in [Course -> BOOLEAN]
  BY TypeParts DEF AccessInv, CoursesTyped, MarkCompleted
<1> QED BY <1>1, <1>2, <1>3, ClassStep DEF MarkCompleted

LEMMA RecordingStoredStep ==
    ASSUME AccessInv, NEW k \in Course, RecordingStored(k)
    PROVE  AccessInv'
<1>1. RequestsTyped' /\ DeletesExisting'
  BY TypeParts DEF AccessInv, RecordingStored, RequestsTyped, DeletesExisting, locks
<1>2. AccountsTyped' /\ CoursesTyped'
  BY TypeParts DEF AccessInv, AccountsTyped, CoursesTyped, RecordingStored, account
<1>3. TypeOK'
  BY <1>1, <1>2 DEF TypeOK, AccountsTyped, CoursesTyped, RequestsTyped
<1> QED BY <1>1, <1>3 DEF AccessInv, RecordingStored, DeletedCourseIsClosed, OwnerIsMember,
                          KeyIsKept, OneCoursePerKey, account

-----------------------------------------------------------------------------
(* Withdrawal *)

LEMMA WithdrawStep ==
    ASSUME AccessInv, NEW b \in Browser, Withdraw(b)
    PROVE  AccessInv'
<1> DEFINE u == request[b].user
           gone == [status |-> "withdrawn", name |-> Erased, login |-> "none"]
<1>1. u \in User /\ AccountsTyped /\ CoursesTyped
  BY TypeParts, Calls DEF AccessInv, Withdraw, Asks, Operation, Call
<1>2. /\ Owned(u) = {} /\ user' = [user EXCEPT ![u] = gone]
      /\ cookie' = [c \in Browser |-> IF cookie[c] = u THEN Nobody ELSE cookie[c]]
      /\ member' = [k \in Course |-> member[k] \ {u}]
      /\ records' = {c \in records : c.user # u}
      /\ Finish(b)
      /\ UNCHANGED <<oauth, course, class, kept>>
  BY DEF Withdraw
<1>3. gone \in Account /\ gone.status = "withdrawn"
  BY DEF Account
<1> HIDE DEF u, gone
<1>4. AccountsTyped'
  BY <1>1, <1>2, <1>3 DEF AccountsTyped
<1>5. CoursesTyped'
  BY <1>1, <1>2 DEF CoursesTyped
<1>6. RequestsTyped' /\ DeletesExisting'
  BY <1>2, TypeParts, FinishTyped, FinishExisting DEF AccessInv
<1>7. DeletedCourseIsClosed'
  BY <1>2 DEF AccessInv, DeletedCourseIsClosed
<1>8. OwnerIsMember'
  BY <1>2 DEF AccessInv, OwnerIsMember, Owned
<1>9. \A v \in User : user'[v] = IF v = u THEN gone ELSE user[v]
  BY <1>1, <1>2 DEF AccountsTyped
<1>10. KeyIsKept'
  BY <1>2, <1>3, <1>9 DEF AccessInv, KeyIsKept
<1>11. OneCoursePerKey'
  BY <1>2, <1>3, <1>9 DEF AccessInv, KeyIsKept, OneCoursePerKey
<1> QED BY <1>4, <1>5, <1>6, <1>7, <1>8, <1>10, <1>11
        DEF AccessInv, TypeOK, AccountsTyped, CoursesTyped, RequestsTyped

-----------------------------------------------------------------------------
(* The specification *)

LEMMA ServeStep ==
    ASSUME AccessInv, NEW b \in Browser, Serve(b)
    PROVE  AccessInv'
<1>1. CASE Replay(b) \/ CreateFails(b) \/ JoinRefused(b) \/ RotateRefused(b)
           \/ DeleteRefused(b) \/ DeleteBlocked(b) \/ OpenRefused(b) \/ NoClass(b)
           \/ ChangeRefused(b) \/ DeadlockAbort(b) \/ WithdrawRefused(b)
  <2>1. Refuse(b)
    BY <1>1 DEF Refuse, Replay, CreateFails, JoinRefused, RotateRefused, DeleteRefused,
                DeleteBlocked, OpenRefused, NoClass, ChangeRefused, DeadlockAbort, WithdrawRefused
  <2> QED BY <2>1, RefuseStep
<1>2. CASE CreateCourse(b) \/ Join(b) \/ RotateJoinCode(b) \/ LockCourse(b) \/ DeleteCourse(b)
  BY <1>2, CreateCourseStep, JoinStep, RotateStep, LockCourseStep, DeleteCourseStep
<1>3. CASE OpenClass(b) \/ LockClass(b) \/ ChangeClass(b)
  BY <1>3, OpenClassStep, LockClassStep, ChangeClassStep
<1>4. CASE Establish(b) \/ Withdraw(b)
  BY <1>4, EstablishStep, WithdrawStep
<1> QED BY <1>1, <1>2, <1>3, <1>4 DEF Serve, WorksOnCourse, WorksOnClass

LEMMA NextHolds == AccessInv /\ [Next]_vars => AccessInv'
<1> SUFFICES ASSUME AccessInv, [Next]_vars PROVE AccessInv'
  OBVIOUS
<1>1. ASSUME NEW b \in Browser, LogsIn(b) PROVE AccessInv'
  BY <1>1, RegisterStep, LoginWithPasswordStep, OAuthStep, CallbackKnownStep, CallbackNewStep
     DEF LogsIn
<1>2. CASE UNCHANGED vars
  <2>1. RequestsTyped' /\ DeletesExisting'
    BY <1>2, TypeParts, RequestsStay DEF AccessInv, vars
  <2> QED BY <1>2, <2>1, RequestStep DEF vars
<1> QED BY <1>1, <1>2, AuthenticateStep, ServeStep, MarkCompletedStep, RecordingStoredStep DEF Next

LEMMA AccessInvariant == Spec => []AccessInv
BY InitHolds, NextHolds, PTL DEF Spec

(* Rows, requests and locks keep their types.                               *)
THEOREM TypeCorrect == Spec => []TypeOK
<1>1. AccessInv => TypeOK
  BY DEF AccessInv
<1> QED BY <1>1, AccessInvariant, PTL

(* However joins, openings and starts meet its deletion, a deleted Course   *)
(* has no member and no open class.                                         *)
THEOREM DeletionCloses == Spec => []DeletedCourseIsClosed
<1>1. AccessInv => DeletedCourseIsClosed
  BY DEF AccessInv
<1> QED BY <1>1, AccessInvariant, PTL

(* A withdrawal never takes an owner out of a Course that is active.        *)
THEOREM OwnerStaysMember == Spec => []OwnerIsMember
<1>1. AccessInv => OwnerIsMember
  BY DEF AccessInv
<1> QED BY <1>1, AccessInvariant, PTL

(* A keyed creation makes one Course however often it is sent.              *)
THEOREM KeyCreatesOnce == Spec => []CreatedOnce
<1>1. AccessInv => CreatedOnce
  BY DEF AccessInv, OneCoursePerKey, CreatedOnce
<1> QED BY <1>1, AccessInvariant, PTL
=============================================================================
