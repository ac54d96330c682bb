--------------------------- MODULE Accounts_proofs ---------------------------
(***************************************************************************)
(* Proofs about the users: about Accounts, for every set of browsers and   *)
(* emails and every number of requests, and, in the last part, about       *)
(* LibraryAccess, what the users may see, for every set of users and       *)
(* libraries and every number of changes and failures.                     *)
(*                                                                         *)
(* What the single user had goes to one user because whoever claims it is  *)
(* a user: no request claims for __legacy__ itself.  What a browser shows  *)
(* and keeps is of one user, that of the session its cookie is for, while  *)
(* its requests come one after the other (Orderly); and a session stays    *)
(* whose it is because the number of a request is no cookie before it is a *)
(* session (Numbered).                                                     *)
(***************************************************************************)
EXTENDS Accounts, LibraryAccess, FiniteSetTheorems, TLAPS

Fields(c) == c = [from |-> c.from, n |-> c.n, kind |-> c.kind, email |-> c.email, at |-> c.at,
                  sent |-> c.sent, user |-> c.user]

\* A request is a record of its fields, and one that claims does so for a user.
CallsClaim == \A c \in calls : Fields(c) /\ (c.at = "claiming" => c.user # Legacy)

Claims ==
    /\ IsFiniteSet(users)
    /\ owner = [t \in Tables |-> owner[t]]
    /\ legacy \in BOOLEAN
    /\ CallsClaim
    /\ LegacyDataStaysTogether

------------------------------------------------------------------------------
LEMMA Initially == AccountsInit => Claims
BY FS_EmptySet DEF AccountsInit, Claims, CallsClaim, LegacyDataStaysTogether

\* A request that is sent is not one that claims.
LEMMA SendClaims ==
    ASSUME CallsClaim, NEW b, NEW kind, NEW email, Send(b, kind, email)
    PROVE  CallsClaim'
<1> DEFINE d == [from |-> b, n |-> sends + 1, kind |-> kind, email |-> email, at |-> "sent",
                 sent |-> cookie[b], user |-> Nobody]
<1>1. calls' = calls \union {d}
  BY DEF Send
<1>2. Fields(d) /\ d.at # "claiming"
  BY DEF Fields
<1> QED
  BY <1>1, <1>2 DEF CallsClaim

\* A request after a step of its handler.
LEMMA Moves ==
    ASSUME CallsClaim, NEW c \in calls, NEW at, NEW u, To(c, at, u)
    PROVE  \E d : /\ calls' = (calls \ {c}) \union {d}
                  /\ d.from = c.from /\ d.n = c.n /\ d.kind = c.kind /\ d.sent = c.sent
                  /\ d.at = at /\ d.user = u /\ Fields(d)
<1> DEFINE d == [c EXCEPT !.at = at, !.user = u]
<1>1. PICK f, n, k, e, a, s, v :
           c = [from |-> f, n |-> n, kind |-> k, email |-> e, at |-> a, sent |-> s, user |-> v]
  BY DEF CallsClaim, Fields
<1>2. d = [from |-> f, n |-> n, kind |-> k, email |-> e, at |-> at, sent |-> s, user |-> u]
  <2> DEFINE x == [c EXCEPT !.at = at]
  <2>1. x = [from |-> f, n |-> n, kind |-> k, email |-> e, at |-> at, sent |-> s, user |-> v]
    BY <1>1
  <2> HIDE DEF x
  <2>2. [x EXCEPT !.user = u] =
              [from |-> f, n |-> n, kind |-> k, email |-> e, at |-> at, sent |-> s, user |-> u]
    BY <2>1
  <2> QED
    BY <2>2 DEF x
<1>3. /\ d.from = c.from /\ d.n = c.n /\ d.kind = c.kind /\ d.sent = c.sent
      /\ d.at = at /\ d.user = u /\ Fields(d)
  BY <1>1, <1>2 DEF Fields
<1>4. calls' = (calls \ {c}) \union {d}
  BY DEF To
<1> QED
  BY <1>3, <1>4

\* Nor is one whose handler moves to another step.
LEMMA ToClaims ==
    ASSUME CallsClaim, NEW c \in calls, NEW at, NEW u, To(c, at, u), at = "claiming" => u # Legacy
    PROVE  CallsClaim'
<1>1. PICK d : calls' = (calls \ {c}) \union {d} /\ d.at = at /\ d.user = u /\ Fields(d)
  BY Moves
<1> QED
  BY <1>1 DEF CallsClaim

\* What the page sends and does leaves the tables alone.
LEMMA PageClaims ==
    ASSUME Claims, NEW b \in Browsers,
           \/ \E e \in Emails : Login(b, e) \/ Register(b, e)
           \/ RefreshUser(b) \/ UpdateSettings(b) \/ Logout(b) \/ Mount(b) \/ Keep(b)
    PROVE  Claims'
<1>1. UNCHANGED database
  BY DEF Login, Register, RefreshUser, UpdateSettings, Logout, Mount, Keep
<1>2. CallsClaim'
  <2>1. CASE \E e \in Emails : Login(b, e) \/ Register(b, e)
    BY <2>1, SendClaims DEF Login, Register, Claims
  <2>2. CASE RefreshUser(b) \/ UpdateSettings(b) \/ Logout(b)
    BY <2>2, SendClaims DEF RefreshUser, UpdateSettings, Logout, Claims
  <2>3. CASE Mount(b)
    <3> DEFINE d == [from |-> b, n |-> sends + 1, kind |-> "load", email |-> Nowhere, at |-> "sent",
                     sent |-> cookie[b], user |-> Nobody]
    <3>1. Fields(d) /\ d.at # "claiming"
      BY DEF Fields
    <3>2. ASSUME NEW c \in calls
          PROVE  LET e == [c EXCEPT !.from = Nowhere]
                 IN  Fields(e) /\ (e.at = "claiming" => e.user # Legacy)
      <4>1. Fields(c) /\ (c.at = "claiming" => c.user # Legacy)
        BY DEF Claims, CallsClaim
      <4>2. [c EXCEPT !.from = Nowhere] =
              [from |-> Nowhere, n |-> c.n, kind |-> c.kind, email |-> c.email, at |-> c.at,
               sent |-> c.sent, user |-> c.user]
        BY <4>1 DEF Fields
      <4> QED
        BY <4>1, <4>2 DEF Fields
    <3> HIDE DEF d
    <3>3. calls' = (calls \ Of(b))
                     \union {[c EXCEPT !.from = Nowhere] : c \in {x \in Of(b) : x.at # "answered"}}
                     \union {d}
      BY <2>3 DEF Mount, d
    <3>4. ASSUME NEW e \in calls'
          PROVE  e \in calls \/ e = d \/ \E c \in calls : e = [c EXCEPT !.from = Nowhere]
      BY <3>3 DEF Of
    <3> QED
      BY <3>1, <3>2, <3>4 DEF Claims, CallsClaim
  <2>4. CASE Keep(b)
    BY <2>4 DEF Keep, Claims, CallsClaim
  <2> QED
    BY <2>1, <2>2, <2>3, <2>4
<1> QED
  BY <1>1, <1>2 DEF database, Claims, LegacyDataStaysTogether

\* The steps of a request.  Two matter: CreateUser takes a number that is not that of
\* __legacy__, and ClaimLegacyData moves all tables or none.
LEMMA StepClaims ==
    ASSUME Claims, NEW c \in calls, Step(c)
    PROVE  Claims'
<1>0. CallsClaim
  BY DEF Claims
<1>1. CASE CreateUser(c)
  <2> DEFINE id == Cardinality(users) + 1
  <2>1. id # Legacy
    BY FS_CardinalityType DEF Claims, Legacy
  <2>2. IsFiniteSet(users')
    BY <1>1, FS_AddElement DEF CreateUser, Claims
  <2>3. CallsClaim'
    BY <1>0, <1>1, <2>1, ToClaims DEF CreateUser, Unanswered
  <2> QED
    BY <1>1, <2>2, <2>3 DEF CreateUser, Claims, LegacyDataStaysTogether
<1>2. CASE ClaimLegacyData(c)
  <2>1. c.user # Legacy
    BY <1>0, <1>2 DEF ClaimLegacyData, CallsClaim
  <2>2. CallsClaim'
    BY <1>0, <1>2, ToClaims DEF ClaimLegacyData
  <2>3. UNCHANGED users
    BY <1>2 DEF ClaimLegacyData
  <2>4. CASE UNCHANGED <<legacy, owner>>
    BY <2>2, <2>3, <2>4 DEF Claims, LegacyDataStaysTogether
  <2>5. CASE /\ legacy /\ legacy' = FALSE
             /\ owner' = [t \in Tables |-> IF owner[t] = Legacy THEN c.user ELSE owner[t]]
    <3>1. \A t \in Tables : owner'[t] = c.user
      BY <2>5 DEF Claims, LegacyDataStaysTogether
    <3>2. owner' = [t \in Tables |-> owner'[t]]
      BY <2>5
    <3> QED
      BY <2>1, <2>2, <2>3, <2>5, <3>1, <3>2 DEF Claims, LegacyDataStaysTogether
  <2> QED
    BY <1>2, <2>4, <2>5 DEF ClaimLegacyData
<1>3. CASE CreateSession(c) \/ ServeLogout(c)
  <2>1. UNCHANGED <<users, legacy, owner>>
    BY <1>3 DEF CreateSession, ServeLogout
  <2>2. CallsClaim'
    BY <1>0, <1>3, ToClaims DEF CreateSession, ServeLogout, Unanswered
  <2> QED
    BY <2>1, <2>2 DEF Claims, LegacyDataStaysTogether
<1>4. CASE Refuse(c) \/ LookUp(c) \/ Serve(c) \/ Arrive(c)
  <2>1. UNCHANGED database
    BY <1>4 DEF Refuse, LookUp, Serve, Arrive
  <2>2. CallsClaim'
    BY <1>0, <1>4, ToClaims DEF Refuse, LookUp, Serve, Arrive, Unanswered
  <2> QED
    BY <2>1, <2>2 DEF database, Claims, LegacyDataStaysTogether
<1>5. CASE ApplyUnauthorized(c) \/ ApplyMe(c) \/ ApplyLogout(c) \/ RequestFails(c) \/ Abandoned(c)
  <2>1. UNCHANGED database /\ calls' = calls \ {c}
    BY <1>5 DEF ApplyUnauthorized, ApplyMe, ApplyLogout, RequestFails, Abandoned, Ends
  <2> QED
    BY <1>0, <2>1 DEF database, Claims, CallsClaim, LegacyDataStaysTogether
<1> QED
  BY <1>1, <1>2, <1>3, <1>4, <1>5 DEF Step

LEMMA Inductive == Claims /\ [AccountsNext]_accountVars => Claims'
<1> SUFFICES ASSUME Claims, [AccountsNext]_accountVars PROVE Claims'
  OBVIOUS
<1>1. ASSUME NEW s \in sessions, Expire(s) PROVE Claims'
  BY <1>1 DEF Expire, Claims, CallsClaim, LegacyDataStaysTogether
<1>2. CASE UNCHANGED accountVars
  BY <1>2 DEF accountVars, database, Claims, CallsClaim, LegacyDataStaysTogether
<1> QED
  BY <1>1, <1>2, PageClaims, StepClaims DEF AccountsNext

\* However many registrations overlap, and whatever claims fail, one user gets all that
\* the single user had, or nobody does yet (createUser, claimLegacyData).
THEOREM LegacyTogether == AccountsSpec => []LegacyDataStaysTogether
<1>1. Claims => LegacyDataStaysTogether
  BY DEF Claims
<1> QED
  BY <1>1, Initially, Inductive, PTL DEF AccountsSpec

------------------------------------------------------------------------------
(* Whose sessions                                                          *)

Early == {"sent", "checked", "claiming", "created"}
Asked == {"login", "register"}

InRange ==
    /\ sends \in Nat
    /\ cookie \in [Browsers -> 0..sends]
    /\ \A c \in calls : c.n \in 1..sends /\ c.sent \in 0..sends /\ c.from \in Browsers \union {Nowhere}
    /\ \A s \in sessions : s.token \in 1..sends

\* A request that has not made its session has a number that is neither one nor a cookie.
Fresh(c) ==
    /\ \A b \in Browsers : cookie[b] # c.n
    /\ \A s \in sessions : s.token # c.n
    /\ \A d \in calls : d.sent # c.n

Numbered ==
    /\ InRange
    /\ \A c, d \in calls : c.n = d.n => c = d
    /\ \A s, t \in sessions : s.token = t.token => s.user = t.user
    /\ \A c \in calls : c.at \in Early => Fresh(c)
    /\ \A c \in calls : c.kind \in Asked /\ c.at \in {"served", "answered"} =>
           \A s \in sessions : s.token = c.n => s.user = c.user
    /\ \A c \in calls : /\ c.at \in {"checked", "claiming", "created"} => c.kind \in Asked
                        /\ c.at = "unauthorized" => ~Changes(c.kind)

\* The steps of a handler: a session is made once, by the request whose number it has, and
\* a cookie is the number of a request that has made it.
LEMMA MoveNumbered ==
    ASSUME Numbered, CallsClaim, NEW c \in calls, NEW at, NEW u, To(c, at, u),
           UNCHANGED sends, cookie' \in [Browsers -> Nat],
           at \in Early => c.at \in Early,
           \A b \in Browsers : cookie'[b] \in {cookie[b], NoCookie} \/ (at \notin Early /\ cookie'[b] = c.n),
           \A s \in sessions' : \/ s \in sessions
                                \/ c.at \in Early /\ at \notin Early /\ s.token = c.n /\ s.user = u,
           c.kind \in Asked /\ at \in {"served", "answered"} =>
               c.at \in Early \/ (c.at \in {"served", "answered"} /\ u = c.user),
           at \in {"checked", "claiming", "created"} => c.kind \in Asked,
           at = "unauthorized" => ~Changes(c.kind)
    PROVE  Numbered'
<1>0. PICK d : /\ calls' = (calls \ {c}) \union {d}
               /\ d.from = c.from /\ d.n = c.n /\ d.kind = c.kind /\ d.sent = c.sent
               /\ d.at = at /\ d.user = u
  BY Moves
<1>1. /\ sends \in Nat /\ c.n \in 1..sends /\ c.sent \in 0..sends /\ c.from \in Browsers \union {Nowhere}
      /\ cookie \in [Browsers -> 0..sends]
      /\ \A e \in calls : e.n = c.n => e = c
  BY DEF Numbered, InRange
<1>2. InRange'
  <2>1. cookie' \in [Browsers -> 0..sends]
    BY <1>1 DEF NoCookie
  <2>2. \A e \in calls' : e.n \in 1..sends /\ e.sent \in 0..sends /\ e.from \in Browsers \union {Nowhere}
    BY <1>0, <1>1 DEF Numbered, InRange
  <2>3. \A s \in sessions' : s.token \in 1..sends
    BY <1>1 DEF Numbered, InRange
  <2> QED
    BY <1>1, <2>1, <2>2, <2>3 DEF InRange
<1>3. \A e, f \in calls' : e.n = f.n => e = f
  BY <1>0, <1>1 DEF Numbered
<1>4. \A s, t \in sessions' : s.token = t.token => s.user = t.user
  <2>1. c.at \in Early => \A s \in sessions : s.token # c.n
    BY DEF Numbered, Fresh
  <2> QED
    BY <2>1 DEF Numbered
<1>5. ASSUME NEW e \in calls', e.at \in Early PROVE Fresh(e)'
  <2>1. PICK g \in calls : g.n = e.n /\ g.at \in Early /\ (g = c => at \in Early)
    BY <1>0, <1>5
  <2>2. Fresh(g) /\ (at \notin Early => g.n # c.n) /\ g.n # NoCookie
    BY <1>1, <2>1 DEF Numbered, InRange, NoCookie
  <2>3. \A b \in Browsers : cookie'[b] # e.n
    BY <2>1, <2>2 DEF Fresh
  <2>4. \A s \in sessions' : s.token # e.n
    BY <2>1, <2>2 DEF Fresh
  <2>5. \A f \in calls' : f.sent # e.n
    BY <1>0, <2>1, <2>2 DEF Fresh
  <2> QED
    BY <2>3, <2>4, <2>5 DEF Fresh
<1>6. ASSUME NEW e \in calls', e.kind \in Asked, e.at \in {"served", "answered"},
             NEW s \in sessions', s.token = e.n
      PROVE  s.user = e.user
  <2>1. CASE e = d
    <3>1. CASE c.at \in Early
      <4>1. \A t \in sessions : t.token # c.n
        BY <3>1 DEF Numbered, Fresh
      <4> QED
        BY <1>0, <1>6, <2>1, <4>1
    <3>2. CASE c.at \notin Early
      <4>1. s \in sessions /\ c.at \in {"served", "answered"} /\ u = c.user /\ c.kind \in Asked
        BY <1>0, <1>6, <2>1, <3>2
      <4> QED
        BY <1>0, <1>6, <2>1, <4>1 DEF Numbered
    <3> QED
      BY <3>1, <3>2
  <2>2. CASE e # d
    <3>1. e \in calls /\ e.n # c.n
      BY <1>0, <1>1, <2>2
    <3>2. s \in sessions
      BY <1>6, <3>1
    <3> QED
      BY <1>6, <3>1, <3>2 DEF Numbered
  <2> QED
    BY <2>1, <2>2
<1>7. \A e \in calls' : /\ e.at \in {"checked", "claiming", "created"} => e.kind \in Asked
                        /\ e.at = "unauthorized" => ~Changes(e.kind)
  BY <1>0 DEF Numbered, Changes
<1> QED
  BY <1>2, <1>3, <1>4, <1>5, <1>6, <1>7 DEF Numbered, Changes

\* Requests end, sessions are deleted.
LEMMA FewerNumbered ==
    ASSUME Numbered, calls' \subseteq calls, sessions' \subseteq sessions, UNCHANGED <<cookie, sends>>
    PROVE  Numbered'
<1>1. InRange'
  BY DEF Numbered, InRange
<1>2. \A c \in calls' : c.at \in Early => Fresh(c)'
  BY DEF Numbered, Fresh
<1> QED
  BY <1>1, <1>2 DEF Numbered, Changes

\* A request is sent; the others go on, some of them without a page.
LEMMA SentNumbered ==
    ASSUME Numbered, UNCHANGED <<cookie, sessions>>, sends' = sends + 1, NEW b \in Browsers, NEW d,
           d.n = sends + 1, d.at = "sent", d.from = b, d.sent = cookie[b],
           \A e \in calls' : \/ e = d
                             \/ \E c \in calls : /\ e.n = c.n /\ e.kind = c.kind /\ e.sent = c.sent
                                                 /\ e.at = c.at /\ e.user = c.user
                                                 /\ e.from \in {c.from, Nowhere},
           \A e, f \in calls' : e # d /\ f # d /\ e.n = f.n => e = f
    PROVE  Numbered'
<1>1. /\ sends \in Nat /\ cookie \in [Browsers -> 0..sends]
      /\ \A c \in calls : c.n \in 1..sends /\ c.sent \in 0..sends /\ c.from \in Browsers \union {Nowhere}
      /\ \A s \in sessions : s.token \in 1..sends
  BY DEF Numbered, InRange
<1>2. \A k \in 0..sends : k \in 0..(sends + 1) /\ k # sends + 1
  BY <1>1
<1>3. \A k \in 1..sends : k \in 1..(sends + 1) /\ k # sends + 1
  BY <1>1
<1>4. sends + 1 \in 1..(sends + 1) /\ sends + 1 \in Nat
  BY <1>1
<1>5. \A e \in calls' : e.n \in 1..(sends + 1) /\ e.sent \in 0..sends /\ e.from \in Browsers \union {Nowhere}
  BY <1>1, <1>3, <1>4
<1>6. InRange'
  <2>1. cookie' \in [Browsers -> 0..(sends + 1)]
    BY <1>1, <1>2
  <2> QED
    BY <1>1, <1>2, <1>3, <1>4, <1>5, <2>1 DEF InRange
<1>7. \A e, f \in calls' : e.n = f.n => e = f
  BY <1>1, <1>3
<1>8. ASSUME NEW e \in calls', e.at \in Early PROVE Fresh(e)'
  <2>1. CASE e = d
    BY <1>1, <1>2, <1>3, <1>5, <2>1 DEF Fresh
  <2>2. CASE e # d
    <3>1. PICK c \in calls : e.n = c.n /\ c.at \in Early
      BY <1>8, <2>2
    <3>2. Fresh(c)
      BY <3>1 DEF Numbered
    <3>3. \A f \in calls' : f.sent # c.n
      BY <3>2 DEF Fresh
    <3> QED
      BY <3>1, <3>2, <3>3 DEF Fresh
  <2> QED
    BY <2>1, <2>2
<1>9. \A e \in calls' : e.kind \in Asked /\ e.at \in {"served", "answered"} =>
         \A s \in sessions' : s.token = e.n => s.user = e.user
  BY DEF Numbered
<1>10. \A e \in calls' : /\ e.at \in {"checked", "claiming", "created"} => e.kind \in Asked
                         /\ e.at = "unauthorized" => ~Changes(e.kind)
  BY DEF Numbered, Changes
<1> QED
  BY <1>6, <1>7, <1>8, <1>9, <1>10 DEF Numbered, Changes

\* What the page sends.
LEMMA SendNumbered ==
    ASSUME Numbered, NEW b \in Browsers, NEW kind, NEW email, Send(b, kind, email),
           UNCHANGED <<cookie, sessions>>
    PROVE  Numbered'
<1> DEFINE d == [from |-> b, n |-> sends + 1, kind |-> kind, email |-> email, at |-> "sent",
                 sent |-> cookie[b], user |-> Nobody]
<1>1. /\ d.n = sends + 1 /\ d.at = "sent" /\ d.from = b /\ d.sent = cookie[b]
      /\ sends' = sends + 1 /\ calls' = calls \union {d}
  BY DEF Send
<1> HIDE DEF d
<1>2. \A e, f \in calls' : e # d /\ f # d /\ e.n = f.n => e = f
  BY <1>1 DEF Numbered
<1> QED
  BY <1>1, <1>2, SentNumbered

LEMMA MountNumbered ==
    ASSUME Numbered, CallsClaim, NEW b \in Browsers, Mount(b)
    PROVE  Numbered'
<1> DEFINE d == [from |-> b, n |-> sends + 1, kind |-> "load", email |-> Nowhere, at |-> "sent",
                 sent |-> cookie[b], user |-> Nobody]
           Left(c) == [c EXCEPT !.from = Nowhere]
<1>1. /\ d.n = sends + 1 /\ d.at = "sent" /\ d.from = b /\ d.sent = cookie[b]
      /\ sends' = sends + 1 /\ UNCHANGED <<cookie, sessions>>
      /\ calls' = (calls \ Of(b)) \union {Left(c) : c \in {x \in Of(b) : x.at # "answered"}} \union {d}
  BY DEF Mount, database
<1>2. ASSUME NEW c \in calls
      PROVE  /\ Left(c).n = c.n /\ Left(c).kind = c.kind /\ Left(c).sent = c.sent
             /\ Left(c).at = c.at /\ Left(c).user = c.user /\ Left(c).from = Nowhere
  <2>1. Fields(c)
    BY DEF CallsClaim
  <2> QED
    BY <2>1 DEF Fields
<1> HIDE DEF d, Left
<1>3. ASSUME NEW e \in calls', e # d
      PROVE  \E c \in calls : (c \notin Of(b) /\ e = c) \/ (c \in Of(b) /\ e = Left(c))
  BY <1>1, <1>3 DEF Of
<1>4. \A e, f \in calls' : e # d /\ f # d /\ e.n = f.n => e = f
  BY <1>2, <1>3 DEF Numbered
<1>5. ASSUME NEW e \in calls'
      PROVE  \/ e = d
             \/ \E c \in calls : /\ e.n = c.n /\ e.kind = c.kind /\ e.sent = c.sent /\ e.at = c.at
                                 /\ e.user = c.user /\ e.from \in {c.from, Nowhere}
  BY <1>2, <1>3
<1> QED
  BY <1>1, <1>4, <1>5, SentNumbered

LEMMA StepNumbered ==
    ASSUME Numbered, CallsClaim, NEW c \in calls, Step(c)
    PROVE  Numbered'
<1>0. /\ cookie \in [Browsers -> Nat] /\ c.n \in Nat
      /\ c.at \in {"checked", "claiming", "created"} => c.kind \in Asked
  BY DEF Numbered, InRange
<1>1. CASE Refuse(c)
  <2>1. To(c, "refused", Nobody) /\ UNCHANGED <<sends, cookie, sessions>>
    BY <1>1 DEF Refuse, Unanswered, database, page
  <2> QED
    BY <1>0, <2>1, MoveNumbered DEF Early
<1>2. CASE LookUp(c)
  <2>1. UNCHANGED <<sends, cookie, sessions>> /\ c.kind \in Asked /\ c.at \in Early
    BY <1>2 DEF LookUp, database, page, Asked, Early
  <2>2. \E at \in {"checked", "refused", "created"} : \E u : To(c, at, u)
    BY <1>2 DEF LookUp, Unanswered
  <2> QED
    BY <1>0, <2>1, <2>2, MoveNumbered
<1>3. CASE CreateUser(c)
  <2>1. UNCHANGED <<sends, cookie, sessions>> /\ c.kind \in Asked /\ c.at \in Early
    BY <1>0, <1>3 DEF CreateUser, page, Early
  <2>2. \E at \in {"refused", "claiming"} : \E u : To(c, at, u)
    BY <1>3 DEF CreateUser, Unanswered
  <2> QED
    BY <1>0, <2>1, <2>2, MoveNumbered
<1>4. CASE ClaimLegacyData(c)
  <2>1. UNCHANGED <<sends, cookie, sessions>> /\ To(c, "created", c.user) /\ c.kind \in Asked /\ c.at \in Early
    BY <1>0, <1>4 DEF ClaimLegacyData, page, Early
  <2> QED
    BY <1>0, <2>1, MoveNumbered
<1>5. CASE CreateSession(c)
  <2>1. UNCHANGED <<sends, cookie>> /\ To(c, "served", c.user) /\ c.kind \in Asked /\ c.at \in Early
    BY <1>0, <1>5 DEF CreateSession, page, Early
  <2>2. \A s \in sessions' : s \in sessions \/ (s.token = c.n /\ s.user = c.user)
    BY <1>5 DEF CreateSession
  <2>3. "served" \notin Early
    BY DEF Early
  <2> QED
    BY <1>0, <2>1, <2>2, <2>3, MoveNumbered
<1>6. CASE Serve(c)
  <2>1. UNCHANGED <<sends, cookie, sessions>> /\ c.kind \notin Asked /\ ~Changes(c.kind)
    BY <1>6 DEF Serve, database, page, Asked, Changes
  <2>2. \E at \in {"served", "unauthorized"} : \E u : To(c, at, u)
    BY <1>6 DEF Serve, Unanswered
  <2>3. "served" \notin Early /\ "unauthorized" \notin Early
    BY DEF Early
  <2> QED
    BY <1>0, <2>1, <2>2, <2>3, MoveNumbered
<1>7. CASE ServeLogout(c)
  <2>1. /\ UNCHANGED <<sends, cookie>> /\ c.kind \notin Asked /\ To(c, "served", Nobody)
        /\ sessions' \subseteq sessions
    BY <1>7 DEF ServeLogout, page, Asked, Unanswered
  <2>2. "served" \notin Early
    BY DEF Early
  <2> QED
    BY <1>0, <2>1, <2>2, MoveNumbered
<1>8. CASE Arrive(c)
  <2>1. UNCHANGED <<sends, sessions>> /\ To(c, "answered", c.user) /\ c.at = "served"
    BY <1>8 DEF Arrive, database
  <2>2. \A b \in Browsers : cookie'[b] \in {cookie[b], NoCookie, c.n} /\ cookie'[b] \in Nat
    BY <1>0, <1>8 DEF Arrive, NoCookie
  <2>3. cookie' \in [Browsers -> Nat]
    BY <1>0, <1>8, <2>2 DEF Arrive
  <2>4. "answered" \notin Early
    BY DEF Early
  <2> QED
    BY <1>0, <2>1, <2>2, <2>3, <2>4, MoveNumbered
<1>9. CASE ApplyUnauthorized(c) \/ ApplyMe(c) \/ ApplyLogout(c) \/ RequestFails(c) \/ Abandoned(c)
  <2>1. UNCHANGED <<sends, cookie, sessions>> /\ calls' \subseteq calls
    BY <1>9 DEF ApplyUnauthorized, ApplyMe, ApplyLogout, RequestFails, Abandoned, Ends, database, page
  <2> QED
    BY <2>1, FewerNumbered
<1> QED
  BY <1>1, <1>2, <1>3, <1>4, <1>5, <1>6, <1>7, <1>8, <1>9 DEF Step

LEMMA NumberedStep ==
    ASSUME Numbered, CallsClaim, [AccountsNext]_accountVars
    PROVE  Numbered'
<1>1. ASSUME NEW b \in Browsers, NEW e \in Emails, Login(b, e) \/ Register(b, e) PROVE Numbered'
  BY <1>1, SendNumbered DEF Login, Register, database
<1>2. ASSUME NEW b \in Browsers, RefreshUser(b) \/ UpdateSettings(b) \/ Logout(b) PROVE Numbered'
  BY <1>2, SendNumbered DEF RefreshUser, UpdateSettings, Logout, database
<1>3. ASSUME NEW b \in Browsers, Keep(b) PROVE Numbered'
  BY <1>3, FewerNumbered DEF Keep, database
<1>4. ASSUME NEW s \in sessions, Expire(s) PROVE Numbered'
  BY <1>4, FewerNumbered DEF Expire, page
<1>5. CASE UNCHANGED accountVars
  BY <1>5, FewerNumbered DEF accountVars, database, page
<1> QED
  BY <1>1, <1>2, <1>3, <1>4, <1>5, MountNumbered, StepNumbered DEF AccountsNext

------------------------------------------------------------------------------
(* One session after the other                                             *)

PageTyped ==
    /\ shown = [b \in Browsers |-> shown[b]]
    /\ history = [b \in Browsers |-> history[b]]
    /\ libraries = [b \in Browsers |-> libraries[b]]
    /\ ready \in [Browsers -> BOOLEAN]
    /\ crossed \in [Browsers -> BOOLEAN]
    /\ unsure \in [Browsers -> BOOLEAN]

\* An answer that says who the user is.
Found(c) == c.kind # "logout" /\ (c.at = "answered" \/ (c.at = "served" /\ ~Changes(c.kind)))

\* All that a browser shows, keeps and is going to be told is about u.
OfOneUser(b, u) ==
    /\ shown[b] \in {Nobody, u}
    /\ ~unsure[b] => {history[b], libraries[b]} \subseteq {Nobody, u}
    /\ \A s \in sessions : s.token = cookie[b] => s.user = u
    /\ \A c \in Of(b) : Found(c) => c.user = u /\ cookie[b] # NoCookie

\* A browser whose changes of session overlap nothing.
Orderly(b) ==
    /\ \A c, d \in Of(b) : Changes(c.kind) => c = d
    /\ \A c \in Of(b) : ~Changes(c.kind) => c.sent = cookie[b]
    /\ \A c \in Of(b) : c.kind \in Asked => ready[b] /\ shown[b] = Nobody
    /\ ready[b] /\ shown[b] = Nobody /\ ~unsure[b] => history[b] = Nobody /\ libraries[b] = Nobody
    /\ shown[b] # Nobody /\ (\A c \in Of(b) : c.kind # "logout") => cookie[b] # NoCookie
    /\ \E u : OfOneUser(b, u)

AllOrderly == \A b \in Browsers : ~crossed[b] => Orderly(b)

SamePage(b) == UNCHANGED <<cookie[b], shown[b], ready[b], history[b], libraries[b], unsure[b]>>

\* A browser that does nothing.
LEMMA Beside ==
    ASSUME NEW b, Orderly(b), SamePage(b), Of(b)' = Of(b),
           \A s \in sessions' : s.token = cookie[b] => s \in sessions
    PROVE  Orderly(b)'
<1>1. PICK u : OfOneUser(b, u)
  BY DEF Orderly
<1>2. OfOneUser(b, u)'
  BY <1>1 DEF OfOneUser, SamePage, Found
<1> QED
  BY <1>2 DEF Orderly, SamePage

\* The handler of one of its requests takes a step.
LEMMA Handled ==
    ASSUME NEW b, Orderly(b), SamePage(b), InRange, NEW c \in Of(b), NEW d,
           calls' = (calls \ {c}) \union {d}, d.from = c.from, d.kind = c.kind, d.sent = c.sent,
           Found(d) => \/ Found(c) /\ d.user = c.user
                       \/ \E s \in sessions : s.token = cookie[b] /\ s.user = d.user,
           \A s \in sessions' : s.token = cookie[b] => s \in sessions
    PROVE  Orderly(b)'
<1>1. PICK u : OfOneUser(b, u)
  BY DEF Orderly
<1>2. c \in calls /\ c.from = b /\ Of(b)' = (Of(b) \ {c}) \union {d}
  BY DEF Of
<1>3. \A s \in sessions : s.token # NoCookie
  BY DEF InRange, NoCookie
<1>4. Found(d) => d.user = u /\ cookie[b] # NoCookie
  BY <1>1, <1>3 DEF OfOneUser
<1>5. OfOneUser(b, u)'
  <2>1. \A e \in Of(b)' : Found(e) => e.user = u /\ cookie[b] # NoCookie
    BY <1>1, <1>2, <1>4 DEF OfOneUser
  <2> QED
    BY <1>1, <2>1 DEF OfOneUser, SamePage, Found
<1>6. \A e, f \in Of(b)' : Changes(e.kind) => e = f
  BY <1>2 DEF Orderly
<1>7. \A e \in Of(b)' : /\ ~Changes(e.kind) => e.sent = cookie'[b]
                        /\ e.kind \in Asked => ready'[b] /\ shown'[b] = Nobody
  BY <1>2 DEF Orderly, SamePage
<1>8. shown'[b] # Nobody /\ (\A e \in Of(b)' : e.kind # "logout") => cookie'[b] # NoCookie
  BY <1>2 DEF Orderly, SamePage
<1>9. ready'[b] /\ shown'[b] = Nobody /\ ~unsure'[b] => history'[b] = Nobody /\ libraries'[b] = Nobody
  BY DEF Orderly, SamePage
<1> QED
  BY <1>5, <1>6, <1>7, <1>8, <1>9 DEF Orderly

\* It sends a request, over which no change of session goes.
LEMMA SendOrderly ==
    ASSUME NEW b \in Browsers, Orderly(b), SamePage(b), UNCHANGED sessions, PageTyped,
           NEW kind, NEW email, Send(b, kind, email), ~crossed'[b],
           kind \in Asked => ready[b] /\ shown[b] = Nobody
    PROVE  Orderly(b)'
<1> DEFINE d == [from |-> b, n |-> sends + 1, kind |-> kind, email |-> email, at |-> "sent",
                 sent |-> cookie[b], user |-> Nobody]
<1>1. PICK u : OfOneUser(b, u)
  BY DEF Orderly
<1>2. d.from = b /\ d.kind = kind /\ d.sent = cookie[b] /\ ~Found(d) /\ calls' = calls \union {d}
  BY DEF Send, Found
<1> HIDE DEF d
<1>3. Of(b)' = Of(b) \union {d}
  BY <1>2 DEF Of
<1>4. \A c \in Of(b) : ~Changes(kind) /\ ~Changes(c.kind)
  BY DEF Send, PageTyped
<1>5. OfOneUser(b, u)'
  <2>1. \A e \in Of(b)' : Found(e) => e.user = u /\ cookie[b] # NoCookie
    BY <1>1, <1>2, <1>3 DEF OfOneUser
  <2> QED
    BY <1>1, <2>1 DEF OfOneUser, SamePage, Found
<1>6. \A e, f \in Of(b)' : Changes(e.kind) => e = f
  BY <1>2, <1>3, <1>4
<1>7. \A e \in Of(b)' : /\ ~Changes(e.kind) => e.sent = cookie'[b]
                        /\ e.kind \in Asked => ready'[b] /\ shown'[b] = Nobody
  BY <1>2, <1>3 DEF Orderly, SamePage
<1>8. shown'[b] # Nobody /\ (\A e \in Of(b)' : e.kind # "logout") => cookie'[b] # NoCookie
  BY <1>3 DEF Orderly, SamePage
<1>9. ready'[b] /\ shown'[b] = Nobody /\ ~unsure'[b] => history'[b] = Nobody /\ libraries'[b] = Nobody
  BY DEF Orderly, SamePage
<1> QED
  BY <1>5, <1>6, <1>7, <1>8, <1>9 DEF Orderly

\* It loads the page: what comes is about whoever the session is of.
LEMMA MountOrderly ==
    ASSUME NEW b \in Browsers, ~crossed[b] => Orderly(b), Numbered, CallsClaim, PageTyped, Mount(b)
    PROVE  Orderly(b)'
<1> DEFINE d == [from |-> b, n |-> sends + 1, kind |-> "load", email |-> Nowhere, at |-> "sent",
                 sent |-> cookie[b], user |-> Nobody]
           Left(c) == [c EXCEPT !.from = Nowhere]
<1>1. d.from = b /\ d.kind = "load" /\ d.sent = cookie[b] /\ ~Found(d)
  BY DEF Found
<1>2. ASSUME NEW c \in calls PROVE Left(c).from # b
  <2>1. Fields(c) /\ b # Nowhere
    BY AccountsAssumption DEF CallsClaim
  <2> QED
    BY <2>1 DEF Fields
<1>3. calls' = (calls \ Of(b)) \union {Left(c) : c \in {x \in Of(b) : x.at # "answered"}} \union {d}
  BY DEF Mount
<1> HIDE DEF d, Left
<1>4. Of(b)' = {d}
  <2>1. ASSUME NEW e \in calls', e # d
        PROVE  (e \in calls /\ e \notin Of(b)) \/ \E c \in calls : e = Left(c)
    BY <1>3, <2>1 DEF Of
  <2>2. \A e \in calls' : e.from = b => e = d
    BY <1>2, <2>1 DEF Of
  <2> QED
    BY <1>1, <1>3, <2>2 DEF Of
<1>5. /\ UNCHANGED <<sessions, cookie, history>> /\ shown'[b] = Nobody /\ ready'[b] = FALSE
      /\ libraries'[b] = Nobody /\ (unsure'[b] <=> unsure[b] \/ crossed[b])
  BY DEF Mount, database, PageTyped
<1>6. \E u : OfOneUser(b, u)'
  <2>1. CASE ~crossed[b]
    <3>1. PICK u : OfOneUser(b, u)
      BY <2>1 DEF Orderly
    <3>2. OfOneUser(b, u)'
      BY <1>1, <1>4, <1>5, <3>1 DEF OfOneUser, Found
    <3> QED
      BY <3>2
  <2>2. CASE crossed[b]
    <3>1. PICK u : \A s \in sessions : s.token = cookie[b] => s.user = u
      <4>1. CASE \E s \in sessions : s.token = cookie[b]
        <5>1. PICK s \in sessions : s.token = cookie[b]
          BY <4>1
        <5> WITNESS s.user
        <5> QED
          BY <5>1 DEF Numbered
      <4> QED
        BY <4>1
    <3>2. OfOneUser(b, u)'
      BY <1>1, <1>4, <1>5, <2>2, <3>1 DEF OfOneUser, Found
    <3> QED
      BY <3>2
  <2> QED
    BY <2>1, <2>2
<1>7. ~Changes(d.kind) /\ d.kind \notin Asked
  BY <1>1 DEF Changes, Asked
<1> QED
  BY <1>1, <1>4, <1>5, <1>6, <1>7 DEF Orderly

\* The handlers: none of their steps is a change to the page, and what they find out
\* about the user of a request is whose session its cookie is.
LEMMA HandlerOrderly ==
    ASSUME NEW b \in Browsers, Orderly(b), Numbered, CallsClaim, NEW c \in calls,
           \/ Refuse(c) \/ LookUp(c) \/ CreateUser(c) \/ ClaimLegacyData(c) \/ CreateSession(c)
           \/ Serve(c) \/ ServeLogout(c)
    PROVE  Orderly(b)'
<1>1. SamePage(b)
  BY DEF SamePage, Refuse, LookUp, CreateUser, ClaimLegacyData, CreateSession, Serve, ServeLogout, page
<1>2. \A s \in sessions' : s.token = cookie[b] => s \in sessions
  <2>1. CASE CreateSession(c)
    <3>1. c.n # cookie[b]
      BY <2>1 DEF CreateSession, Numbered, Early, Fresh
    <3> QED
      BY <2>1, <3>1 DEF CreateSession
  <2>2. CASE ~CreateSession(c)
    BY <2>2 DEF Refuse, LookUp, CreateUser, ClaimLegacyData, Serve, ServeLogout, database
  <2> QED
    BY <2>1, <2>2
<1>3. \E at, u : /\ To(c, at, u)
                 /\ at # "answered"
                 /\ at = "served" => \/ Changes(c.kind)
                                     \/ \E s \in sessions : s.token = c.sent /\ s.user = u
  <2>1. CASE Refuse(c) \/ LookUp(c) \/ CreateUser(c) \/ ClaimLegacyData(c)
    <3>1. \E at \in {"refused", "checked", "created", "claiming"} : \E u : To(c, at, u)
      BY <2>1 DEF Refuse, LookUp, CreateUser, ClaimLegacyData, Unanswered
    <3> QED
      BY <3>1
  <2>2. CASE CreateSession(c)
    <3>1. To(c, "served", c.user) /\ Changes(c.kind)
      BY <2>2 DEF CreateSession, Numbered, Asked, Changes
    <3> QED
      BY <3>1
  <2>3. CASE ServeLogout(c)
    <3>1. To(c, "served", Nobody) /\ Changes(c.kind)
      BY <2>3 DEF ServeLogout, Unanswered, Changes
    <3> QED
      BY <3>1
  <2>4. CASE Serve(c)
    <3>1. \/ \E s \in sessions : s.token = c.sent /\ To(c, "served", s.user)
          \/ To(c, "unauthorized", Nobody)
      BY <2>4 DEF Serve, Unanswered
    <3> QED
      BY <3>1
  <2> QED
    BY <2>1, <2>2, <2>3, <2>4
<1>4. PICK at, u : /\ To(c, at, u)
                   /\ at # "answered"
                   /\ at = "served" => \/ Changes(c.kind)
                                       \/ \E s \in sessions : s.token = c.sent /\ s.user = u
  BY <1>3
<1>5. PICK d : /\ calls' = (calls \ {c}) \union {d}
               /\ d.from = c.from /\ d.n = c.n /\ d.kind = c.kind /\ d.sent = c.sent
               /\ d.at = at /\ d.user = u
  BY <1>4, Moves
<1>6. CASE c.from # b
  <2>1. Of(b)' = Of(b)
    BY <1>5, <1>6 DEF Of
  <2> QED
    BY <1>1, <1>2, <2>1, Beside
<1>7. CASE c.from = b
  <2>1. c \in Of(b)
    BY <1>7 DEF Of
  <2>2. Found(d) => \E s \in sessions : s.token = cookie[b] /\ s.user = d.user
    <3> SUFFICES ASSUME Found(d) PROVE \E s \in sessions : s.token = cookie[b] /\ s.user = d.user
      OBVIOUS
    <3>1. at = "served" /\ ~Changes(c.kind)
      BY <1>4, <1>5 DEF Found
    <3>2. c.sent = cookie[b]
      BY <2>1, <3>1 DEF Orderly
    <3> QED
      BY <1>4, <1>5, <3>1, <3>2
  <2> QED
    BY <1>1, <1>2, <1>5, <2>1, <2>2, Handled DEF Numbered
<1> QED
  BY <1>6, <1>7

\* The cookie of an answer: a login's or a registration's is for the session that it made.
LEMMA ArriveOrderly ==
    ASSUME NEW b \in Browsers, Orderly(b), Numbered, CallsClaim, NEW c \in calls, Arrive(c)
    PROVE  Orderly(b)'
<1>1. PICK d : /\ calls' = (calls \ {c}) \union {d}
               /\ d.from = c.from /\ d.n = c.n /\ d.kind = c.kind /\ d.sent = c.sent
               /\ d.at = "answered" /\ d.user = c.user
  BY Moves DEF Arrive
<1>2. UNCHANGED <<sessions, shown, ready, history, libraries, unsure>> /\ c.at = "served"
  BY DEF Arrive, database
<1>3. /\ cookie'[c.from] = CASE c.kind \in {"login", "register"} -> c.n
                             [] c.kind = "logout" -> NoCookie
                             [] OTHER -> cookie[c.from]
      /\ c.from # b => cookie'[b] = cookie[b]
  BY DEF Arrive, Numbered, InRange
<1>4. CASE c.from # b
  <2>1. Of(b)' = Of(b)
    BY <1>1, <1>4 DEF Of
  <2> QED
    BY <1>2, <1>3, <1>4, <2>1, Beside DEF SamePage
<1>5. CASE c.from = b /\ ~Changes(c.kind)
  <2>1. c \in Of(b) /\ cookie'[b] = cookie[b]
    BY <1>3, <1>5 DEF Of, Changes
  <2>2. Found(d) => Found(c) /\ d.user = c.user
    BY <1>1, <1>2, <1>5 DEF Found, Changes
  <2>3. SamePage(b) /\ InRange
    BY <1>2, <2>1 DEF SamePage, Numbered
  <2> QED
    BY <1>1, <1>2, <2>1, <2>2, <2>3, Handled
<1>6. CASE c.from = b /\ Changes(c.kind)
  <2>1. c \in Of(b) /\ Of(b)' = {d} /\ Changes(d.kind)
    <3>1. c \in Of(b)
      BY <1>6 DEF Of
    <3>2. \A e \in Of(b) : e = c
      BY <1>6, <3>1 DEF Orderly
    <3> QED
      BY <1>1, <1>6, <3>1, <3>2 DEF Of
  <2>2. \A s \in sessions : s.token # NoCookie
    BY DEF Numbered, InRange, NoCookie
  <2>3. CASE c.kind = "logout"
    <3>1. PICK u : OfOneUser(b, u)
      BY DEF Orderly
    <3>2. cookie'[b] = NoCookie /\ ~Found(d) /\ d.kind = "logout" /\ d.kind \notin Asked
      BY <1>1, <1>3, <1>6, <2>3 DEF Found, Asked
    <3>3. OfOneUser(b, u)'
      BY <1>2, <2>1, <2>2, <3>1, <3>2 DEF OfOneUser, Found
    <3> QED
      BY <1>2, <2>1, <3>2, <3>3 DEF Orderly
  <2>4. CASE c.kind \in Asked
    <3>1. cookie'[b] = c.n /\ c.n # NoCookie
      BY <1>3, <1>6, <2>4 DEF Asked, Numbered, InRange, NoCookie
    <3>2. ready[b] /\ shown[b] = Nobody
      BY <2>1, <2>4 DEF Orderly
    <3>3. \A s \in sessions : s.token = c.n => s.user = c.user
      BY <1>2, <2>4 DEF Numbered
    <3>4. OfOneUser(b, c.user)'
      BY <1>1, <1>2, <2>1, <3>1, <3>2, <3>3 DEF OfOneUser, Orderly
    <3> QED
      BY <1>2, <2>1, <3>1, <3>2, <3>4 DEF Orderly
  <2> QED
    BY <1>6, <2>3, <2>4 DEF Changes, Asked
<1> QED
  BY <1>4, <1>5, <1>6

\* What the page does with an answer, or with the lack of one.
LEMMA ApplyOrderly ==
    ASSUME NEW b \in Browsers, Orderly(b), Numbered, PageTyped, NEW c \in calls, c.from \in Browsers,
           ApplyUnauthorized(c) \/ ApplyMe(c) \/ ApplyLogout(c) \/ RequestFails(c)
    PROVE  Orderly(b)'
<1>1. /\ UNCHANGED <<sessions, cookie>> /\ calls' = calls \ {c}
      /\ ready' = [ready EXCEPT ![c.from] = @ \/ c.kind = "load"]
  BY DEF ApplyUnauthorized, ApplyMe, ApplyLogout, RequestFails, Ends, database
<1>2. CASE c.from # b
  <2>1. Of(b)' = Of(b)
    BY <1>1, <1>2 DEF Of
  <2>2. SamePage(b)
    BY <1>1, <1>2 DEF SamePage, PageTyped, ApplyUnauthorized, ApplyMe, ApplyLogout, RequestFails, ClearAuthState
  <2> QED
    BY <1>1, <2>1, <2>2, Beside
<1>3. CASE c.from = b
  <2>1. c \in Of(b) /\ Of(b)' = Of(b) \ {c}
    BY <1>1, <1>3 DEF Of
  <2>2. ready'[b] <=> ready[b] \/ c.kind = "load"
    BY <1>1, <1>3 DEF PageTyped
  <2>3. PICK u : OfOneUser(b, u)
    BY DEF Orderly
  <2>4. /\ \A e, f \in Of(b)' : Changes(e.kind) => e = f
        /\ \A e \in Of(b)' : ~Changes(e.kind) => e.sent = cookie'[b]
        /\ \A e \in Of(b)' : e.kind \in Asked => ready'[b] /\ shown[b] = Nobody
        /\ \A e \in Of(b)' : e.kind \in Asked => FALSE
    BY <1>1, <2>1, <2>2 DEF Orderly, Asked, Changes
  <2>5. c.kind # "logout" /\ shown[b] # Nobody /\ (\A e \in Of(b)' : e.kind # "logout") => cookie'[b] # NoCookie
    BY <1>1, <2>1 DEF Orderly
  <2>6. CASE ApplyLogout(c) \/ (ApplyUnauthorized(c) /\ c.kind \in {"load", "me"})
    <3>1. shown'[b] = Nobody /\ history'[b] = Nobody /\ libraries'[b] = Nobody /\ unsure' = unsure
      BY <1>3, <2>6 DEF ApplyLogout, ApplyUnauthorized, ClearAuthState, PageTyped
    <3>2. OfOneUser(b, u)'
      BY <1>1, <2>1, <2>3, <3>1 DEF OfOneUser, Found
    <3> QED
      BY <2>4, <3>1, <3>2 DEF Orderly
  <2>7. CASE ApplyUnauthorized(c) /\ c.kind \notin {"load", "me"}
    <3>1. UNCHANGED <<shown, history, libraries, unsure>> /\ c.kind # "logout" /\ (ready'[b] <=> ready[b])
      BY <2>2, <2>7 DEF ApplyUnauthorized, Numbered, Changes
    <3>2. OfOneUser(b, u)'
      BY <1>1, <2>1, <2>3, <3>1 DEF OfOneUser, Found
    <3> QED
      BY <2>4, <2>5, <3>1, <3>2 DEF Orderly
  <2>8. CASE ApplyMe(c)
    <3>1. /\ shown'[b] = c.user /\ UNCHANGED <<history, unsure>> /\ libraries'[b] \in {Nobody, libraries[b]}
          /\ Found(c)
      BY <1>3, <2>8 DEF ApplyMe, PageTyped, Found
    <3>2. c.user = u /\ cookie[b] # NoCookie
      BY <2>1, <2>3, <3>1 DEF OfOneUser
    <3>3. OfOneUser(b, u)'
      BY <1>1, <2>1, <2>3, <3>1, <3>2 DEF OfOneUser, Found
    <3>4. shown'[b] = Nobody /\ ~unsure'[b] => history'[b] = Nobody /\ libraries'[b] = Nobody
      BY <3>1, <3>2, <3>3 DEF OfOneUser
    <3> QED
      BY <1>1, <2>4, <3>2, <3>3, <3>4 DEF Orderly
  <2>9. CASE RequestFails(c)
    <3>1. /\ UNCHANGED <<shown, history, libraries>> /\ c.kind # "logout"
          /\ (unsure'[b] <=> unsure[b] \/ c.kind = "load")
      BY <1>3, <2>9 DEF RequestFails, PageTyped
    <3>2. OfOneUser(b, u)'
      BY <1>1, <2>1, <2>3, <3>1 DEF OfOneUser, Found
    <3>3. ready'[b] /\ shown'[b] = Nobody /\ ~unsure'[b] => history'[b] = Nobody /\ libraries'[b] = Nobody
      BY <2>2, <3>1 DEF Orderly
    <3> QED
      BY <2>4, <2>5, <3>1, <3>2, <3>3 DEF Orderly
  <2> QED
    BY <2>6, <2>7, <2>8, <2>9
<1> QED
  BY <1>2, <1>3

OneUser == Claims /\ PageTyped /\ Numbered /\ AllOrderly

LEMMA OneUserInit == AccountsInit => OneUser
<1> SUFFICES ASSUME AccountsInit PROVE OneUser
  OBVIOUS
<1>1. PageTyped
  BY DEF AccountsInit, PageTyped
<1>2. Numbered
  <2>1. InRange
    BY DEF AccountsInit, InRange, NoCookie
  <2> QED
    BY <2>1 DEF AccountsInit, Numbered
<1>3. AllOrderly
  <2>1. ASSUME NEW b \in Browsers PROVE Orderly(b)
    <3>1. Of(b) = {} /\ shown[b] = Nobody /\ history[b] = Nobody /\ libraries[b] = Nobody /\ sessions = {}
      BY DEF AccountsInit, Of
    <3>2. OfOneUser(b, Nobody)
      BY <3>1 DEF OfOneUser
    <3> QED
      BY <3>1, <3>2 DEF Orderly
  <2> QED
    BY <2>1 DEF AllOrderly
<1> QED
  BY <1>1, <1>2, <1>3, Initially DEF OneUser

LEMMA PageTypedStep == PageTyped /\ [AccountsNext]_accountVars => PageTyped'
<1> SUFFICES ASSUME PageTyped, [AccountsNext]_accountVars PROVE PageTyped'
  OBVIOUS
<1>1. ASSUME NEW b \in Browsers, NEW e \in Emails, Login(b, e) \/ Register(b, e) PROVE PageTyped'
  BY <1>1 DEF Login, Register, Send, PageTyped
<1>2. ASSUME NEW b \in Browsers, RefreshUser(b) \/ UpdateSettings(b) \/ Logout(b) PROVE PageTyped'
  BY <1>2 DEF RefreshUser, UpdateSettings, Logout, Send, PageTyped
<1>3. ASSUME NEW b \in Browsers, Mount(b) PROVE PageTyped'
  BY <1>3 DEF Mount, PageTyped
<1>4. ASSUME NEW b \in Browsers, Keep(b) PROVE PageTyped'
  BY <1>4 DEF Keep, PageTyped
<1>5. ASSUME NEW c \in calls, Step(c) PROVE PageTyped'
  <2>1. CASE Refuse(c) \/ LookUp(c) \/ CreateUser(c) \/ ClaimLegacyData(c) \/ CreateSession(c)
    BY <2>1 DEF Refuse, LookUp, CreateUser, ClaimLegacyData, CreateSession, page, PageTyped
  <2>2. CASE Serve(c) \/ ServeLogout(c) \/ Arrive(c) \/ Abandoned(c)
    BY <2>2 DEF Serve, ServeLogout, Arrive, Abandoned, page, PageTyped
  <2>3. CASE ApplyUnauthorized(c)
    BY <2>3 DEF ApplyUnauthorized, ClearAuthState, Ends, PageTyped
  <2>4. CASE ApplyMe(c)
    BY <2>4 DEF ApplyMe, Ends, PageTyped
  <2>5. CASE ApplyLogout(c)
    BY <2>5 DEF ApplyLogout, ClearAuthState, Ends, PageTyped
  <2>6. CASE RequestFails(c)
    BY <2>6 DEF RequestFails, Ends, PageTyped
  <2> QED
    BY <1>5, <2>1, <2>2, <2>3, <2>4, <2>5, <2>6 DEF Step
<1>6. ASSUME NEW s \in sessions, Expire(s) PROVE PageTyped'
  BY <1>6 DEF Expire, page, PageTyped
<1>7. CASE UNCHANGED accountVars
  BY <1>7 DEF accountVars, page, PageTyped
<1> QED
  BY <1>1, <1>2, <1>3, <1>4, <1>5, <1>6, <1>7 DEF AccountsNext

\* What another browser sends is none of this one's requests.
LEMMA SendBeside ==
    ASSUME NEW b \in Browsers, NEW a \in Browsers, a # b, Orderly(b), PageTyped, NEW kind, NEW email,
           Send(a, kind, email), UNCHANGED <<database, cookie, shown, ready, history, libraries, unsure>>
    PROVE  Orderly(b)'
<1> DEFINE d == [from |-> a, n |-> sends + 1, kind |-> kind, email |-> email, at |-> "sent",
                 sent |-> cookie[a], user |-> Nobody]
<1>1. d.from = a /\ calls' = calls \union {d}
  BY DEF Send
<1> HIDE DEF d
<1>2. Of(b)' = Of(b)
  BY <1>1 DEF Of
<1> QED
  BY <1>2, Beside DEF SamePage, database

LEMMA AllOrderlyStep ==
    ASSUME OneUser, [AccountsNext]_accountVars
    PROVE  AllOrderly'
<1>0. CallsClaim /\ PageTyped /\ Numbered /\ AllOrderly
  BY DEF OneUser, Claims
<1> SUFFICES ASSUME NEW b \in Browsers, ~crossed'[b] PROVE Orderly(b)'
  BY DEF AllOrderly
<1>1. ASSUME NEW a \in Browsers, Mount(a) PROVE Orderly(b)'
  <2>1. CASE a = b
    BY <1>0, <1>1, <2>1, MountOrderly DEF AllOrderly
  <2>2. CASE a # b
    <3> DEFINE d == [from |-> a, n |-> sends + 1, kind |-> "load", email |-> Nowhere, at |-> "sent",
                     sent |-> cookie[a], user |-> Nobody]
               Left(c) == [c EXCEPT !.from = Nowhere]
    <3>1. d.from = a
      OBVIOUS
    <3>2. ASSUME NEW c \in calls PROVE Left(c).from # b
      <4>1. Fields(c) /\ b # Nowhere
        BY <1>0, AccountsAssumption DEF CallsClaim
      <4> QED
        BY <4>1 DEF Fields
    <3>3. calls' = (calls \ Of(a)) \union {Left(c) : c \in {x \in Of(a) : x.at # "answered"}} \union {d}
      BY <1>1 DEF Mount
    <3> HIDE DEF d, Left
    <3>4. Of(b)' = Of(b)
      <4>1. \A e \in Of(b) : e \in calls'
        BY <2>2, <3>3 DEF Of
      <4>2. ASSUME NEW e \in calls', e.from = b
            PROVE  e \in calls
        <5>1. e \in calls \/ e = d \/ \E c \in calls : e = Left(c)
          BY <3>3 DEF Of
        <5> QED
          BY <2>2, <3>1, <3>2, <4>2, <5>1
      <4> QED
        BY <4>1, <4>2 DEF Of
    <3>5. SamePage(b) /\ sessions' = sessions /\ ~crossed[b]
      BY <1>0, <1>1, <2>2 DEF Mount, database, PageTyped, SamePage
    <3> QED
      BY <1>0, <3>4, <3>5, Beside DEF AllOrderly
  <2> QED
    BY <2>1, <2>2
<1>2. CASE ~\E a \in Browsers : Mount(a)
  <2>1. ~crossed[b]
    BY <1>0, <1>2 DEF AccountsNext, Login, Register, RefreshUser, UpdateSettings, Logout, Keep, Send,
       Step, Refuse, LookUp, CreateUser, ClaimLegacyData, CreateSession, Serve, ServeLogout, Arrive,
       ApplyUnauthorized, ApplyMe, ApplyLogout, RequestFails, Abandoned, Expire, accountVars, page, PageTyped
  <2>2. Orderly(b)
    BY <1>0, <2>1 DEF AllOrderly
  <2>3. ASSUME NEW a \in Browsers, NEW kind, NEW email, Send(a, kind, email),
               UNCHANGED <<database, cookie, shown, ready, history, libraries, unsure>>,
               kind \in Asked => ready[a] /\ shown[a] = Nobody
        PROVE  Orderly(b)'
    <3>1. CASE a = b
      BY <1>0, <2>2, <2>3, <3>1, SendOrderly DEF SamePage, database
    <3>2. CASE a # b
      BY <1>0, <2>2, <2>3, <3>2, SendBeside
    <3> QED
      BY <3>1, <3>2
  <2>4. ASSUME NEW a \in Browsers, NEW e \in Emails, Login(a, e) \/ Register(a, e) PROVE Orderly(b)'
    BY <2>3, <2>4 DEF Login, Register, FormShown
  <2>5. ASSUME NEW a \in Browsers, RefreshUser(a) \/ UpdateSettings(a) \/ Logout(a) PROVE Orderly(b)'
    BY <2>3, <2>5 DEF RefreshUser, UpdateSettings, Logout, Asked
  <2>6. ASSUME NEW a \in Browsers, Keep(a) PROVE Orderly(b)'
    <3>1. Of(b)' = Of(b) /\ UNCHANGED <<sessions, cookie, shown, ready, unsure>>
      BY <2>6 DEF Keep, database, Of
    <3>2. CASE a # b
      <4>1. SamePage(b)
        BY <1>0, <2>6, <3>1, <3>2 DEF Keep, PageTyped, SamePage
      <4> QED
        BY <2>2, <3>1, <4>1, Beside
    <3>3. CASE a = b
      <4>1. PICK u : OfOneUser(b, u)
        BY <2>2 DEF Orderly
      <4>2. /\ shown[b] # Nobody
            /\ history'[b] \in {history[b], shown[b]} /\ libraries'[b] \in {libraries[b], shown[b]}
        BY <1>0, <2>6, <3>3 DEF Keep, PageTyped
      <4>3. OfOneUser(b, u)'
        BY <3>1, <4>1, <4>2 DEF OfOneUser, Found
      <4> QED
        BY <2>2, <3>1, <4>2, <4>3 DEF Orderly
    <3> QED
      BY <3>2, <3>3
  <2>7. ASSUME NEW c \in calls, Step(c) PROVE Orderly(b)'
    <3>1. CASE Abandoned(c)
      <4>1. c.from # b /\ calls' = calls \ {c} /\ UNCHANGED <<sessions, page>>
        BY <3>1, AccountsAssumption DEF Abandoned, database
      <4>2. Of(b)' = Of(b)
        BY <4>1 DEF Of
      <4>3. SamePage(b)
        BY <4>1 DEF page, SamePage
      <4> QED
        BY <2>2, <4>1, <4>2, <4>3, Beside
    <3>2. CASE ApplyUnauthorized(c) \/ ApplyMe(c) \/ ApplyLogout(c) \/ RequestFails(c)
      <4>1. c.from \in Browsers
        BY <3>2 DEF ApplyUnauthorized, ApplyMe, ApplyLogout, RequestFails
      <4> QED
        BY <1>0, <2>2, <3>2, <4>1, ApplyOrderly
    <3> QED
      BY <1>0, <2>2, <2>7, <3>1, <3>2, HandlerOrderly, ArriveOrderly DEF Step
  <2>8. ASSUME NEW s \in sessions, Expire(s) PROVE Orderly(b)'
    <3>1. SamePage(b) /\ Of(b)' = Of(b) /\ sessions' \subseteq sessions
      BY <2>8 DEF Expire, page, SamePage, Of
    <3> QED
      BY <2>2, <3>1, Beside
  <2>9. CASE UNCHANGED accountVars
    <3>1. SamePage(b) /\ Of(b)' = Of(b) /\ sessions' = sessions
      BY <2>9 DEF accountVars, database, page, SamePage, Of
    <3> QED
      BY <2>2, <3>1, Beside
  <2> QED
    BY <1>2, <2>4, <2>5, <2>6, <2>7, <2>8, <2>9 DEF AccountsNext
<1> QED
  BY <1>1, <1>2

LEMMA OneUserStep == OneUser /\ [AccountsNext]_accountVars => OneUser'
<1> SUFFICES ASSUME OneUser, [AccountsNext]_accountVars PROVE OneUser'
  OBVIOUS
<1>1. Claims' /\ PageTyped'
  BY Inductive, PageTypedStep DEF OneUser
<1>2. Numbered'
  BY NumberedStep DEF OneUser, Claims
<1> QED
  BY <1>1, <1>2, AllOrderlyStep DEF OneUser

\* Once all is answered, whoever is on screen is the user of the session in the cookie, however
\* handlers, other browsers, page loads and the end of sessions come in between, unless a change of
\* session overlapped another request of the page (AuthContext.tsx numbers none of them).
THEOREM CookieIsShown == AccountsSpec => []ScreenIsOfTheCookie
<1>1. OneUser => ScreenIsOfTheCookie
  <2> SUFFICES ASSUME OneUser, NEW b \in Browsers, Of(b) = {}, ~crossed[b], shown[b] # Nobody
               PROVE  /\ cookie[b] # NoCookie
                      /\ \A s \in sessions : s.token = cookie[b] => s.user = shown[b]
    BY DEF ScreenIsOfTheCookie
  <2>1. Orderly(b)
    BY DEF OneUser, AllOrderly
  <2>2. PICK u : OfOneUser(b, u)
    BY <2>1 DEF Orderly
  <2> QED
    BY <2>1, <2>2 DEF Orderly, OfOneUser
<1>2. OneUser /\ [AccountsNext]_accountVars => OneUser'
  BY OneUserStep
<1> QED
  BY <1>1, <1>2, OneUserInit, PTL DEF AccountsSpec

\* Searches and libraries that a browser kept are shown to the user whose they are and to nobody
\* else, through any number of logins, logouts and page loads that overlap nothing (clearAuthState).
THEOREM KeptForItsUser == AccountsSpec => []NothingOfAnotherUser
<1>1. OneUser => NothingOfAnotherUser
  <2> SUFFICES ASSUME OneUser, NEW b \in Browsers, ~crossed[b], ~unsure[b], shown[b] # Nobody
               PROVE  {history[b], libraries[b]} \subseteq {Nobody, shown[b]}
    BY DEF NothingOfAnotherUser
  <2>1. PICK u : OfOneUser(b, u)
    BY DEF OneUser, AllOrderly, Orderly
  <2> QED
    BY <2>1 DEF OfOneUser
<1>2. OneUser /\ [AccountsNext]_accountVars => OneUser'
  BY OneUserStep
<1> QED
  BY <1>1, <1>2, OneUserInit, PTL DEF AccountsSpec

------------------------------------------------------------------------------
(***************************************************************************)
(* The libraries of the users.  HiddenStaysHidden is inductive given the   *)
(* types: only UpdateLibrary shows a row again, and a row goes only when   *)
(* no list in hand and no photo names its library.                         *)
(***************************************************************************)
\* Every move of a pass leaves it a record of its type.
LEMMA PassMoves ==
    ASSUME TypeOK, NEW p \in Passes
    PROVE  /\ NoPass \in PassRecords
           /\ \A l \in Phases : Goto(p, l) => pass' \in [Passes -> PassRecords]
           /\ \A ok \in BOOLEAN : Leave(p, ok) => pass' \in [Passes -> PassRecords]
           /\ p[1] \in Users
<1>1. NoPass \in PassRecords
  BY DEF NoPass, PassRecords, Phases
<1>2. pass \in [Passes -> PassRecords] /\ pass[p] \in PassRecords
  BY DEF TypeOK
<1>3. ASSUME NEW l \in Phases, Goto(p, l) PROVE pass' \in [Passes -> PassRecords]
  <2>1. [pass[p] EXCEPT !.phase = l] \in PassRecords
    BY <1>2 DEF PassRecords
  <2>2. pass' = [pass EXCEPT ![p] = [pass[p] EXCEPT !.phase = l]]
    BY <1>3 DEF Goto
  <2> QED
    BY <1>2, <2>1, <2>2
<1>4. ASSUME NEW ok \in BOOLEAN, Leave(p, ok) PROVE pass' \in [Passes -> PassRecords]
  <2> DEFINE end == [pass[p] EXCEPT !.phase = IF ok THEN "mark" ELSE "unmark", !.list = {}, !.left = {}]
  <2>1. end \in PassRecords
    BY <1>2 DEF PassRecords, Phases
  <2>2. pass' = [pass EXCEPT ![p] = IF pass[p].full THEN end ELSE NoPass]
    BY <1>4 DEF Leave
  <2> QED
    BY <1>1, <1>2, <2>1, <2>2
<1>5. p[1] \in Users
  BY DEF Passes
<1> QED
  BY <1>1, <1>3, <1>4, <1>5

\* The slots of a user's runs are passes.
LEMMA RunSlots == \A u \in Users : <<u, "run">> \in Passes
BY DEF Passes

\* The same for the refresh slot of a user that has one.
LEMMA RefreshSlots == \A u \in Refreshers : <<u, "refresh">> \in Passes
BY RefreshersAssumption DEF Passes

\* The counters stay within their bounds.
LEMMA Counting ==
    ASSUME TypeOK
    PROVE  (Edit => edits' \in 0..MaxEdits) /\ (Fails => failures' \in 0..MaxFailures)
BY BoundsAssumption DEF TypeOK, Edit, Fails

\* Every variable keeps its type through the beginnings of runs and requests, the wipe and
\* the asset part of a run.
LEMMA UserTypeOK ==
    ASSUME TypeOK, NEW u \in Users,
           \/ BeginSettings(u) \/ Wipe(u) \/ BeginSync(u) \/ BeginFullSync(u) \/ SyncAssets(u)
           \/ u \in Refreshers /\ BeginRefresh(u)
    PROVE  TypeOK'
<1> DEFINE p == <<u, "run">>
<1>1. p \in Passes
  BY RunSlots
<1>2. /\ NoPass \in PassRecords
      /\ \A l \in Phases : Goto(p, l) => pass' \in [Passes -> PassRecords]
  BY <1>1, PassMoves
<1> HIDE DEF p
<1> USE DEF TypeOK
<1>3. CASE BeginSettings(u)
  <2>1. [NoPass EXCEPT !.phase = "wipe"] \in PassRecords
    BY DEF NoPass, PassRecords, Phases
  <2>2. pass' \in [Passes -> PassRecords]
    BY <1>3, <2>1 DEF BeginSettings
  <2>3. clearing' \in [Users -> {"no", "asked", "reset"}]
    BY <1>3 DEF BeginSettings
  <2> QED
    BY <1>3, <2>2, <2>3, Counting DEF BeginSettings
<1>4. CASE Wipe(u)
  <2>1. pass' \in [Passes -> PassRecords]
    BY <1>4, <1>2 DEF Wipe, Phases, p
  <2>2. tagged' \in [Users -> SUBSET Libs] /\ access' \in [Users -> {"unset", "true", "false"}]
    BY <1>4 DEF Wipe, Unset
  <2>3. failures' \in 0..MaxFailures
    BY <1>4, Counting DEF Wipe
  <2> QED
    BY <1>4, <2>1, <2>2, <2>3 DEF Wipe
<1>5. ASSUME NEW full \in BOOLEAN, BeginRun(u, full) PROVE pass' \in [Passes -> PassRecords]
  <2>1. [NoPass EXCEPT !.phase = "assets", !.full = full] \in PassRecords
    BY DEF NoPass, PassRecords, Phases
  <2> QED
    BY <1>5, <2>1 DEF BeginRun
<1>6. CASE BeginSync(u)
  <2>1. (u \notin synced \/ NeedsBackfill(u)) \in BOOLEAN
    BY DEF NeedsBackfill
  <2>2. pass' \in [Passes -> PassRecords]
    BY <1>6, <1>5, <2>1 DEF BeginSync
  <2> QED
    BY <1>6, <2>2 DEF BeginSync, BeginRun
<1>7. CASE BeginFullSync(u)
  <2>1. pass' \in [Passes -> PassRecords]
    BY <1>7, <1>5 DEF BeginFullSync
  <2> QED
    BY <1>7, <2>1, Counting DEF BeginFullSync, BeginRun
<1>8. CASE SyncAssets(u)
  <2>1. pass' \in [Passes -> PassRecords]
    BY <1>8, <1>2 DEF SyncAssets, Phases, p
  <2>2. tagged' \in [Users -> SUBSET Libs] /\ synced' \subseteq Users
    BY <1>8 DEF SyncAssets
  <2>3. failures' \in 0..MaxFailures
    BY <1>8, Counting DEF SyncAssets
  <2> QED
    BY <1>8, <2>1, <2>2, <2>3 DEF SyncAssets
<1>9. CASE u \in Refreshers /\ BeginRefresh(u)
  <2> DEFINE q == <<u, "refresh">>
  <2>1. q \in Passes
    BY <1>9, RefreshSlots
  <2>2. Goto(q, "check") => pass' \in [Passes -> PassRecords]
    BY <2>1, PassMoves DEF Phases
  <2>3. Goto(q, "check")
    BY <1>9 DEF BeginRefresh
  <2>4. pass' \in [Passes -> PassRecords]
    BY <2>2, <2>3
  <2> QED
    BY <1>9, <2>4, Counting DEF BeginRefresh
<1> QED
  BY <1>3, <1>4, <1>6, <1>7, <1>8, <1>9

\* Every variable keeps its type through the steps of syncLibraries.
LEMMA LibraryTypeOK ==
    ASSUME TypeOK, NEW p \in Passes, LibraryStep(p)
    PROVE  TypeOK'
<1>1. /\ NoPass \in PassRecords
      /\ \A l \in Phases : Goto(p, l) => pass' \in [Passes -> PassRecords]
      /\ \A ok \in BOOLEAN : Leave(p, ok) => pass' \in [Passes -> PassRecords]
      /\ p[1] \in Users
  BY PassMoves
<1>2. pass[p] \in PassRecords
  BY DEF TypeOK
<1> USE DEF TypeOK, Rest
<1>3. CASE Check(p)
  <2>1. pass' \in [Passes -> PassRecords]
    BY <1>3, <1>1 DEF Check, Phases
  <2> QED
    BY <1>3, <2>1 DEF Check
<1>4. CASE Others(p)
  <2>1. pass' \in [Passes -> PassRecords]
    BY <1>4, <1>1 DEF Others, Phases
  <2> QED
    BY <1>4, <2>1 DEF Others
<1>5. CASE Fetch(p)
  <2>1. /\ [pass[p] EXCEPT !.phase = "grant", !.list = immich, !.left = immich] \in PassRecords
        /\ [pass[p] EXCEPT !.phase = "deny"] \in PassRecords
    BY <1>2 DEF PassRecords, Phases
  <2>2. pass' \in [Passes -> PassRecords]
    BY <1>5, <2>1 DEF Fetch
  <2> QED
    BY <1>5, <2>2 DEF Fetch
<1>6. CASE EarlyCallFails(p)
  <2>1. pass' \in [Passes -> PassRecords]
    BY <1>6, <1>1 DEF EarlyCallFails
  <2> QED
    BY <1>6, <2>1, Counting DEF EarlyCallFails
<1>7. CASE Deny(p)
  <2>1. pass' \in [Passes -> PassRecords]
    BY <1>7, <1>1 DEF Deny
  <2> QED
    BY <1>7, <1>1, <2>1, Counting DEF Deny
<1>8. CASE Grant(p)
  <2>1. pass' \in [Passes -> PassRecords]
    BY <1>8, <1>1 DEF Grant, Phases
  <2> QED
    BY <1>8, <1>1, <2>1, Counting DEF Grant
<1>9. CASE \E l \in Libs : UpsertLibrary(p, l)
  <2> PICK l \in Libs : UpsertLibrary(p, l)
    BY <1>9
  <2>1. [pass[p] EXCEPT !.left = @ \ {l}] \in PassRecords
    BY <1>2 DEF PassRecords
  <2>2. pass' \in [Passes -> PassRecords]
    BY <2>1 DEF UpsertLibrary
  <2>3. rows' \in [Libs -> {"none", "shown", "hidden"}]
    BY DEF UpsertLibrary, Upserted
  <2> QED
    BY <2>2, <2>3, Counting DEF UpsertLibrary
<1>10. CASE DeleteStale(p)
  <2>1. pass' \in [Passes -> PassRecords]
    BY <1>10, <1>1 DEF DeleteStale
  <2>2. rows' \in [Libs -> {"none", "shown", "hidden"}] /\ wish' \subseteq Libs
    BY <1>10 DEF DeleteStale
  <2> QED
    BY <1>10, <2>1, <2>2, Counting DEF DeleteStale
<1>11. CASE Mark(p)
  BY <1>11, <1>1, Counting DEF Mark
<1>12. CASE Unmark(p)
  BY <1>12, <1>1, Counting DEF Unmark
<1> QED
  BY <1>3, <1>4, <1>5, <1>6, <1>7, <1>8, <1>9, <1>10, <1>11, <1>12 DEF LibraryStep

\* The types, and what users hid, before the first sync.
LEMMA InitHidden == Init => TypeOK /\ HiddenStaysHidden
BY BoundsAssumption DEF Init, TypeOK, HiddenStaysHidden, Unset, NoPass, PassRecords, Phases

\* Every variable keeps its type through every step.
LEMMA StepTypeOK == TypeOK /\ [Next]_vars => TypeOK'
<1> SUFFICES ASSUME TypeOK, [Next]_vars PROVE TypeOK'
  OBVIOUS
<1>1. ASSUME NEW u \in Users,
             \/ AccountChanges(u) \/ ClearKey(u) \/ BeginSettings(u) \/ BeginFullSync(u)
             \/ BeginSync(u) \/ UserStep(u)
      PROVE  TypeOK'
  <2>1. CASE AccountChanges(u)
    BY <2>1, Counting DEF AccountChanges, TypeOK
  <2>2. CASE ClearKey(u)
    BY <2>2, Counting DEF ClearKey, TypeOK
  <2>3. CASE BeginSettings(u) \/ BeginFullSync(u) \/ BeginSync(u) \/ Wipe(u) \/ SyncAssets(u)
    BY <2>3, UserTypeOK
  <2>4. CASE ResetAccess(u)
    BY <2>4, Counting DEF ResetAccess, TypeOK
  <2> QED
    BY <1>1, <2>1, <2>2, <2>3, <2>4 DEF UserStep
<1>2. ASSUME NEW u \in Refreshers, BeginRefresh(u) PROVE TypeOK'
  BY <1>2, UserTypeOK, RefreshersAssumption
<1>3. ASSUME NEW l \in Libs, LibraryChanges(l) PROVE TypeOK'
  BY <1>3, Counting DEF LibraryChanges, TypeOK
<1>4. ASSUME NEW u \in Users, NEW l \in Libs, NEW hide \in BOOLEAN, UpdateLibrary(u, l, hide)
      PROVE  TypeOK'
  BY <1>4, Counting DEF UpdateLibrary, TypeOK
<1>5. ASSUME NEW p \in Passes, LibraryStep(p) PROVE TypeOK'
  BY <1>5, LibraryTypeOK
<1>6. CASE Crash
  <2>1. NoPass \in PassRecords
    BY DEF NoPass, PassRecords, Phases
  <2>2. clearing' \in [Users -> {"no", "asked", "reset"}]
    BY <1>6 DEF Crash, TypeOK
  <2> QED
    BY <1>6, <2>1, <2>2, Counting DEF Crash, TypeOK
<1>7. CASE UNCHANGED vars
  BY <1>7 DEF vars, TypeOK
<1> QED
  BY <1>1, <1>2, <1>3, <1>4, <1>5, <1>6, <1>7 DEF Next

\* What users hid stays hidden through every step.
LEMMA StepHidden == TypeOK /\ HiddenStaysHidden /\ [Next]_vars => HiddenStaysHidden'
<1> SUFFICES ASSUME TypeOK, HiddenStaysHidden, [Next]_vars PROVE HiddenStaysHidden'
  OBVIOUS
<1> USE DEF HiddenStaysHidden
<1>1. ASSUME rows' = rows, wish' \subseteq wish PROVE HiddenStaysHidden'
  BY <1>1
<1>2. ASSUME NEW u \in Users,
             \/ AccountChanges(u) \/ ClearKey(u) \/ BeginSettings(u) \/ BeginFullSync(u)
             \/ BeginSync(u) \/ UserStep(u)
      PROVE  HiddenStaysHidden'
  BY <1>1, <1>2 DEF AccountChanges, ClearKey, BeginSettings, BeginFullSync, BeginSync, BeginRun,
                    UserStep, ResetAccess, Wipe, SyncAssets
<1>3. ASSUME NEW u \in Refreshers, BeginRefresh(u) PROVE HiddenStaysHidden'
  BY <1>1, <1>3 DEF BeginRefresh
<1>4. ASSUME NEW l \in Libs, LibraryChanges(l) PROVE HiddenStaysHidden'
  BY <1>1, <1>4 DEF LibraryChanges
<1>5. ASSUME NEW u \in Users, NEW l \in Libs, NEW hide \in BOOLEAN, UpdateLibrary(u, l, hide)
      PROVE  HiddenStaysHidden'
  BY <1>5 DEF UpdateLibrary, TypeOK
<1>6. ASSUME NEW p \in Passes, LibraryStep(p) PROVE HiddenStaysHidden'
  <2>1. CASE \E l \in Libs : UpsertLibrary(p, l)
    BY <2>1 DEF UpsertLibrary, Upserted, Rest, TypeOK
  <2>2. CASE DeleteStale(p)
    BY <2>2 DEF DeleteStale, TypeOK
  <2>3. CASE ~(\E l \in Libs : UpsertLibrary(p, l)) /\ ~DeleteStale(p)
    BY <1>1, <1>6, <2>3 DEF LibraryStep, Check, Others, Fetch, EarlyCallFails, Deny, Grant, Mark,
                            Unmark
  <2> QED
    BY <2>1, <2>2, <2>3
<1>7. CASE Crash
  BY <1>1, <1>7 DEF Crash
<1>8. CASE UNCHANGED vars
  BY <1>1, <1>8 DEF vars
<1> QED
  BY <1>2, <1>3, <1>4, <1>5, <1>6, <1>7, <1>8 DEF Next

\* For every set of users and libraries, and whatever fails or crashes, a library that a
\* user hid stays hidden through the refreshes of all users.
THEOREM HiddenTheorem == Spec => [](TypeOK /\ HiddenStaysHidden)
<1>1. TypeOK /\ HiddenStaysHidden /\ [Next]_vars => (TypeOK /\ HiddenStaysHidden)'
  BY StepTypeOK, StepHidden
<1> QED
  BY InitHidden, <1>1, PTL DEF Spec
==============================================================================
