------------------------------ MODULE Accounts ------------------------------
(***************************************************************************)
(* Accounts and sessions: handlersAuth.go, databaseAuth.go and the session *)
(* middleware of main.go on one side, AuthContext.tsx, authApi.ts and the  *)
(* forms of AuthSidebar.tsx on the other.  A request carries the cookie of *)
(* its browser, is served in the steps of its handler, and changes the     *)
(* cookie when its answer arrives; what the page does with the answer is a *)
(* step of its own.  The data of the single user the program once had      *)
(* belongs to __legacy__ until the first registration that can claims it.  *)
(***************************************************************************)
EXTENDS Naturals, FiniteSets

CONSTANTS Browsers, Emails,
          MaxSends       \* bound on the requests

\* Users are numbered as they are created; sessions by the request that created them.
Legacy == 0
Nobody == 0
NoCookie == 0
Nowhere == "nowhere"

ASSUME AccountsAssumption == MaxSends \in Nat /\ Nowhere \notin Browsers

Tables == {"assets", "albums", "albumAssets", "frequentLocations"}

VARIABLES users,     \* the rows of users, __legacy__ apart
          legacy,    \* the row of __legacy__ is there
          owner,     \* owner[t]: the user the rows of the single user belong to
          sessions,  \* the rows of sessions that have not expired
          calls,     \* requests whose answer the page still waits for
          cookie,    \* cookie[b]: the session cookie
          shown,     \* shown[b]: the user in AuthContext
          ready,     \* ready[b]: isLoading is over
          history,   \* history[b]: whose searches are in localStorage
          libraries, \* libraries[b]: whose libraries LibrarySettingsDialog keeps
          crossed,   \* crossed[b]: a change of session overlapped another request
          unsure,    \* unsure[b]: a session was not loaded for another reason than a 401, or a
                     \* page on which one overlapped another request has been loaded again
          sends

database == <<users, legacy, owner, sessions>>
page == <<cookie, shown, ready, history, libraries, crossed, unsure>>
accountVars == <<database, calls, page, sends>>

AccountsInit ==
    /\ users = {} /\ legacy = TRUE
    /\ owner = [t \in Tables |-> Legacy]
    /\ sessions = {}
    /\ calls = {}
    /\ cookie = [b \in Browsers |-> NoCookie]
    /\ shown = [b \in Browsers |-> Nobody]
    /\ ready = [b \in Browsers |-> TRUE]
    /\ history = [b \in Browsers |-> Nobody]
    /\ libraries = [b \in Browsers |-> Nobody]
    /\ crossed = [b \in Browsers |-> FALSE]
    /\ unsure = [b \in Browsers |-> FALSE]
    /\ sends = 0

Of(b) == {c \in calls : c.from = b}
Changes(kind) == kind \in {"login", "register", "logout"}

Send(b, kind, email) ==
    /\ sends < MaxSends
    /\ sends' = sends + 1
    /\ calls' = calls \union {[from |-> b, n |-> sends + 1, kind |-> kind, email |-> email, at |-> "sent",
                               sent |-> cookie[b], user |-> Nobody]}
    /\ crossed' = [crossed EXCEPT ![b] =
                     @ \/ \E c \in Of(b) : Changes(kind) \/ Changes(c.kind)]

\* A form is on screen, and is not submitting.
FormShown(b) == ready[b] /\ shown[b] = Nobody /\ \A c \in Of(b) : c.kind \notin {"login", "register"}

Login(b, e) ==
    /\ FormShown(b)
    /\ Send(b, "login", e)
    /\ UNCHANGED <<database, cookie, shown, ready, history, libraries, unsure>>

Register(b, e) ==
    /\ FormShown(b)
    /\ Send(b, "register", e)
    /\ UNCHANGED <<database, cookie, shown, ready, history, libraries, unsure>>

\* refreshUser, after a sync, a save or a change of the libraries.
RefreshUser(b) ==
    /\ shown[b] # Nobody
    /\ Send(b, "me", Nowhere)
    /\ UNCHANGED <<database, cookie, shown, ready, history, libraries, unsure>>

\* updateAPIKey, updateDawarichSettings, deleteDawarichSettings
UpdateSettings(b) ==
    /\ shown[b] # Nobody
    /\ \E kind \in {"apiKey", "dawarich"} : Send(b, kind, Nowhere)
    /\ UNCHANGED <<database, cookie, shown, ready, history, libraries, unsure>>

\* The menu, or markers that are answered 401.
Logout(b) ==
    /\ shown[b] # Nobody
    /\ Send(b, "logout", Nowhere)
    /\ UNCHANGED <<database, cookie, shown, ready, history, libraries, unsure>>

\* The page is loaded: its requests are gone, what the server does for them is not.
Mount(b) ==
    /\ sends < MaxSends
    /\ sends' = sends + 1
    /\ calls' = (calls \ Of(b))
                  \union {[c EXCEPT !.from = Nowhere] : c \in {d \in Of(b) : d.at # "answered"}}
                  \union {[from |-> b, n |-> sends + 1, kind |-> "load", email |-> Nowhere, at |-> "sent",
                           sent |-> cookie[b], user |-> Nobody]}
    /\ shown' = [shown EXCEPT ![b] = Nobody]
    /\ ready' = [ready EXCEPT ![b] = FALSE]
    /\ libraries' = [libraries EXCEPT ![b] = Nobody]
    /\ crossed' = [crossed EXCEPT ![b] = FALSE]
    /\ unsure' = [unsure EXCEPT ![b] = @ \/ crossed[b]]
    /\ UNCHANGED <<database, cookie, history>>

\* The user searches for a place or opens the libraries, which the browser keeps.
Keep(b) ==
    /\ shown[b] # Nobody
    /\ \/ history' = [history EXCEPT ![b] = shown[b]] /\ UNCHANGED libraries
       \/ libraries' = [libraries EXCEPT ![b] = shown[b]] /\ UNCHANGED history
    /\ UNCHANGED <<database, calls, cookie, shown, ready, crossed, unsure, sends>>

------------------------------------------------------------------------------
\* The server, one step of a handler after the other.

To(c, at, u) == calls' = (calls \ {c}) \union {[c EXCEPT !.at = at, !.user = u]}
Unanswered(c, how) == To(c, how, Nobody)

WithEmail(e) == {u \in users : u.email = e}

\* A request without a token, a database error, a key that cannot be decrypted, an
\* invalid body, an Immich key that Immich refuses, registration that is disabled.
Refuse(c) ==
    /\ c.at \in {"sent", "checked", "created"}
    /\ Unanswered(c, "refused")
    /\ UNCHANGED <<database, page, sends>>

\* handleRegister and handleLogin: the email is looked up; a login compares the password.
LookUp(c) ==
    /\ c.kind \in {"login", "register"} /\ c.at = "sent"
    /\ \/ c.kind = "register" /\ WithEmail(c.email) = {} /\ To(c, "checked", Nobody)
       \/ c.kind = "register" /\ WithEmail(c.email) # {} /\ Unanswered(c, "refused")
       \/ c.kind = "login" /\ WithEmail(c.email) = {} /\ Unanswered(c, "refused")
       \/ \E u \in WithEmail(c.email) : c.kind = "login" /\ To(c, "created", u.id)
    /\ UNCHANGED <<database, page, sends>>

\* createUser: between the look-up and the insert (bcrypt) another request may have
\* inserted the email, which is unique.
CreateUser(c) ==
    /\ c.at = "checked"
    /\ IF WithEmail(c.email) # {}
       THEN Unanswered(c, "refused") /\ UNCHANGED users
       ELSE LET id == Cardinality(users) + 1
            IN  users' = users \union {[id |-> id, email |-> c.email]} /\ To(c, "claiming", id)
    /\ UNCHANGED <<legacy, owner, sessions, page, sends>>

\* Mutant of ClaimLegacyData: what was moved before an error stays moved.
ClaimSome(c) ==
    /\ c.at = "claiming"
    /\ To(c, "created", c.user)
    /\ \E moved \in SUBSET Tables :
         /\ legacy' = (legacy /\ moved # Tables)
         /\ owner' = [t \in Tables |-> IF legacy /\ t \in moved THEN c.user ELSE owner[t]]
    /\ UNCHANGED <<users, sessions, page, sends>>

\* claimLegacyData: one transaction, whose failure is only logged.
ClaimLegacyData(c) ==
    /\ c.at = "claiming"
    /\ To(c, "created", c.user)
    /\ \/ /\ legacy
          /\ legacy' = FALSE
          /\ owner' = [t \in Tables |-> IF owner[t] = Legacy THEN c.user ELSE owner[t]]
       \/ UNCHANGED <<legacy, owner>>
    /\ UNCHANGED <<users, sessions, page, sends>>

\* createSessionForUser.  What follows, the counts of the answer, may fail as well,
\* but the cookie is in its headers.
CreateSession(c) ==
    /\ c.at = "created"
    /\ sessions' = sessions \union {[token |-> c.n, user |-> c.user]}
    /\ To(c, "served", c.user)
    /\ UNCHANGED <<users, legacy, owner, page, sends>>

\* sessionMiddleware, handleMe and the settings handlers (SyncLock, DawarichSync).
Serve(c) ==
    /\ c.kind \in {"load", "me", "apiKey", "dawarich"} /\ c.at = "sent"
    /\ \/ \E s \in sessions : s.token = c.sent /\ To(c, "served", s.user)
       \/ (\A s \in sessions : s.token # c.sent) /\ Unanswered(c, "unauthorized")
    /\ UNCHANGED <<database, page, sends>>

\* handleLogout; an error of deleteSession is not looked at.
ServeLogout(c) ==
    /\ c.kind = "logout" /\ c.at = "sent"
    /\ sessions' \in {sessions, {s \in sessions : s.token # c.sent}}
    /\ Unanswered(c, "served")
    /\ UNCHANGED <<users, legacy, owner, page, sends>>

\* Thirty days are over.
Expire(s) ==
    /\ sessions' = sessions \ {s}
    /\ UNCHANGED <<users, legacy, owner, calls, page, sends>>

------------------------------------------------------------------------------
\* The page.

\* The headers are there, and with them the cookie.
Arrive(c) ==
    /\ c.from \in Browsers /\ c.at = "served"
    /\ To(c, "answered", c.user)
    /\ cookie' = [cookie EXCEPT ![c.from] = CASE c.kind \in {"login", "register"} -> c.n
                                              [] c.kind = "logout" -> NoCookie
                                              [] OTHER -> @]
    /\ UNCHANGED <<database, shown, ready, history, libraries, crossed, unsure, sends>>

Ends(c) == calls' = calls \ {c} /\ ready' = [ready EXCEPT ![c.from] = @ \/ c.kind = "load"]

\* Mutant of ClearAuthState: the user stays on screen.
ClearStorageOnly(b) ==
    /\ history' = [history EXCEPT ![b] = Nobody]
    /\ libraries' = [libraries EXCEPT ![b] = Nobody]
    /\ UNCHANGED shown

\* Mutant of ClearAuthState: what the browser keeps stays.
ClearUserOnly(b) ==
    /\ shown' = [shown EXCEPT ![b] = Nobody]
    /\ UNCHANGED <<history, libraries>>

ClearAuthState(b) ==
    /\ shown' = [shown EXCEPT ![b] = Nobody]
    /\ history' = [history EXCEPT ![b] = Nobody]
    /\ libraries' = [libraries EXCEPT ![b] = Nobody]

\* A 401 ends the session on screen when it answers getMe; the others show its error.
ApplyUnauthorized(c) ==
    /\ c.from \in Browsers /\ c.at = "unauthorized"
    /\ Ends(c)
    /\ \/ c.kind \in {"load", "me"} /\ ClearAuthState(c.from)
       \/ c.kind \notin {"load", "me"} /\ UNCHANGED <<shown, history, libraries>>
    /\ UNCHANGED <<database, cookie, crossed, unsure, sends>>

\* applyMeResponse, whoever is on screen by now; a new API key has other libraries.
ApplyMe(c) ==
    /\ c.from \in Browsers /\ c.at = "answered" /\ c.kind # "logout"
    /\ Ends(c)
    /\ shown' = [shown EXCEPT ![c.from] = c.user]
    /\ libraries' = [libraries EXCEPT ![c.from] = IF c.kind = "apiKey" THEN Nobody ELSE @]
    /\ UNCHANGED <<database, cookie, history, crossed, unsure, sends>>

\* logoutFn, whether the server answered or not.
ApplyLogout(c) ==
    /\ c.from \in Browsers /\ c.kind = "logout"
    /\ Ends(c)
    /\ ClearAuthState(c.from)
    /\ UNCHANGED <<database, cookie, crossed, unsure, sends>>

\* A refusal, a timeout, an answer without a body: the error is shown.
RequestFails(c) ==
    /\ c.from \in Browsers /\ c.kind # "logout"
    /\ Ends(c)
    /\ unsure' = [unsure EXCEPT ![c.from] = @ \/ c.kind = "load"]
    /\ UNCHANGED <<database, cookie, shown, history, libraries, crossed, sends>>

\* The server goes on with a request whose page is gone; nothing waits for the end of it.
Abandoned(c) ==
    /\ c.from = Nowhere /\ c.at \in {"served", "refused", "unauthorized"}
    /\ calls' = calls \ {c}
    /\ UNCHANGED <<database, page, sends>>

Step(c) ==
    \/ Refuse(c) \/ LookUp(c) \/ CreateUser(c) \/ ClaimLegacyData(c) \/ CreateSession(c)
    \/ Serve(c) \/ ServeLogout(c) \/ Arrive(c) \/ ApplyUnauthorized(c) \/ ApplyMe(c)
    \/ ApplyLogout(c) \/ RequestFails(c) \/ Abandoned(c)

AccountsNext ==
    \/ \E b \in Browsers, e \in Emails : Login(b, e) \/ Register(b, e)
    \/ \E b \in Browsers : RefreshUser(b) \/ UpdateSettings(b) \/ Logout(b) \/ Mount(b) \/ Keep(b)
    \/ \E c \in calls : Step(c)
    \/ \E s \in sessions : Expire(s)

AccountsSpec == AccountsInit /\ [][AccountsNext]_accountVars

------------------------------------------------------------------------------
Ids == 0..MaxSends

AccountsTypeOK ==
    /\ users \subseteq [id : Ids, email : Emails]
    /\ legacy \in BOOLEAN
    /\ owner \in [Tables -> Ids]
    /\ sessions \subseteq [token : Ids, user : Ids]
    /\ calls \subseteq [from : Browsers \union {Nowhere}, n : Ids, email : Emails \union {Nowhere},
                        kind : {"login", "register", "logout", "load", "me", "apiKey", "dawarich"},
                        at : {"sent", "checked", "claiming", "created", "served", "refused",
                              "unauthorized", "answered"},
                        sent : Ids, user : Ids]
    /\ {cookie, shown, history, libraries} \subseteq [Browsers -> Ids]
    /\ {ready, crossed, unsure} \subseteq [Browsers -> BOOLEAN]
    /\ sends \in 0..MaxSends

(***************************************************************************)
(* What the single user had belongs to one user, all of it, however        *)
(* registrations overlap; it waits for the next one when a claim fails,    *)
(* and is never left to the row of a user that is gone.                    *)
(***************************************************************************)
LegacyDataStaysTogether ==
    /\ \A t, s \in Tables : owner[t] = owner[s]
    /\ \A t \in Tables : legacy <=> owner[t] = Legacy

(***************************************************************************)
(* When no request is under way, whoever is on screen is the user whose    *)
(* session the browser's cookie is, or that session is over.  A refresh    *)
(* that was sent before a logout and answered after it (AuthContext.tsx:   *)
(* 105) is the exception: nothing numbers or aborts those requests.        *)
(***************************************************************************)
ScreenIsOfTheCookie ==
    \A b \in Browsers : Of(b) = {} /\ ~crossed[b] /\ shown[b] # Nobody =>
        /\ cookie[b] # NoCookie
        /\ \A s \in sessions : s.token = cookie[b] => s.user = shown[b]

(***************************************************************************)
(* Nobody is shown what another user of the browser left in it, his        *)
(* searches and libraries, as long as no change of session overlapped      *)
(* another request, on this page or on one it was loaded after, and every  *)
(* session that was loaded was answered: a load that fails                 *)
(* (AuthContext.tsx:135) clears the user and keeps the rest.               *)
(***************************************************************************)
NothingOfAnotherUser ==
    \A b \in Browsers : ~crossed[b] /\ ~unsure[b] /\ shown[b] # Nobody =>
        {history[b], libraries[b]} \subseteq {Nobody, shown[b]}
==============================================================================
