---------------------------- MODULE LibraryAccess ----------------------------
(* Which user may see which library: the rows of user_library, kept by the     *)
(* requests that create, change and delete users and libraries (each a few     *)
(* statements outside of a transaction), by the user command (one              *)
(* transaction), and read by every listing, which leaves the filter out for a  *)
(* user who sees all libraries.                                                *)
EXTENDS Naturals, FiniteSets

CONSTANTS
    Accounts,       \* ids of users
    Workers,        \* requests of administrators that run at a time
    MaxLibraries,   \* bound: libraries ever created
    MaxManaged      \* bound: requests of administrators

ASSUME AccessAssumption == MaxLibraries \in Nat \ {0} /\ MaxManaged \in Nat

VARIABLES
    users,      \* rows of the users: [Accounts -> "none", "regular" or "admin"]
    librarySet, \* rows of the libraries
    lastLibrary,\* the last id given
    defaults,   \* libraries with default_new_users
    access,     \* rows of user_library
    managing,   \* [Workers -> a request in progress]
    listing,    \* [user, copy, all]: a regular user's listing in progress
    managed,
    narrowed,   \* history: administrators that libraries were assigned to by hand
    shifted     \* history: libraries were created or deleted during the listing

accessVars == <<users, librarySet, lastLibrary, defaults, access, managing, listing, managed, narrowed, shifted>>

NoTask == [at |-> "idle", user |-> "", role |-> "none", new |-> FALSE, to |-> {}]
NoListing == [at |-> "idle", user |-> "", copy |-> {}, seen |-> {}]
Granted(u) == {l \in librarySet : <<u, l>> \in access}
Present == {u \in Accounts : users[u] # "none"}

AccessInit ==
    /\ \E first \in Accounts : users = [u \in Accounts |-> IF u = first THEN "admin" ELSE "none"] /\ access = {<<first, 1>>}
    /\ librarySet = {1} /\ lastLibrary = 1 /\ defaults \in SUBSET {1}
    /\ managing = [w \in Workers |-> NoTask] /\ listing = NoListing
    /\ managed = 0 /\ narrowed = {} /\ shifted = FALSE

-----------------------------------------------------------------------------
(* Users: Put writes the row, then assigns libraries                         *)

Begins(w) == managing[w].at = "idle" /\ managed < MaxManaged /\ managed' = managed + 1

PutUser(w, u, role) ==
    /\ Begins(w)
    /\ users' = [users EXCEPT ![u] = role]
    /\ managing' = [managing EXCEPT ![w] = [NoTask EXCEPT !.at = "assign", !.user = u, !.role = role, !.new = users[u] = "none"]]
    /\ narrowed' = IF role = "admin" THEN narrowed \ {u} ELSE narrowed
    /\ UNCHANGED <<librarySet, lastLibrary, defaults, access, listing, shifted>>

\* All libraries for an administrator, the defaults for a new regular user.  The
\* role is the one that was written; a user deleted meanwhile gets nothing.
AssignLibraries(w) ==
    LET u == managing[w].user
    IN  /\ managing[w].at = "assign"
        /\ access' = access \cup {<<u, l>> : l \in {l \in librarySet :
                            /\ u \in Present
                            /\ managing[w].role = "admin" \/ (managing[w].new /\ l \in defaults)}}
        /\ managing' = [managing EXCEPT ![w] = NoTask]
        /\ UNCHANGED <<users, librarySet, lastLibrary, defaults, listing, managed, narrowed, shifted>>

DeleteUser(w, u) ==
    /\ Begins(w) /\ u \in Present
    /\ users' = [users EXCEPT ![u] = "none"]
    /\ access' = {a \in access : a[1] # u}
    /\ narrowed' = narrowed \ {u}
    /\ UNCHANGED <<librarySet, lastLibrary, defaults, managing, listing, shifted>>

\* runUserEdit and runCreateUser, in a transaction of another process.
EditUser(u, role, L) ==
    /\ managed < MaxManaged /\ managed' = managed + 1
    /\ L \subseteq librarySet /\ L # {}
    /\ users' = [users EXCEPT ![u] = role]
    /\ LET to == IF role = "admin" /\ users[u] # "admin" THEN librarySet ELSE L
       IN  /\ access' = {a \in access : a[1] # u} \cup {<<u, l>> : l \in to}
           /\ narrowed' = IF role = "admin" /\ to # librarySet THEN narrowed \cup {u} ELSE narrowed \ {u}
    /\ UNCHANGED <<librarySet, lastLibrary, defaults, managing, listing, shifted>>

-----------------------------------------------------------------------------
(* Libraries                                                                *)

SaveLibrary(w, forNew) ==
    /\ Begins(w) /\ lastLibrary < MaxLibraries
    /\ lastLibrary' = lastLibrary + 1 /\ librarySet' = librarySet \cup {lastLibrary + 1}
    /\ defaults' = IF forNew THEN defaults \cup {lastLibrary + 1} ELSE defaults
    /\ managing' = [managing EXCEPT ![w] = [NoTask EXCEPT !.at = "cross"]]
    /\ shifted' = TRUE
    /\ UNCHANGED <<users, access, listing, narrowed>>

\* All libraries to all administrators.
AssignToAdmins(w) ==
    /\ managing[w].at = "cross"
    /\ access' = access \cup ({u \in Present : users[u] = "admin"} \X librarySet)
    /\ managing' = [managing EXCEPT ![w] = NoTask]
    /\ narrowed' = {}
    /\ UNCHANGED <<users, librarySet, lastLibrary, defaults, listing, managed, shifted>>

DeleteLibrary(w, l) ==
    /\ Begins(w) /\ l \in librarySet \ {1}
    /\ librarySet' = librarySet \ {l} /\ defaults' = defaults \ {l}
    /\ access' = {a \in access : a[2] # l}
    /\ shifted' = TRUE
    /\ UNCHANGED <<users, lastLibrary, managing, listing, narrowed>>

-----------------------------------------------------------------------------
(* SetUserLibraries: checks, then a deletion and an insertion                *)

CheckAssignment(w, u, L) ==
    /\ Begins(w) /\ users[u] = "regular" /\ L # {} /\ L \subseteq librarySet
    /\ managing' = [managing EXCEPT ![w] = [NoTask EXCEPT !.at = "delete", !.user = u, !.to = L]]
    /\ UNCHANGED <<users, librarySet, lastLibrary, defaults, access, listing, narrowed, shifted>>

\* A library that is gone fails the insertion; nothing is inserted then.
SetUserLibraries(w) ==
    LET u == managing[w].user
        L == managing[w].to
        ok == u \in Present /\ L \subseteq librarySet /\ \A l \in L : <<u, l>> \notin access
    IN  /\ \/ /\ managing[w].at = "delete"
              /\ access' = {a \in access : a[1] # u}
              /\ managing' = [managing EXCEPT ![w].at = "insert"]
           \/ /\ managing[w].at = "insert"
              /\ access' = IF ok THEN access \cup ({u} \X L) ELSE access
              /\ managing' = [managing EXCEPT ![w] = NoTask]
        /\ narrowed' = IF users[u] = "admin" THEN narrowed \cup {u} ELSE narrowed
        /\ UNCHANGED <<users, librarySet, lastLibrary, defaults, listing, managed, shifted>>

-----------------------------------------------------------------------------
(* A regular user's listing: the user was loaded with the libraries when the  *)
(* request was authenticated                                                 *)

StartListing(u) ==
    /\ listing.at = "idle" /\ users[u] = "regular"
    /\ listing' = [at |-> "filter", user |-> u, copy |-> Granted(u), seen |-> {}]
    /\ shifted' = FALSE
    /\ UNCHANGED <<users, librarySet, lastLibrary, defaults, access, managing, managed, narrowed>>

\* Mutant: any library of one's own is enough.
userSeesAllLibraries_Any(visible) == visible # {}

userSeesAllLibraries(visible) == Cardinality(visible) = Cardinality(librarySet)

applyLibraryFilter ==
    /\ listing.at = "filter"
    /\ listing' = [listing EXCEPT !.at = IF userSeesAllLibraries(listing.copy) THEN "all" ELSE "own"]
    /\ UNCHANGED <<users, librarySet, lastLibrary, defaults, access, managing, managed, narrowed, shifted>>

ReadListing ==
    /\ listing.at \in {"all", "own"}
    /\ listing' = [listing EXCEPT !.at = "done", !.seen = IF listing.at = "all" THEN librarySet ELSE Granted(listing.user)]
    /\ UNCHANGED <<users, librarySet, lastLibrary, defaults, access, managing, managed, narrowed, shifted>>

EndListing ==
    /\ listing.at = "done" /\ listing' = NoListing /\ shifted' = FALSE
    /\ UNCHANGED <<users, librarySet, lastLibrary, defaults, access, managing, managed, narrowed>>

AccessNext ==
    \/ \E w \in Workers :
          \/ \E u \in Accounts, role \in {"regular", "admin"} : PutUser(w, u, role)
          \/ AssignLibraries(w) \/ AssignToAdmins(w) \/ SetUserLibraries(w)
          \/ \E u \in Accounts : DeleteUser(w, u) \/ \E L \in SUBSET librarySet : CheckAssignment(w, u, L)
          \/ \E forNew \in BOOLEAN : SaveLibrary(w, forNew)
          \/ \E l \in librarySet : DeleteLibrary(w, l)
    \/ \E u \in Accounts, role \in {"regular", "admin"}, L \in SUBSET librarySet : EditUser(u, role, L)
    \/ \E u \in Accounts : StartListing(u)
    \/ applyLibraryFilter \/ ReadListing \/ EndListing

AccessSpec == AccessInit /\ [][AccessNext]_accessVars

-----------------------------------------------------------------------------
(* Properties *)

\* When no request is in progress every administrator has every library, except
\* those that were assigned libraries by hand.
AdminsHaveEveryLibrary ==
    (\A w \in Workers : managing[w].at = "idle") =>
        \A u \in Present : users[u] = "admin" /\ u \notin narrowed => Granted(u) = librarySet

\* A listing shows only libraries that the user had when it began or has when it
\* is read, unless libraries came or went in between.
ListingsShowOnlyGranted ==
    [][listing.at \in {"all", "own"} /\ listing'.at = "done" /\ ~shifted
            => listing'.seen \subseteq listing.copy \cup Granted(listing.user)]_accessVars

\* Users see what they were granted, administrators everything, while users and
\* libraries come and go.
AccessIsAsGranted == []AdminsHaveEveryLibrary /\ ListingsShowOnlyGranted
=============================================================================
