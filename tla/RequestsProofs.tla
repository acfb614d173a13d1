----------------------------- MODULE RequestsProofs -----------------------------
(***************************************************************************)
(* Proofs about the requests that read and write rows beside each other:   *)
(* LibraryAccess, Shares, PlaylistImport, PlayQueue, UserData,             *)
(* ExternalInfo and MovedTracks.                                           *)
(***************************************************************************)
EXTENDS LibraryAccess, Shares, PlaylistImport, ExternalInfo, UserData, MovedTracks,
        FiniteSetTheorems, WellFoundedInduction, TLAPS

-------------------------------------------------------------------------------
(* LibraryAccess.  An administrator who lacks a library, and was not narrowed  *)
(* by hand, is about to get it: a worker holds the assignment of all libraries *)
(* to the administrator, or of a new library to all administrators.  A listing *)
(* takes the user for one of all libraries only when the copy has all of them, *)
(* as long as no library came or went: the copy is a part of the libraries,    *)
(* and a part of a finite set with as many elements is all of it.              *)

Tasks == [at : {"idle", "assign", "cross", "delete", "insert"}, user : Accounts \cup {""},
          role : {"none", "regular", "admin"}, new : BOOLEAN, to : SUBSET Nat]

AccessTypeOK ==
    /\ users \in [Accounts -> {"none", "regular", "admin"}]
    /\ lastLibrary \in Nat /\ librarySet \in SUBSET (1..lastLibrary)
    /\ managing \in [Workers -> Tasks]

AboutToGet(u) ==
    \E w \in Workers : \/ managing[w].at = "cross"
                       \/ managing[w].at = "assign" /\ managing[w].role = "admin" /\ managing[w].user = u

HasAll(u) == \A l \in librarySet : <<u, l>> \in access

AdminInv ==
    \A u \in Accounts : users[u] = "admin" /\ u \notin narrowed => HasAll(u) \/ AboutToGet(u)

Listings == [at : {"idle", "filter", "all", "own", "done"}, user : Accounts \cup {""}, copy : SUBSET Nat, seen : SUBSET Nat]

ListingInv ==
    /\ listing \in Listings
    /\ listing.at \in {"filter", "all", "own"} /\ ~shifted =>
          /\ listing.copy \subseteq librarySet
          /\ listing.at = "all" => listing.copy = librarySet

AccessInv == AccessTypeOK /\ AdminInv /\ ListingInv

LEMMA AccessInit_Inv ==
    ASSUME AccessInit
    PROVE  AccessInv
<1> USE DEF AccessInit
<1>1. PICK first \in Accounts : users = [u \in Accounts |-> IF u = first THEN "admin" ELSE "none"] /\ access = {<<first, 1>>}
    OBVIOUS
<1>2. AccessTypeOK
    <2>1. NoTask \in Tasks BY DEF NoTask, Tasks
    <2>2. QED BY <1>1, <2>1 DEF AccessTypeOK
<1>3. AdminInv
    <2> SUFFICES ASSUME NEW u \in Accounts, users[u] = "admin" PROVE HasAll(u)
        BY DEF AdminInv
    <2>1. u = first BY <1>1
    <2>2. QED BY <1>1, <2>1 DEF HasAll
<1>4. ListingInv BY DEF ListingInv, NoListing, Listings
<1>5. QED BY <1>2, <1>3, <1>4 DEF AccessInv

\* A worker that takes up a task leaves those of the others.
LEMMA TaskTaken ==
    ASSUME AccessTypeOK, NEW w \in Workers, managing[w].at = "idle", NEW t \in Tasks,
           managing' = [managing EXCEPT ![w] = t]
    PROVE  /\ managing' \in [Workers -> Tasks]
           /\ \A u : AboutToGet(u) => AboutToGet(u)'
           /\ managing'[w] = t
<1>1. managing \in [Workers -> Tasks] BY DEF AccessTypeOK
<1>2. \A x \in Workers : managing'[x] = IF x = w THEN t ELSE managing[x] BY <1>1
<1>3. \A u : AboutToGet(u) => AboutToGet(u)' BY <1>2 DEF AboutToGet
<1>4. QED BY <1>1, <1>2, <1>3

LEMMA ListingStays ==
    ASSUME ListingInv, UNCHANGED <<listing, librarySet, shifted>>
    PROVE  ListingInv'
BY DEF ListingInv

LEMMA PutUser_Inv ==
    ASSUME AccessInv, NEW w \in Workers, NEW a \in Accounts, NEW role \in {"regular", "admin"}, PutUser(w, a, role)
    PROVE  AccessInv'
<1> DEFINE t == [NoTask EXCEPT !.at = "assign", !.user = a, !.role = role, !.new = users[a] = "none"]
<1> USE DEF AccessInv
<1>1. t \in Tasks /\ t.at = "assign" /\ t.role = role /\ t.user = a
    <2>1. (users[a] = "none") \in BOOLEAN OBVIOUS
    <2>2. QED BY <2>1 DEF NoTask, Tasks
<1>2. managing[w].at = "idle" /\ managing' = [managing EXCEPT ![w] = t]
    BY DEF PutUser, Begins
<1> HIDE DEF t
<1>3. /\ managing' \in [Workers -> Tasks] /\ managing'[w] = t
      /\ \A u : AboutToGet(u) => AboutToGet(u)'
    BY <1>1, <1>2, TaskTaken
<1>4. users \in [Accounts -> {"none", "regular", "admin"}] BY DEF AccessTypeOK
<1>5. \A u \in Accounts : users'[u] = IF u = a THEN role ELSE users[u] BY <1>4 DEF PutUser
<1>6. AccessTypeOK' BY <1>3, <1>4 DEF AccessTypeOK, PutUser
<1>7. AdminInv'
    <2> SUFFICES ASSUME NEW u \in Accounts, users'[u] = "admin", u \notin narrowed' PROVE HasAll(u)' \/ AboutToGet(u)'
        BY DEF AdminInv
    <2>1. CASE u = a
        <3>1. role = "admin" BY <2>1, <1>5
        <3>2. QED BY <3>1, <2>1, <1>1, <1>3 DEF AboutToGet
    <2>2. CASE u # a
        <3>1. users[u] = "admin" /\ u \notin narrowed BY <2>2, <1>5 DEF PutUser
        <3>2. HasAll(u) \/ AboutToGet(u) BY <3>1 DEF AdminInv
        <3>3. HasAll(u) => HasAll(u)' BY DEF HasAll, PutUser
        <3>4. QED BY <3>2, <3>3, <1>3
    <2>3. QED BY <2>1, <2>2
<1>8. ListingInv' BY ListingStays DEF PutUser
<1>9. QED BY <1>6, <1>7, <1>8

LEMMA AssignLibraries_Inv ==
    ASSUME AccessInv, NEW w \in Workers, AssignLibraries(w)
    PROVE  AccessInv'
<1> USE DEF AccessInv
<1>1. managing \in [Workers -> Tasks] BY DEF AccessTypeOK
<1>2. \A x \in Workers : managing'[x] = IF x = w THEN NoTask ELSE managing[x] BY <1>1 DEF AssignLibraries
<1>3. AccessTypeOK'
    <2>1. NoTask \in Tasks BY DEF NoTask, Tasks
    <2>2. QED BY <1>1, <2>1 DEF AccessTypeOK, AssignLibraries
<1>4. AdminInv'
    <2> SUFFICES ASSUME NEW u \in Accounts, users[u] = "admin", u \notin narrowed PROVE HasAll(u)' \/ AboutToGet(u)'
        BY DEF AdminInv, AssignLibraries
    <2>1. access \subseteq access' /\ librarySet' = librarySet BY DEF AssignLibraries
    <2>2. CASE HasAll(u) BY <2>1, <2>2 DEF HasAll
    <2>3. CASE managing[w].role = "admin" /\ managing[w].user = u
        <3>1. u \in Present BY DEF Present
        <3>2. \A l \in librarySet : <<u, l>> \in access' BY <3>1, <2>3 DEF AssignLibraries
        <3>3. QED BY <2>1, <3>2 DEF HasAll
    <2>4. CASE ~HasAll(u) /\ ~(managing[w].role = "admin" /\ managing[w].user = u)
        <3>1. AboutToGet(u) BY <2>4 DEF AdminInv
        <3>2. PICK x \in Workers : \/ managing[x].at = "cross"
                                   \/ managing[x].at = "assign" /\ managing[x].role = "admin" /\ managing[x].user = u
            BY <3>1 DEF AboutToGet
        <3>3. x # w BY <3>2, <2>4 DEF AssignLibraries
        <3>4. managing'[x] = managing[x] BY <3>3, <1>2
        <3>5. QED BY <3>2, <3>4 DEF AboutToGet
    <2>5. QED BY <2>2, <2>3, <2>4
<1>5. ListingInv' BY ListingStays DEF AssignLibraries
<1>6. QED BY <1>3, <1>4, <1>5

LEMMA DeleteUser_Inv ==
    ASSUME AccessInv, NEW w \in Workers, NEW a \in Accounts, DeleteUser(w, a)
    PROVE  AccessInv'
<1> USE DEF AccessInv
<1>1. users \in [Accounts -> {"none", "regular", "admin"}] BY DEF AccessTypeOK
<1>2. \A u \in Accounts : users'[u] = IF u = a THEN "none" ELSE users[u] BY <1>1 DEF DeleteUser
<1>3. AccessTypeOK' BY <1>1 DEF AccessTypeOK, DeleteUser
<1>4. AdminInv'
    <2> SUFFICES ASSUME NEW u \in Accounts, users'[u] = "admin", u \notin narrowed' PROVE HasAll(u)' \/ AboutToGet(u)'
        BY DEF AdminInv
    <2>1. u # a /\ users[u] = "admin" /\ u \notin narrowed BY <1>2 DEF DeleteUser
    <2>2. HasAll(u) \/ AboutToGet(u) BY <2>1 DEF AdminInv
    <2>3. HasAll(u) => HasAll(u)' BY <2>1 DEF HasAll, DeleteUser
    <2>4. AboutToGet(u) => AboutToGet(u)' BY DEF AboutToGet, DeleteUser
    <2>5. QED BY <2>2, <2>3, <2>4
<1>5. ListingInv' BY ListingStays DEF DeleteUser
<1>6. QED BY <1>3, <1>4, <1>5

LEMMA EditUser_Inv ==
    ASSUME AccessInv, NEW a \in Accounts, NEW role \in {"regular", "admin"}, NEW L \in SUBSET librarySet, EditUser(a, role, L)
    PROVE  AccessInv'
<1> USE DEF AccessInv
<1> DEFINE to == IF role = "admin" /\ users[a] # "admin" THEN librarySet ELSE L
<1>1. users \in [Accounts -> {"none", "regular", "admin"}] BY DEF AccessTypeOK
<1>2. \A u \in Accounts : users'[u] = IF u = a THEN role ELSE users[u] BY <1>1 DEF EditUser
<1>3. AccessTypeOK' BY <1>1 DEF AccessTypeOK, EditUser
<1>4. /\ access' = {x \in access : x[1] # a} \cup {<<a, l>> : l \in to}
      /\ narrowed' = IF role = "admin" /\ to # librarySet THEN narrowed \cup {a} ELSE narrowed \ {a}
      /\ UNCHANGED <<librarySet, managing>>
    BY DEF EditUser
<1> HIDE DEF to
<1>5. AdminInv'
    <2> SUFFICES ASSUME NEW u \in Accounts, users'[u] = "admin", u \notin narrowed' PROVE HasAll(u)' \/ AboutToGet(u)'
        BY DEF AdminInv
    <2>1. CASE u = a
        <3>1. to = librarySet BY <2>1, <1>2, <1>4
        <3>2. QED BY <2>1, <3>1, <1>4 DEF HasAll
    <2>2. CASE u # a
        <3>1. users[u] = "admin" /\ u \notin narrowed BY <2>2, <1>2, <1>4
        <3>2. HasAll(u) \/ AboutToGet(u) BY <3>1 DEF AdminInv
        <3>3. HasAll(u) => HasAll(u)' BY <2>2, <1>4 DEF HasAll
        <3>4. AboutToGet(u) => AboutToGet(u)' BY <1>4 DEF AboutToGet
        <3>5. QED BY <3>2, <3>3, <3>4
    <2>3. QED BY <2>1, <2>2
<1>6. ListingInv' BY ListingStays DEF EditUser
<1>7. QED BY <1>3, <1>5, <1>6

LEMMA SaveLibrary_Inv ==
    ASSUME AccessInv, NEW w \in Workers, NEW forNew \in BOOLEAN, SaveLibrary(w, forNew)
    PROVE  AccessInv'
<1> DEFINE t == [NoTask EXCEPT !.at = "cross"]
<1> USE DEF AccessInv
<1>1. t \in Tasks /\ t.at = "cross" BY DEF NoTask, Tasks
<1>2. managing[w].at = "idle" /\ managing' = [managing EXCEPT ![w] = t] BY DEF SaveLibrary, Begins
<1> HIDE DEF t
<1>3. managing' \in [Workers -> Tasks] /\ managing'[w] = t BY <1>1, <1>2, TaskTaken
<1>4. AccessTypeOK'
    <2>1. lastLibrary' \in Nat /\ librarySet' \in SUBSET (1..lastLibrary') BY DEF AccessTypeOK, SaveLibrary
    <2>2. QED BY <1>3, <2>1 DEF AccessTypeOK, SaveLibrary
<1>5. AdminInv' BY <1>1, <1>3 DEF AdminInv, AboutToGet
<1>6. ListingInv' BY DEF ListingInv, SaveLibrary
<1>7. QED BY <1>4, <1>5, <1>6

LEMMA AssignToAdmins_Inv ==
    ASSUME AccessInv, NEW w \in Workers, AssignToAdmins(w)
    PROVE  AccessInv'
<1> USE DEF AccessInv
<1>1. AccessTypeOK'
    <2>1. NoTask \in Tasks BY DEF NoTask, Tasks
    <2>2. QED BY <2>1 DEF AccessTypeOK, AssignToAdmins
<1>2. AdminInv'
    <2> SUFFICES ASSUME NEW u \in Accounts, users[u] = "admin" PROVE HasAll(u)'
        BY DEF AdminInv, AssignToAdmins
    <2>1. u \in Present BY DEF Present
    <2>2. QED BY <2>1 DEF HasAll, AssignToAdmins
<1>3. ListingInv' BY ListingStays DEF AssignToAdmins
<1>4. QED BY <1>1, <1>2, <1>3

LEMMA DeleteLibrary_Inv ==
    ASSUME AccessInv, NEW w \in Workers, NEW l \in librarySet, DeleteLibrary(w, l)
    PROVE  AccessInv'
<1> USE DEF AccessInv
<1>1. AccessTypeOK' BY DEF AccessTypeOK, DeleteLibrary
<1>2. AdminInv'
    <2> SUFFICES ASSUME NEW u \in Accounts, users[u] = "admin", u \notin narrowed PROVE HasAll(u)' \/ AboutToGet(u)'
        BY DEF AdminInv, DeleteLibrary
    <2>1. HasAll(u) \/ AboutToGet(u) BY DEF AdminInv
    <2>2. HasAll(u) => HasAll(u)' BY DEF HasAll, DeleteLibrary
    <2>3. AboutToGet(u) => AboutToGet(u)' BY DEF AboutToGet, DeleteLibrary
    <2>4. QED BY <2>1, <2>2, <2>3
<1>3. ListingInv' BY DEF ListingInv, DeleteLibrary
<1>4. QED BY <1>1, <1>2, <1>3

LEMMA CheckAssignment_Inv ==
    ASSUME AccessInv, NEW w \in Workers, NEW a \in Accounts, NEW L \in SUBSET librarySet, CheckAssignment(w, a, L)
    PROVE  AccessInv'
<1> DEFINE t == [NoTask EXCEPT !.at = "delete", !.user = a, !.to = L]
<1> USE DEF AccessInv
<1>1. t \in Tasks
    <2>1. L \in SUBSET Nat BY DEF AccessTypeOK
    <2>2. QED BY <2>1 DEF NoTask, Tasks
<1>2. managing[w].at = "idle" /\ managing' = [managing EXCEPT ![w] = t] BY DEF CheckAssignment, Begins
<1> HIDE DEF t
<1>3. managing' \in [Workers -> Tasks] /\ \A u : AboutToGet(u) => AboutToGet(u)' BY <1>1, <1>2, TaskTaken
<1>4. AccessTypeOK' BY <1>3 DEF AccessTypeOK, CheckAssignment
<1>5. AdminInv'
    <2>1. \A u : HasAll(u)' <=> HasAll(u) BY DEF HasAll, CheckAssignment
    <2>2. UNCHANGED <<users, narrowed>> BY DEF CheckAssignment
    <2>3. QED BY <2>1, <2>2, <1>3 DEF AdminInv
<1>6. ListingInv' BY ListingStays DEF CheckAssignment
<1>7. QED BY <1>4, <1>5, <1>6

LEMMA SetUserLibraries_Inv ==
    ASSUME AccessInv, NEW w \in Workers, SetUserLibraries(w)
    PROVE  AccessInv'
<1> USE DEF AccessInv
<1> DEFINE a == managing[w].user
<1>1. managing \in [Workers -> Tasks] BY DEF AccessTypeOK
<1>2. /\ managing[w].at \in {"delete", "insert"}
      /\ managing' \in [Workers -> Tasks]
      /\ \A x \in Workers \ {w} : managing'[x] = managing[x]
    <2>1. CASE managing[w].at = "delete"
        <3>1. [managing[w] EXCEPT !.at = "insert"] \in Tasks BY <1>1 DEF Tasks
        <3>2. managing' = [managing EXCEPT ![w] = [managing[w] EXCEPT !.at = "insert"]] BY <2>1 DEF SetUserLibraries
        <3>3. QED BY <1>1, <2>1, <3>1, <3>2
    <2>2. CASE managing[w].at # "delete"
        <3>1. NoTask \in Tasks BY DEF NoTask, Tasks
        <3>2. managing[w].at = "insert" /\ managing' = [managing EXCEPT ![w] = NoTask] BY <2>2 DEF SetUserLibraries
        <3>3. QED BY <1>1, <3>1, <3>2
    <2>3. QED BY <2>1, <2>2
<1>3. UNCHANGED <<users, librarySet, lastLibrary, listing, shifted>> BY DEF SetUserLibraries
<1>4. AccessTypeOK' BY <1>2, <1>3 DEF AccessTypeOK
<1>5. \A x \in access : x[1] # a => x \in access' BY DEF SetUserLibraries
<1>6. narrowed \subseteq narrowed' /\ (users[a] = "admin" => a \in narrowed') BY DEF SetUserLibraries
<1> HIDE DEF a
<1>7. AdminInv'
    <2> SUFFICES ASSUME NEW u \in Accounts, users[u] = "admin", u \notin narrowed' PROVE HasAll(u)' \/ AboutToGet(u)'
        BY <1>3 DEF AdminInv
    <2>1. u # a /\ u \notin narrowed BY <1>6
    <2>2. HasAll(u) \/ AboutToGet(u) BY <2>1 DEF AdminInv
    <2>3. HasAll(u) => HasAll(u)' BY <2>1, <1>3, <1>5 DEF HasAll
    <2>4. AboutToGet(u) => AboutToGet(u)'
        <3> SUFFICES ASSUME NEW x \in Workers, \/ managing[x].at = "cross"
                                               \/ managing[x].at = "assign" /\ managing[x].role = "admin" /\ managing[x].user = u
                     PROVE  AboutToGet(u)'
            BY DEF AboutToGet
        <3>1. x # w BY <1>2
        <3>2. managing'[x] = managing[x] BY <3>1, <1>2
        <3>3. QED BY <3>2 DEF AboutToGet
    <2>5. QED BY <2>2, <2>3, <2>4
<1>8. ListingInv' BY <1>3, ListingStays
<1>9. QED BY <1>4, <1>7, <1>8

\* The steps of a listing leave what the other parts of the invariant speak of.
LEMMA OnlyListing ==
    ASSUME AccessTypeOK, AdminInv, UNCHANGED <<users, librarySet, lastLibrary, access, managing, narrowed>>
    PROVE  AccessTypeOK' /\ AdminInv'
<1>1. AccessTypeOK' BY DEF AccessTypeOK
<1>2. \A u : (HasAll(u)' <=> HasAll(u)) /\ (AboutToGet(u)' <=> AboutToGet(u)) BY DEF HasAll, AboutToGet
<1>3. QED BY <1>1, <1>2 DEF AdminInv

\* A part of the libraries with as many elements is all of them.
LEMMA AllBySize ==
    ASSUME AccessTypeOK, NEW visible \in SUBSET librarySet, userSeesAllLibraries(visible)
    PROVE  visible = librarySet
<1>1. IsFiniteSet(1..lastLibrary) BY FS_Interval DEF AccessTypeOK
<1>2. IsFiniteSet(librarySet) BY <1>1, FS_Subset DEF AccessTypeOK
<1>3. QED BY <1>2, FS_Subset DEF userSeesAllLibraries

LEMMA Listing_Inv ==
    ASSUME AccessInv, \/ \E u \in Accounts : StartListing(u)
                      \/ applyLibraryFilter \/ ReadListing \/ EndListing
    PROVE  AccessInv'
<1> USE DEF AccessInv
<1>1. AccessTypeOK' /\ AdminInv'
    BY OnlyListing DEF StartListing, applyLibraryFilter, ReadListing, EndListing
<1>2. ListingInv'
    <2>1. librarySet \subseteq Nat /\ listing \in Listings BY DEF AccessTypeOK, ListingInv
    <2>2. ASSUME NEW u \in Accounts, StartListing(u) PROVE ListingInv'
        <3>1. Granted(u) \subseteq librarySet BY DEF Granted
        <3>2. QED BY <2>1, <2>2, <3>1 DEF StartListing, ListingInv, Listings
    <2>3. CASE applyLibraryFilter
        <3> DEFINE sees == userSeesAllLibraries(listing.copy)
        <3>1. /\ listing.at = "filter" /\ UNCHANGED <<librarySet, shifted>>
              /\ listing' = [listing EXCEPT !.at = IF sees THEN "all" ELSE "own"]
            BY <2>3 DEF applyLibraryFilter
        <3>2. ~shifted => listing.copy \subseteq librarySet BY <3>1 DEF ListingInv
        <3>3. ~shifted /\ sees => listing.copy = librarySet BY <3>2, AllBySize
        <3> HIDE DEF sees
        <3>4. QED BY <2>1, <3>1, <3>2, <3>3 DEF ListingInv, Listings
    <2>4. CASE ReadListing
        <3> DEFINE shown == IF listing.at = "all" THEN librarySet ELSE Granted(listing.user)
        <3>1. shown \in SUBSET Nat BY <2>1 DEF Granted
        <3>2. listing' = [listing EXCEPT !.at = "done", !.seen = shown] BY <2>4 DEF ReadListing
        <3> HIDE DEF shown
        <3>3. QED BY <2>1, <3>1, <3>2 DEF ListingInv, Listings
    <2>5. CASE EndListing BY <2>5 DEF EndListing, ListingInv, NoListing, Listings
    <2>6. QED BY <2>2, <2>3, <2>4, <2>5
<1>3. QED BY <1>1, <1>2

LEMMA AccessNext_Inv ==
    ASSUME AccessInv, [AccessNext]_accessVars
    PROVE  AccessInv'
<1>1. CASE UNCHANGED accessVars
    <2>1. AccessTypeOK' /\ AdminInv' BY <1>1, OnlyListing DEF AccessInv, accessVars
    <2>2. ListingInv' BY <1>1, ListingStays DEF AccessInv, accessVars
    <2>3. QED BY <2>1, <2>2 DEF AccessInv
<1>2. ASSUME NEW w \in Workers,
             \/ \E u \in Accounts, role \in {"regular", "admin"} : PutUser(w, u, role)
             \/ AssignLibraries(w) \/ AssignToAdmins(w) \/ SetUserLibraries(w)
             \/ \E u \in Accounts : DeleteUser(w, u) \/ \E L \in SUBSET librarySet : CheckAssignment(w, u, L)
             \/ \E forNew \in BOOLEAN : SaveLibrary(w, forNew)
             \/ \E l \in librarySet : DeleteLibrary(w, l)
      PROVE  AccessInv'
    BY <1>2, PutUser_Inv, AssignLibraries_Inv, AssignToAdmins_Inv, SetUserLibraries_Inv, DeleteUser_Inv,
       CheckAssignment_Inv, SaveLibrary_Inv, DeleteLibrary_Inv
<1>3. CASE \E u \in Accounts, role \in {"regular", "admin"}, L \in SUBSET librarySet : EditUser(u, role, L)
    BY <1>3, EditUser_Inv
<1>4. CASE \/ \E u \in Accounts : StartListing(u)
           \/ applyLibraryFilter \/ ReadListing \/ EndListing
    BY <1>4, Listing_Inv
<1>5. QED BY <1>1, <1>2, <1>3, <1>4 DEF AccessNext

\* A listing that leaves the filter out shows the user's own libraries.
LEMMA ListingIsGranted ==
    ASSUME AccessInv, [AccessNext]_accessVars,
           listing.at \in {"all", "own"}, listing'.at = "done", ~shifted
    PROVE  listing'.seen \subseteq listing.copy \cup Granted(listing.user)
<1>1. ReadListing
    <2>1. listing' # listing OBVIOUS
    <2>2. QED BY <2>1 DEF AccessNext, accessVars, PutUser, AssignLibraries, AssignToAdmins, SetUserLibraries, DeleteUser,
            CheckAssignment, SaveLibrary, DeleteLibrary, EditUser, StartListing, applyLibraryFilter, EndListing
<1>2. listing'.seen = IF listing.at = "all" THEN librarySet ELSE Granted(listing.user)
    <2>1. listing \in Listings BY DEF AccessInv, ListingInv
    <2>2. QED BY <1>1, <2>1 DEF ReadListing, Listings
<1>3. listing.at = "all" => listing.copy = librarySet BY DEF AccessInv, ListingInv
<1>4. QED BY <1>2, <1>3

\* Administrators have every library when no request is in progress, except
\* those narrowed by hand, and listings show what users were granted: the rows
\* of user_library as persistence/user_repository.go and library_repository.go
\* keep them.
THEOREM AccessIsGranted == AccessSpec => AccessIsAsGranted
<1>1. AccessInit => AccessInv BY AccessInit_Inv
<1>2. AccessInv /\ [AccessNext]_accessVars => AccessInv' BY AccessNext_Inv
<1>3. AccessInv => AdminsHaveEveryLibrary
    <2> SUFFICES ASSUME AccessInv, \A w \in Workers : managing[w].at = "idle",
                        NEW u \in Present, users[u] = "admin", u \notin narrowed
                 PROVE  Granted(u) = librarySet
        BY DEF AdminsHaveEveryLibrary
    <2>1. u \in Accounts BY DEF Present
    <2>2. ~AboutToGet(u) BY DEF AboutToGet
    <2>3. HasAll(u) BY <2>1, <2>2 DEF AccessInv, AdminInv
    <2>4. QED BY <2>3 DEF HasAll, Granted
<1>4. AccessInv /\ [AccessNext]_accessVars =>
        [listing.at \in {"all", "own"} /\ listing'.at = "done" /\ ~shifted
            => listing'.seen \subseteq listing.copy \cup Granted(listing.user)]_accessVars
    BY ListingIsGranted
<1>5. QED BY <1>1, <1>2, <1>3, <1>4, PTL DEF AccessSpec, AccessIsAsGranted, ListingsShowOnlyGranted

-------------------------------------------------------------------------------
(* Shares.  A request keeps what it read from the states it saw: its row, its  *)
(* songs and its owner's libraries each come from one of them, and it goes     *)
(* past the check of the expiry only when the row was live in one of them.     *)
(* The present state is always among those a request under way saw.            *)

Libraries == {LibOf[t] : t \in Tunes}
ShareStores == [rows : [ShareIds -> ShareRow \cup {NoShare}], libs : [Sharers -> SUBSET Libraries],
                gone : SUBSET Tunes, list : SUBSET Tunes, open : BOOLEAN, clock : Nat]
VisitSteps == {"idle", "media", "expiry", "count", "answer", "owner", "file"} \cup Outcomes
Visits == [pc : VisitSteps, kind : {"page", "zip", "stream"}, share : ShareIds \cup {NoShare},
           tune : Tunes \cup {NoShare}, row : ShareRow \cup {NoShare}, tunes : SUBSET Tunes,
           libs : SUBSET Libraries, saw : SUBSET ShareStores]
Links == [tune : Tunes, share : ShareIds, exp : Nat]

UnderWay(r) == r.pc \notin Outcomes \cup {"idle"}

ReadRow(r, d) == d.rows[r.share] = r.row
Allowed(r) ==
    /\ \E d \in r.saw : Live(d, r.share) /\ (r.kind = "zip" => d.rows[r.share].downloadable)
    /\ r.kind = "stream" => /\ \E d \in r.saw : InShare(d, r.row, r.tune)
                            /\ \E d \in r.saw : Reaches(d, r.row, r.tune)
Excused(r, handed) ==
    \E d \in r.saw :
        \/ ~Live(d, r.share)
        \/ r.row # NoShare /\ r.row.expires < d.clock
        \/ \E l \in handed : l.share = r.share /\ l.tune = r.tune /\ l.exp <= d.clock
        \/ ~InShare(d, r.row, r.tune) \/ ~Reaches(d, r.row, r.tune)

\* Of a request r, when the database is s and the links of `handed` are out.
VisitOK(r, s, handed) ==
    /\ r \in Visits
    /\ \A d \in r.saw : d.clock <= s.clock
    /\ UnderWay(r) => /\ r.share \in ShareIds /\ r.row \in ShareRow /\ s \in r.saw
                      /\ r.kind = "stream" => r.tune \in Tunes
                      /\ \E d \in r.saw : ReadRow(r, d)
    /\ r.pc \in {"expiry", "count", "answer", "owner", "file"} => \E d \in r.saw : r.tunes = loadMedia(d, r.row)
    /\ r.pc \in {"count", "answer", "owner", "file"} => \E d \in r.saw : ReadRow(r, d) /\ Live(d, r.share)
    /\ r.pc \in {"count", "answer"} => r.kind # "stream"
    /\ r.pc \in {"owner", "file"} => r.kind = "stream"
    /\ r.pc = "file" => \E d \in r.saw : r.libs = d.libs[r.row.owner]
    /\ r.pc = "served" => Allowed(r)
    /\ r.kind = "stream" /\ r.pc = "refused" => Excused(r, handed)

ShareTypeOK ==
    /\ store \in ShareStores
    /\ wanted \in [ShareIds -> [expires : Nat, downloadable : BOOLEAN] \cup {NoShare}]
    /\ visit \in [Visitors -> Visits]
    /\ links \in SUBSET Links
ShareInv ==
    /\ ShareTypeOK /\ EditsStick
    /\ \A v \in Visitors : VisitOK(visit[v], store, links)

\* A request with one more state seen, or a request that is over, in that state.
LEMMA SeesMore ==
    ASSUME NEW s \in ShareStores, NEW s2 \in ShareStores, s.clock <= s2.clock, NEW handed, NEW more, handed \subseteq more,
           NEW r, VisitOK(r, s, handed)
    PROVE  VisitOK(IF UnderWay(r) THEN [r EXCEPT !.saw = r.saw \cup {s2}] ELSE r, s2, more)
<1>1. r \in Visits BY DEF VisitOK
<1>2. s.clock \in Nat /\ s2.clock \in Nat /\ \A d \in r.saw : d.clock \in Nat BY <1>1 DEF ShareStores, Visits
<1>3. \A d \in r.saw : d.clock <= s2.clock BY <1>2 DEF VisitOK
<1>4. CASE ~UnderWay(r)
    <2>1. r.pc = "served" => Allowed(r) BY DEF VisitOK
    <2>2. r.kind = "stream" /\ r.pc = "refused" => Excused(r, more) BY DEF VisitOK, Excused
    <2>3. r.pc \in Outcomes \cup {"idle"} BY <1>4 DEF UnderWay
    <2>4. QED BY <1>1, <1>3, <1>4, <2>1, <2>2, <2>3 DEF VisitOK, Outcomes
<1>5. CASE UnderWay(r)
    <2> DEFINE q == [r EXCEPT !.saw = r.saw \cup {s2}]
    <2>1. q \in Visits BY <1>1 DEF Visits
    <2>2. /\ q.pc = r.pc /\ q.kind = r.kind /\ q.share = r.share /\ q.tune = r.tune /\ q.row = r.row
          /\ q.tunes = r.tunes /\ q.libs = r.libs /\ q.saw = r.saw \cup {s2}
        BY <1>1 DEF Visits
    <2> HIDE DEF q
    <2>3. \A d \in q.saw : d.clock <= s2.clock BY <1>2, <1>3, <2>2
    <2>4. UnderWay(q) /\ q.pc \notin Outcomes BY <1>5, <2>2 DEF UnderWay
    <2>5. /\ q.share \in ShareIds /\ q.row \in ShareRow /\ s2 \in q.saw
          /\ q.kind = "stream" => q.tune \in Tunes
          /\ \E d \in q.saw : ReadRow(q, d)
        BY <1>5, <2>2 DEF VisitOK, ReadRow
    <2>6. q.pc \in {"expiry", "count", "answer", "owner", "file"} => \E d \in q.saw : q.tunes = loadMedia(d, q.row)
        BY <2>2 DEF VisitOK
    <2>7. q.pc \in {"count", "answer", "owner", "file"} => \E d \in q.saw : ReadRow(q, d) /\ Live(d, q.share)
        BY <2>2 DEF VisitOK, ReadRow
    <2>8. /\ q.pc \in {"count", "answer"} => q.kind # "stream"
          /\ q.pc \in {"owner", "file"} => q.kind = "stream"
          /\ q.pc = "file" => \E d \in q.saw : q.libs = d.libs[q.row.owner]
        BY <2>2 DEF VisitOK
    <2>9. q.pc # "served" /\ q.pc # "refused" BY <2>4 DEF Outcomes
    <2>10. VisitOK(q, s2, more) BY <2>1, <2>3, <2>5, <2>6, <2>7, <2>8, <2>9 DEF VisitOK
    <2>11. QED BY <1>5, <2>10 DEF q
<1>6. QED BY <1>4, <1>5

\* A step of a visitor: it suffices that the visitor's request is in order.
LEMMA VisitorStep ==
    ASSUME ShareInv, NEW v \in Visitors, NEW to, Go(v, to), UNCHANGED <<store, wanted>>,
           links \subseteq links', links' \in SUBSET Links, VisitOK(to, store, links')
    PROVE  ShareInv'
<1> USE DEF ShareInv
<1>1. to \in Visits BY DEF VisitOK
<1>2. ShareTypeOK' BY <1>1 DEF ShareTypeOK, Go
<1>3. EditsStick' BY DEF EditsStick, Settings
<1>4. ASSUME NEW x \in Visitors PROVE VisitOK(visit[x], store, links)'
    <2>1. visit'[x] = IF x = v THEN to ELSE visit[x] BY DEF ShareTypeOK, Go
    <2>2. CASE x = v BY <2>1, <2>2
    <2>3. CASE x # v
        <3>1. VisitOK(visit[x], store, links) OBVIOUS
        <3>2. visit'[x] = visit[x] /\ store' = store BY <2>1, <2>3
        <3>3. \A r : r.kind = "stream" /\ r.pc = "refused" /\ Excused(r, links) => Excused(r, links') BY DEF Excused
        <3>4. VisitOK(visit[x], store, links') BY <3>1, <3>3 DEF VisitOK
        <3>5. QED BY <3>2, <3>4
    <2>4. QED BY <2>2, <2>3
<1>5. QED BY <1>2, <1>3, <1>4

\* A change of the database, which every request under way sees.
LEMMA DatabaseStep ==
    ASSUME ShareInv, NEW d \in ShareStores, Writes(d), store.clock <= d.clock, UNCHANGED links,
           wanted' \in [ShareIds -> [expires : Nat, downloadable : BOOLEAN] \cup {NoShare}], EditsStick'
    PROVE  ShareInv'
<1> USE DEF ShareInv
<1>1. store \in ShareStores /\ links \in SUBSET Links BY DEF ShareTypeOK
<1>2. \A x \in Visitors : visit'[x] = IF UnderWay(visit[x]) THEN [visit[x] EXCEPT !.saw = visit[x].saw \cup {d}] ELSE visit[x]
    BY DEF Writes, Told, UnderWay
<1>3. store' = d BY DEF Writes
<1>4. \A x \in Visitors : VisitOK(visit'[x], d, links) BY <1>1, <1>2, SeesMore
<1>5. \A x \in Visitors : visit'[x] \in Visits BY <1>4 DEF VisitOK
<1>6. visit' = [x \in Visitors |-> visit'[x]] BY DEF Writes, Told
<1>7. visit' \in [Visitors -> Visits] BY <1>5, <1>6
<1>8. ShareTypeOK' BY <1>1, <1>3, <1>7 DEF ShareTypeOK
<1>9. QED BY <1>3, <1>4, <1>8

\* A request that ends, and is neither served nor a refused link, is in order.
LEMMA VisitEnds ==
    ASSUME NEW s, NEW handed, NEW r \in Visits, NEW outcome \in Outcomes, \A d \in r.saw : d.clock <= s.clock,
           outcome = "served" => Allowed(r),
           r.kind = "stream" /\ outcome = "refused" => Excused(r, handed)
    PROVE  VisitOK(Ends(r, outcome), s, handed)
<1> DEFINE q == Ends(r, outcome)
<1>1. q \in Visits BY DEF Ends, Visits, VisitSteps
<1>2. /\ q.pc = outcome /\ q.kind = r.kind /\ q.share = r.share /\ q.tune = r.tune /\ q.row = r.row
      /\ q.tunes = r.tunes /\ q.libs = r.libs /\ q.saw = r.saw
    BY DEF Ends, Visits
<1> HIDE DEF q
<1>3. q.pc = "served" => Allowed(q) BY <1>2 DEF Allowed
<1>4. q.kind = "stream" /\ q.pc = "refused" => Excused(q, handed) BY <1>2 DEF Excused
<1>5. ~UnderWay(q) BY <1>2 DEF UnderWay
<1>6. q.pc \in {"served", "refused", "failed"} BY <1>2 DEF Outcomes
<1>7. VisitOK(q, s, handed) BY <1>1, <1>2, <1>3, <1>4, <1>5, <1>6 DEF VisitOK
<1>8. QED BY <1>7 DEF q

\* What a visitor's action finds.
LEMMA Found_Visit ==
    ASSUME ShareInv, NEW v \in Visitors
    PROVE  /\ store \in ShareStores /\ store.clock \in Nat /\ visit[v] \in Visits
           /\ VisitOK(visit[v], store, links) /\ links \in SUBSET Links
BY DEF ShareInv, ShareTypeOK, ShareStores

LEMMA NoVisit_OK ==
    ASSUME NEW s, NEW handed
    PROVE  NoVisit \in Visits /\ VisitOK(NoVisit, s, handed)
<1>1. NoVisit \in Visits BY DEF NoVisit, Visits, VisitSteps
<1>2. NoVisit.pc = "idle" /\ NoVisit.saw = {} BY DEF NoVisit
<1>3. QED BY <1>1, <1>2 DEF VisitOK, UnderWay

LEMMA handleShares_Inv ==
    ASSUME ShareInv, NEW v \in Visitors, handleShares(v)
    PROVE  ShareInv'
<1>1. PICK s \in ShareIds, k \in {"page", "zip"} :
          Go(v, IF store.rows[s] = NoShare
                THEN Ends([NoVisit EXCEPT !.pc = "media", !.kind = k, !.share = s, !.row = store.rows[s], !.saw = {store}], "refused")
                ELSE [NoVisit EXCEPT !.pc = "media", !.kind = k, !.share = s, !.row = store.rows[s], !.saw = {store}])
    BY DEF handleShares
<1> DEFINE r == [NoVisit EXCEPT !.pc = "media", !.kind = k, !.share = s, !.row = store.rows[s], !.saw = {store}]
<1>2. store \in ShareStores /\ store.clock \in Nat /\ links \in SUBSET Links BY Found_Visit
<1>3. store.rows[s] \in ShareRow \cup {NoShare} BY <1>2 DEF ShareStores
<1>4. /\ r \in Visits /\ r.pc = "media" /\ r.kind = k /\ r.share = s /\ r.row = store.rows[s] /\ r.saw = {store}
    BY <1>2, <1>3 DEF NoVisit, Visits, VisitSteps
<1>5. Go(v, IF store.rows[s] = NoShare THEN Ends(r, "refused") ELSE r) BY <1>1
<1>6. UNCHANGED <<store, wanted, links>> BY DEF handleShares
<1> HIDE DEF r
<1>7. CASE store.rows[s] = NoShare
    <2>1. VisitOK(Ends(r, "refused"), store, links) BY <1>2, <1>4, VisitEnds DEF Outcomes
    <2>2. QED BY <1>2, <1>5, <1>6, <1>7, <2>1, VisitorStep
<1>8. CASE store.rows[s] # NoShare
    <2>1. r.row \in ShareRow BY <1>3, <1>4, <1>8
    <2>2. \E d \in r.saw : ReadRow(r, d) BY <1>4 DEF ReadRow
    <2>3. VisitOK(r, store, links) BY <1>2, <1>4, <2>1, <2>2 DEF VisitOK
    <2>4. QED BY <1>2, <1>5, <1>6, <1>8, <2>3, VisitorStep
<1>9. QED BY <1>7, <1>8

LEMMA handleStream_Inv ==
    ASSUME ShareInv, NEW v \in Visitors, handleStream(v)
    PROVE  ShareInv'
<1>1. PICK l \in links :
          Go(v, IF ~decodeStreamInfo(l) \/ store.rows[l.share] = NoShare
                THEN Ends([NoVisit EXCEPT !.pc = "media", !.kind = "stream", !.share = l.share, !.tune = l.tune,
                                          !.row = store.rows[l.share], !.saw = {store}], "refused")
                ELSE [NoVisit EXCEPT !.pc = "media", !.kind = "stream", !.share = l.share, !.tune = l.tune,
                                     !.row = store.rows[l.share], !.saw = {store}])
    BY DEF handleStream
<1> DEFINE r == [NoVisit EXCEPT !.pc = "media", !.kind = "stream", !.share = l.share, !.tune = l.tune,
                                !.row = store.rows[l.share], !.saw = {store}]
<1>2. store \in ShareStores /\ store.clock \in Nat /\ links \in SUBSET Links BY Found_Visit
<1>3. l.tune \in Tunes /\ l.share \in ShareIds /\ l.exp \in Nat BY <1>2 DEF Links
<1>4. store.rows[l.share] \in ShareRow \cup {NoShare} BY <1>2, <1>3 DEF ShareStores
<1>5. /\ r \in Visits /\ r.pc = "media" /\ r.kind = "stream" /\ r.share = l.share /\ r.tune = l.tune
      /\ r.row = store.rows[l.share] /\ r.saw = {store}
    BY <1>2, <1>3, <1>4 DEF NoVisit, Visits, VisitSteps
<1>6. Go(v, IF ~decodeStreamInfo(l) \/ store.rows[l.share] = NoShare THEN Ends(r, "refused") ELSE r) BY <1>1
<1>7. UNCHANGED <<store, wanted, links>> BY DEF handleStream
<1> HIDE DEF r
<1>8. CASE ~decodeStreamInfo(l) \/ store.rows[l.share] = NoShare
    <2>1. ~decodeStreamInfo(l) => l.exp <= store.clock BY <1>2, <1>3 DEF decodeStreamInfo
    <2>2. store.rows[l.share] = NoShare => ~Live(store, r.share) BY <1>5 DEF Live
    <2>3. Excused(r, links) BY <1>5, <1>8, <2>1, <2>2 DEF Excused
    <2>4. VisitOK(Ends(r, "refused"), store, links) BY <1>2, <1>5, <2>3, VisitEnds DEF Outcomes
    <2>5. QED BY <1>2, <1>6, <1>7, <1>8, <2>4, VisitorStep
<1>9. CASE ~(~decodeStreamInfo(l) \/ store.rows[l.share] = NoShare)
    <2>1. r.row \in ShareRow BY <1>4, <1>5, <1>9
    <2>2. \E d \in r.saw : ReadRow(r, d) BY <1>5 DEF ReadRow
    <2>3. VisitOK(r, store, links) BY <1>2, <1>3, <1>5, <2>1, <2>2 DEF VisitOK
    <2>4. QED BY <1>2, <1>6, <1>7, <1>9, <2>3, VisitorStep
<1>10. QED BY <1>8, <1>9

LEMMA loadMedia_Type ==
    ASSUME NEW d \in ShareStores, NEW row \in ShareRow
    PROVE  loadMedia(d, row) \in SUBSET Tunes
<1> DEFINE here == Tunes \ d.gone
           seen == {t \in here : HasLibraryAccess(row.owner, d.libs[row.owner], t)}
           listed == IF d.open \/ row.owner = ListOwner \/ row.owner \in ShareAdmins THEN d.list \cap seen ELSE {}
<1>1. here \subseteq Tunes /\ seen \subseteq Tunes /\ listed \subseteq Tunes OBVIOUS
<1>2. loadMedia(d, row) = CASE row.kind = "media_file" -> row.ids \cap here
                            [] row.kind = "album" -> here
                            [] row.kind = "artist" -> seen
                            [] row.kind = "playlist" -> listed
    BY DEF loadMedia
<1> HIDE DEF here, seen, listed
<1>3. CASE row.kind = "media_file" BY <1>1, <1>2, <1>3
<1>4. CASE row.kind = "album" BY <1>1, <1>2, <1>4
<1>5. CASE row.kind = "artist" BY <1>1, <1>2, <1>5
<1>6. CASE row.kind = "playlist" BY <1>1, <1>2, <1>6
<1>7. QED BY <1>3, <1>4, <1>5, <1>6 DEF ShareRow, Kinds

LEMMA Get_Inv ==
    ASSUME ShareInv, NEW v \in Visitors, Get(v)
    PROVE  ShareInv'
<1> DEFINE r == visit[v]
           q == [r EXCEPT !.pc = "expiry", !.tunes = loadMedia(store, r.row)]
<1>1. /\ store \in ShareStores /\ store.clock \in Nat /\ r \in Visits
      /\ VisitOK(r, store, links) /\ links \in SUBSET Links
    BY Found_Visit
<1>2. r.pc = "media" /\ Go(v, q) /\ UNCHANGED <<store, wanted, links>> BY DEF Get
<1>3. UnderWay(r) BY <1>2 DEF UnderWay, Outcomes
<1>4. loadMedia(store, r.row) \in SUBSET Tunes
    <2>1. r.row \in ShareRow BY <1>1, <1>3 DEF VisitOK
    <2>2. QED BY <1>1, <2>1, loadMedia_Type
<1>5. q \in Visits BY <1>1, <1>4 DEF Visits, VisitSteps
<1>6. /\ q.pc = "expiry" /\ q.kind = r.kind /\ q.share = r.share /\ q.tune = r.tune /\ q.row = r.row
      /\ q.tunes = loadMedia(store, r.row) /\ q.saw = r.saw
    BY <1>1 DEF Visits
<1> HIDE DEF q, r
<1>7. /\ q.share \in ShareIds /\ q.row \in ShareRow /\ store \in q.saw
      /\ q.kind = "stream" => q.tune \in Tunes
      /\ \E d \in q.saw : ReadRow(q, d)
    BY <1>1, <1>3, <1>6 DEF VisitOK, ReadRow
<1>8. \E d \in q.saw : q.tunes = loadMedia(d, q.row) BY <1>6, <1>7
<1>9. \A d \in q.saw : d.clock <= store.clock BY <1>1, <1>6 DEF VisitOK
<1>10. VisitOK(q, store, links) BY <1>5, <1>6, <1>7, <1>8, <1>9 DEF VisitOK
<1>11. QED BY <1>1, <1>2, <1>10, VisitorStep

LEMMA checkExpired_Inv ==
    ASSUME ShareInv, NEW v \in Visitors, checkExpired(v)
    PROVE  ShareInv'
<1> DEFINE r == visit[v]
           next == IF r.kind = "stream" THEN "owner" ELSE "count"
           q == [r EXCEPT !.pc = next]
<1>1. /\ store \in ShareStores /\ store.clock \in Nat /\ r \in Visits
      /\ VisitOK(r, store, links) /\ links \in SUBSET Links
    BY Found_Visit
<1>2. /\ r.pc = "expiry" /\ UNCHANGED <<store, wanted, links>>
      /\ Go(v, IF r.row.expires < store.clock THEN Ends(r, "refused") ELSE q)
    BY DEF checkExpired
<1>3. UnderWay(r) BY <1>2 DEF UnderWay, Outcomes
<1>4. q \in Visits BY <1>1 DEF Visits, VisitSteps
<1>5. /\ q.pc = next /\ q.kind = r.kind /\ q.share = r.share /\ q.tune = r.tune /\ q.row = r.row
      /\ q.tunes = r.tunes /\ q.saw = r.saw
    BY <1>1 DEF Visits
<1> HIDE DEF q, r
<1>6. \A d \in r.saw : d \in ShareStores /\ d.clock \in Nat /\ d.clock <= store.clock
    BY <1>1 DEF VisitOK, Visits, ShareStores
<1>7. r.row \in ShareRow /\ r.row.expires \in Nat /\ r.row # NoShare /\ store \in r.saw
    BY <1>1, <1>3, SharesAssumption DEF VisitOK, ShareRow
<1>8. CASE r.row.expires < store.clock
    <2>1. Excused(r, links) BY <1>7, <1>8 DEF Excused
    <2>2. VisitOK(Ends(r, "refused"), store, links) BY <1>1, <1>6, <2>1, VisitEnds DEF Outcomes
    <2>3. QED BY <1>1, <1>2, <1>8, <2>2, VisitorStep
<1>9. CASE ~(r.row.expires < store.clock)
    <2>1. /\ q.share \in ShareIds /\ q.row \in ShareRow /\ store \in q.saw
          /\ q.kind = "stream" => q.tune \in Tunes
          /\ \E d \in q.saw : ReadRow(q, d)
        BY <1>1, <1>3, <1>5 DEF VisitOK, ReadRow
    <2>2. PICK d \in q.saw : ReadRow(q, d) BY <2>1
    <2>3. d.clock \in Nat /\ d.clock <= store.clock BY <1>5, <1>6
    <2>4. d.rows[q.share] = r.row BY <1>5, <2>2 DEF ReadRow
    <2>5. Live(d, q.share) BY <1>1, <1>7, <1>9, <2>3, <2>4 DEF Live
    <2>6. \E e \in q.saw : q.tunes = loadMedia(e, q.row) BY <1>1, <1>2, <1>5 DEF VisitOK
    <2>7. \E e \in q.saw : ReadRow(q, e) /\ Live(e, q.share) BY <2>2, <2>5
    <2>8. \A e \in q.saw : e.clock <= store.clock BY <1>5, <1>6
    <2>9. VisitOK(q, store, links)
        <3>1. q.kind = "stream" => q.pc = "owner" BY <1>5
        <3>2. q.kind # "stream" => q.pc = "count" BY <1>5
        <3>3. QED BY <1>4, <2>1, <2>6, <2>7, <2>8, <3>1, <3>2 DEF VisitOK
    <2>10. QED BY <1>1, <1>2, <1>9, <2>9, VisitorStep
<1>10. QED BY <1>8, <1>9

\* A row of a share in which only columns were written.
LEMMA RowWritten ==
    ASSUME NEW s \in ShareStores, NEW i \in ShareIds, NEW row \in ShareRow \cup {NoShare}
    PROVE  /\ [s EXCEPT !.rows[i] = row] \in ShareStores
           /\ [s EXCEPT !.rows[i] = row].clock = s.clock
           /\ \A j \in ShareIds : [s EXCEPT !.rows[i] = row].rows[j] = IF j = i THEN row ELSE s.rows[j]
<1>1. s.rows \in [ShareIds -> ShareRow \cup {NoShare}] BY DEF ShareStores
<1> DEFINE rs == [s.rows EXCEPT ![i] = row]
<1>2. rs \in [ShareIds -> ShareRow \cup {NoShare}] BY <1>1
<1>3. \A j \in ShareIds : rs[j] = IF j = i THEN row ELSE s.rows[j] BY <1>1
<1> HIDE DEF rs
<1>4. [s EXCEPT !.rows = rs] \in ShareStores BY <1>2 DEF ShareStores
<1>5. [s EXCEPT !.rows = rs].clock = s.clock /\ [s EXCEPT !.rows = rs].rows = rs BY DEF ShareStores
<1>6. [s EXCEPT !.rows[i] = row] = [s EXCEPT !.rows = rs] BY DEF rs, ShareStores
<1>7. QED BY <1>3, <1>4, <1>5, <1>6

LEMMA countVisit_Inv ==
    ASSUME ShareInv, NEW v \in Visitors, countVisit(v)
    PROVE  ShareInv'
<1> DEFINE r == visit[v]
           s == r.share
           row == IF store.rows[s] = NoShare THEN NoShare ELSE Visited(store.rows[s], r.row)
           d == [store EXCEPT !.rows[s] = row]
           seeing == [r EXCEPT !.saw = r.saw \cup {d}]
           q == [seeing EXCEPT !.pc = "answer"]
<1>1. /\ store \in ShareStores /\ store.clock \in Nat /\ r \in Visits
      /\ VisitOK(r, store, links) /\ links \in SUBSET Links
    BY Found_Visit
<1>2. r.pc = "count" /\ UNCHANGED <<wanted, links>> BY DEF countVisit
<1>3. UnderWay(r) BY <1>2 DEF UnderWay, Outcomes
<1>4. s \in ShareIds /\ r.row \in ShareRow BY <1>1, <1>3 DEF VisitOK
<1>5. store.rows[s] \in ShareRow \cup {NoShare} BY <1>1, <1>4 DEF ShareStores
<1>6. row \in ShareRow \cup {NoShare} /\ Settings(row) = Settings(store.rows[s])
    <2>1. CASE store.rows[s] = NoShare BY <2>1
    <2>2. CASE store.rows[s] # NoShare
        <3>1. store.rows[s] \in ShareRow BY <1>5, <2>2
        <3>2. r.row.visits + 1 \in Nat BY <1>4 DEF ShareRow
        <3>3. /\ Visited(store.rows[s], r.row) \in ShareRow
              /\ Visited(store.rows[s], r.row).expires = store.rows[s].expires
              /\ Visited(store.rows[s], r.row).downloadable = store.rows[s].downloadable
            BY <3>1, <3>2 DEF Visited, ShareRow
        <3>4. Visited(store.rows[s], r.row) # NoShare BY <3>3, SharesAssumption
        <3>5. QED BY <2>2, <3>3, <3>4 DEF Settings
    <2>3. QED BY <2>1, <2>2
<1>7. store' = d /\ visit' = [Told(d) EXCEPT ![v].pc = "answer"] BY DEF countVisit
<1>8. /\ d \in ShareStores /\ d.clock = store.clock
      /\ \A j \in ShareIds : d.rows[j] = IF j = s THEN row ELSE store.rows[j]
    <2> HIDE DEF row
    <2>1. QED BY <1>1, <1>4, <1>6, RowWritten
<1> HIDE DEF d, row
<1>9. \A x \in Visitors : Told(d)[x] = IF UnderWay(visit[x]) THEN [visit[x] EXCEPT !.saw = visit[x].saw \cup {d}] ELSE visit[x]
    BY DEF Told, UnderWay
<1>10. \A x \in Visitors : VisitOK(visit[x], store, links) /\ store.clock <= d.clock BY <1>1, <1>8 DEF ShareInv
<1>11. \A x \in Visitors : VisitOK(Told(d)[x], d, links) BY <1>1, <1>8, <1>9, <1>10, SeesMore
<1>12. Told(d)[v] = seeing /\ seeing \in Visits BY <1>3, <1>9, <1>11 DEF VisitOK
<1>13. VisitOK(seeing, d, links) /\ seeing.pc = "count" BY <1>1, <1>2, <1>11, <1>12 DEF Visits
<1> HIDE DEF seeing
<1>14. VisitOK(q, d, links)
    <2>1. q \in Visits BY <1>12 DEF Visits, VisitSteps
    <2>2. /\ q.pc = "answer" /\ q.kind = seeing.kind /\ q.share = seeing.share /\ q.tune = seeing.tune
          /\ q.row = seeing.row /\ q.tunes = seeing.tunes /\ q.saw = seeing.saw
        BY <1>12 DEF Visits
    <2> HIDE DEF q
    <2>3. UnderWay(seeing) BY <1>13 DEF UnderWay, Outcomes
    <2>4. /\ q.share \in ShareIds /\ q.row \in ShareRow /\ d \in q.saw /\ q.kind # "stream"
          /\ \E e \in q.saw : ReadRow(q, e)
        BY <1>13, <2>2, <2>3 DEF VisitOK, ReadRow
    <2>5. \E e \in q.saw : q.tunes = loadMedia(e, q.row) BY <1>13, <2>2 DEF VisitOK
    <2>6. \E e \in q.saw : ReadRow(q, e) /\ Live(e, q.share) BY <1>13, <2>2 DEF VisitOK, ReadRow
    <2>7. \A e \in q.saw : e.clock <= d.clock BY <1>13, <2>2 DEF VisitOK
    <2>8. QED BY <2>1, <2>2, <2>4, <2>5, <2>6, <2>7 DEF VisitOK
<1>15. \A x \in Visitors : visit'[x] = IF x = v THEN q ELSE Told(d)[x]
    <2>1. \A x \in Visitors : visit'[x] = IF x = v THEN [Told(d)[v] EXCEPT !.pc = "answer"] ELSE Told(d)[x]
        BY <1>7 DEF Told
    <2>2. QED BY <1>12, <2>1
<1> HIDE DEF q
<1>16. \A x \in Visitors : VisitOK(visit'[x], d, links) BY <1>11, <1>14, <1>15
<1>17. ShareTypeOK'
    <2>1. \A x \in Visitors : visit'[x] \in Visits BY <1>16 DEF VisitOK
    <2>2. visit' = [x \in Visitors |-> visit'[x]] BY <1>7 DEF Told
    <2>3. visit' \in [Visitors -> Visits] BY <2>1, <2>2
    <2>4. QED BY <1>1, <1>2, <1>7, <1>8, <2>3 DEF ShareInv, ShareTypeOK
<1>18. EditsStick'
    <2> SUFFICES ASSUME NEW j \in ShareIds PROVE Settings(store'.rows[j]) = wanted'[j]
        BY DEF EditsStick
    <2>1. Settings(store.rows[j]) = wanted[j] BY DEF ShareInv, EditsStick
    <2>2. store'.rows[j] = IF j = s THEN row ELSE store.rows[j] BY <1>7, <1>8
    <2>3. wanted' = wanted BY <1>2
    <2>4. CASE j = s BY <1>6, <2>1, <2>2, <2>3, <2>4
    <2>5. CASE j # s BY <2>1, <2>2, <2>3, <2>5
    <2>6. QED BY <2>4, <2>5
<1>19. QED BY <1>2, <1>7, <1>16, <1>17, <1>18 DEF ShareInv

LEMMA mapShareInfo_Inv ==
    ASSUME ShareInv, NEW v \in Visitors, mapShareInfo(v)
    PROVE  ShareInv'
<1> DEFINE r == visit[v]
           outcome == IF CoverArtID(r) THEN "served" ELSE "failed"
           given == {encodeMediafileShare(r, t) : t \in r.tunes}
<1>1. /\ store \in ShareStores /\ store.clock \in Nat /\ r \in Visits
      /\ VisitOK(r, store, links) /\ links \in SUBSET Links
    BY Found_Visit
<1>2. /\ r.pc = "answer" /\ r.kind = "page" /\ Go(v, Ends(r, outcome))
      /\ links' = links \cup given /\ UNCHANGED <<store, wanted>>
    BY DEF mapShareInfo
<1>3. outcome \in {"served", "failed"} OBVIOUS
<1> HIDE DEF outcome, r
<1>4. UnderWay(r) BY <1>2 DEF UnderWay, Outcomes
<1>5. given \in SUBSET Links
    <2>1. r.share \in ShareIds /\ r.row.expires \in Nat /\ r.tunes \in SUBSET Tunes
        BY <1>1, <1>4 DEF VisitOK, ShareRow, Visits
    <2>2. QED BY <2>1 DEF encodeMediafileShare, Links
<1> HIDE DEF given
<1>6. Allowed(r) BY <1>1, <1>2 DEF VisitOK, Allowed
<1>7. \A d \in r.saw : d.clock <= store.clock BY <1>1 DEF VisitOK
<1>8. VisitOK(Ends(r, outcome), store, links') BY <1>1, <1>2, <1>3, <1>6, <1>7, VisitEnds DEF Outcomes
<1>9. links \subseteq links' /\ links' \in SUBSET Links BY <1>1, <1>2, <1>5
<1>10. QED BY <1>2, <1>8, <1>9, VisitorStep

LEMMA handleDownloads_Inv ==
    ASSUME ShareInv, NEW v \in Visitors, handleDownloads(v)
    PROVE  ShareInv'
<1> DEFINE r == visit[v]
           outcome == IF r.row.downloadable THEN "served" ELSE "refused"
<1>1. /\ store \in ShareStores /\ store.clock \in Nat /\ r \in Visits
      /\ VisitOK(r, store, links) /\ links \in SUBSET Links
    BY Found_Visit
<1>2. /\ r.pc = "answer" /\ r.kind = "zip" /\ Go(v, Ends(r, outcome)) /\ UNCHANGED <<store, wanted, links>>
    BY DEF handleDownloads
<1>3. outcome \in {"served", "refused"} /\ (outcome = "served" => r.row.downloadable) OBVIOUS
<1> HIDE DEF outcome, r
<1>4. outcome = "served" => Allowed(r)
    <2>1. PICK d \in r.saw : ReadRow(r, d) /\ Live(d, r.share) BY <1>1, <1>2 DEF VisitOK
    <2>2. d.rows[r.share] = r.row BY <2>1 DEF ReadRow
    <2>3. QED BY <1>2, <1>3, <2>1, <2>2 DEF Allowed
<1>5. \A d \in r.saw : d.clock <= store.clock BY <1>1 DEF VisitOK
<1>6. VisitOK(Ends(r, outcome), store, links) BY <1>1, <1>2, <1>3, <1>4, <1>5, VisitEnds DEF Outcomes
<1>7. QED BY <1>1, <1>2, <1>6, VisitorStep

LEMMA readOwner_Inv ==
    ASSUME ShareInv, NEW v \in Visitors, readOwner(v)
    PROVE  ShareInv'
<1> DEFINE r == visit[v]
           theirs == store.libs[r.row.owner]
           q == [r EXCEPT !.pc = "file", !.libs = theirs]
<1>1. /\ store \in ShareStores /\ store.clock \in Nat /\ r \in Visits
      /\ VisitOK(r, store, links) /\ links \in SUBSET Links
    BY Found_Visit
<1>2. r.pc = "owner" /\ Go(v, q) /\ UNCHANGED <<store, wanted, links>> BY DEF readOwner
<1> HIDE DEF r
<1>3. UnderWay(r) BY <1>2 DEF UnderWay, Outcomes
<1>4. theirs \in SUBSET Libraries
    <2>1. r.row.owner \in Sharers BY <1>1, <1>3 DEF VisitOK, ShareRow
    <2>2. QED BY <1>1, <2>1 DEF ShareStores
<1> HIDE DEF theirs
<1>5. q \in Visits BY <1>1, <1>4 DEF Visits, VisitSteps
<1>6. /\ q.pc = "file" /\ q.kind = r.kind /\ q.share = r.share /\ q.tune = r.tune /\ q.row = r.row
      /\ q.tunes = r.tunes /\ q.libs = theirs /\ q.saw = r.saw
    BY <1>1 DEF Visits
<1> HIDE DEF q
<1>7. /\ q.share \in ShareIds /\ q.row \in ShareRow /\ store \in q.saw
      /\ q.kind = "stream" /\ q.tune \in Tunes
      /\ \E d \in q.saw : ReadRow(q, d)
    BY <1>1, <1>2, <1>3, <1>6 DEF VisitOK, ReadRow
<1>8. \E d \in q.saw : q.tunes = loadMedia(d, q.row) BY <1>1, <1>2, <1>6 DEF VisitOK
<1>9. \E d \in q.saw : ReadRow(q, d) /\ Live(d, q.share) BY <1>1, <1>2, <1>6 DEF VisitOK, ReadRow
<1>10. \E d \in q.saw : q.libs = d.libs[q.row.owner] BY <1>6, <1>7 DEF theirs
<1>11. \A d \in q.saw : d.clock <= store.clock BY <1>1, <1>6 DEF VisitOK
<1>12. VisitOK(q, store, links) BY <1>5, <1>6, <1>7, <1>8, <1>9, <1>10, <1>11 DEF VisitOK
<1>13. QED BY <1>1, <1>2, <1>12, VisitorStep

\* The songs of a share are those in it.
LEMMA loadMedia_InShare ==
    ASSUME NEW d \in ShareStores, NEW row \in ShareRow, NEW t \in Tunes
    PROVE  t \in loadMedia(d, row) <=> InShare(d, row, t)
<1>1. row.kind \in Kinds BY DEF ShareRow
<1>2. \A x \in Tunes : HasLibraryAccess(row.owner, d.libs[row.owner], x) <=> Reaches(d, row, x)
    BY DEF HasLibraryAccess, Reaches
<1>3. CASE row.kind = "media_file" BY <1>3 DEF loadMedia, InShare
<1>4. CASE row.kind = "album" BY <1>4 DEF loadMedia, InShare
<1>5. CASE row.kind = "artist" BY <1>2, <1>5 DEF loadMedia, InShare
<1>6. CASE row.kind = "playlist" BY <1>2, <1>6 DEF loadMedia, InShare
<1>7. QED BY <1>1, <1>3, <1>4, <1>5, <1>6 DEF Kinds

LEMMA answerStream_Inv ==
    ASSUME ShareInv, NEW v \in Visitors, answerStream(v)
    PROVE  ShareInv'
<1> DEFINE r == visit[v]
           may == r.tune \in r.tunes /\ HasLibraryAccess(r.row.owner, r.libs, r.tune)
<1>1. /\ store \in ShareStores /\ store.clock \in Nat /\ r \in Visits
      /\ VisitOK(r, store, links) /\ links \in SUBSET Links
    BY Found_Visit
<1>2. r.pc = "file" /\ Go(v, Ends(r, IF may THEN "served" ELSE "refused")) /\ UNCHANGED <<store, wanted, links>>
    BY DEF answerStream
<1> HIDE DEF r
<1>3. UnderWay(r) BY <1>2 DEF UnderWay, Outcomes
<1>4. r.row \in ShareRow /\ r.kind = "stream" /\ r.tune \in Tunes BY <1>1, <1>2, <1>3 DEF VisitOK
<1>5. \A d \in r.saw : d \in ShareStores /\ d.clock <= store.clock BY <1>1 DEF VisitOK, Visits
<1>6. PICK d \in r.saw : r.tunes = loadMedia(d, r.row) BY <1>1, <1>2 DEF VisitOK
<1>7. PICK e \in r.saw : r.libs = e.libs[r.row.owner] BY <1>1, <1>2 DEF VisitOK
<1>8. r.tune \in r.tunes <=> InShare(d, r.row, r.tune) BY <1>4, <1>5, <1>6, loadMedia_InShare
<1>9. HasLibraryAccess(r.row.owner, r.libs, r.tune) <=> Reaches(e, r.row, r.tune) BY <1>7 DEF HasLibraryAccess, Reaches
<1>10. may => Allowed(r)
    <2>1. \E x \in r.saw : Live(x, r.share) BY <1>1, <1>2 DEF VisitOK
    <2>2. QED BY <1>4, <1>8, <1>9, <2>1 DEF Allowed
<1>11. ~may => Excused(r, links) BY <1>8, <1>9 DEF Excused
<1> HIDE DEF may
<1>12. VisitOK(Ends(r, IF may THEN "served" ELSE "refused"), store, links)
    <2>1. CASE may BY <1>1, <1>5, <1>10, <2>1, VisitEnds DEF Outcomes
    <2>2. CASE ~may BY <1>1, <1>5, <1>11, <2>2, VisitEnds DEF Outcomes
    <2>3. QED BY <2>1, <2>2
<1>13. QED BY <1>1, <1>2, <1>12, VisitorStep

LEMMA Leave_Inv ==
    ASSUME ShareInv, NEW v \in Visitors, Leave(v)
    PROVE  ShareInv'
<1>1. Go(v, NoVisit) /\ UNCHANGED <<store, wanted, links>> BY DEF Leave
<1>2. links \in SUBSET Links BY Found_Visit
<1>3. VisitOK(NoVisit, store, links) BY NoVisit_OK
<1>4. QED BY <1>1, <1>2, <1>3, VisitorStep

\* A change of one share by a user, who says how it shall be from now on.
LEMMA ShareWritten ==
    ASSUME ShareInv, NEW s \in ShareIds, NEW row \in ShareRow \cup {NoShare},
           Writes([store EXCEPT !.rows[s] = row]), wanted' = [wanted EXCEPT ![s] = Settings(row)], UNCHANGED links
    PROVE  ShareInv'
<1> DEFINE d == [store EXCEPT !.rows[s] = row]
<1>1. store \in ShareStores /\ wanted \in [ShareIds -> [expires : Nat, downloadable : BOOLEAN] \cup {NoShare}]
    BY DEF ShareInv, ShareTypeOK
<1>2. /\ d \in ShareStores /\ d.clock = store.clock
      /\ \A j \in ShareIds : d.rows[j] = IF j = s THEN row ELSE store.rows[j]
    BY <1>1, RowWritten
<1>3. store' = d BY DEF Writes
<1>4. Writes(d) OBVIOUS
<1> HIDE DEF d
<1>5. store.clock <= d.clock BY <1>1, <1>2 DEF ShareStores
<1>6. Settings(row) \in [expires : Nat, downloadable : BOOLEAN] \cup {NoShare} BY DEF Settings, ShareRow
<1>7. wanted' \in [ShareIds -> [expires : Nat, downloadable : BOOLEAN] \cup {NoShare}] BY <1>1, <1>6
<1>8. EditsStick'
    <2> SUFFICES ASSUME NEW j \in ShareIds PROVE Settings(store'.rows[j]) = wanted'[j]
        BY DEF EditsStick
    <2>1. Settings(store.rows[j]) = wanted[j] BY DEF ShareInv, EditsStick
    <2>2. wanted'[j] = IF j = s THEN Settings(row) ELSE wanted[j] BY <1>1
    <2>3. store'.rows[j] = IF j = s THEN row ELSE store.rows[j] BY <1>2, <1>3
    <2>4. QED BY <2>1, <2>2, <2>3
<1>9. QED BY <1>2, <1>4, <1>5, <1>7, <1>8, DatabaseStep

LEMMA Save_Inv ==
    ASSUME ShareInv, NEW u \in Sharers, Save(u)
    PROVE  ShareInv'
<1>1. store.clock \in Nat BY DEF ShareInv, ShareTypeOK, ShareStores
<1>2. PICK s \in ShareIds, k \in Kinds, ids \in Picks, e \in {0, 1}, dl \in BOOLEAN :
          LET row == [owner |-> u, kind |-> k, ids |-> ids, downloadable |-> dl, visits |-> 0,
                      expires |-> IF e = 0 THEN store.clock + DefaultExpiration ELSE store.clock + e]
          IN  /\ wanted[s] = NoShare /\ store.rows[s] = NoShare
              /\ k = "media_file" \/ ids = Tunes
              /\ \E t \in ids \ store.gone : HasLibraryAccess(u, store.libs[u], t)
              /\ Writes([store EXCEPT !.rows[s] = row])
              /\ wanted' = [wanted EXCEPT ![s] = Settings(row)]
    BY Zenon DEF Save
<1> DEFINE expires == IF e = 0 THEN store.clock + DefaultExpiration ELSE store.clock + e
           row == [owner |-> u, kind |-> k, ids |-> ids, downloadable |-> dl, visits |-> 0, expires |-> expires]
<1>3. expires \in Nat BY <1>1, SharesAssumption
<1>4. Writes([store EXCEPT !.rows[s] = row]) /\ wanted' = [wanted EXCEPT ![s] = Settings(row)] BY <1>2
<1> HIDE DEF expires
<1>5. row \in ShareRow BY <1>3, SharesAssumption DEF ShareRow
<1> HIDE DEF row
<1>6. UNCHANGED links BY DEF Save
<1>7. QED BY <1>4, <1>5, <1>6, ShareWritten

LEMMA Update_Inv ==
    ASSUME ShareInv, NEW u \in Sharers, NEW downloads \in SUBSET BOOLEAN, Update(u, downloads)
    PROVE  ShareInv'
<1>1. store \in ShareStores BY DEF ShareInv, ShareTypeOK
<1>2. PICK s \in ShareIds, e \in 0..(MaxShareTime + 1), dl \in downloads :
          LET new == [store.rows[s] EXCEPT !.downloadable = dl, !.expires = IF e = 0 THEN store.rows[s].expires ELSE e]
          IN  /\ MayWrite(u, store.rows[s])
              /\ Writes([store EXCEPT !.rows[s] = new])
              /\ wanted' = [wanted EXCEPT ![s] = Settings(new)]
    BY DEF Update
<1> DEFINE expires == IF e = 0 THEN store.rows[s].expires ELSE e
           new == [store.rows[s] EXCEPT !.downloadable = dl, !.expires = expires]
<1>3. store.rows[s] \in ShareRow BY <1>1, <1>2 DEF ShareStores, MayWrite
<1>4. expires \in Nat BY <1>3, SharesAssumption DEF ShareRow
<1>5. Writes([store EXCEPT !.rows[s] = new]) /\ wanted' = [wanted EXCEPT ![s] = Settings(new)] BY <1>2
<1> HIDE DEF expires
<1>6. new \in ShareRow BY <1>3, <1>4 DEF ShareRow
<1> HIDE DEF new
<1>7. UNCHANGED links BY DEF Update
<1>8. QED BY <1>5, <1>6, <1>7, ShareWritten

LEMMA Delete_Inv ==
    ASSUME ShareInv, NEW u \in Sharers, Delete(u)
    PROVE  ShareInv'
<1>1. PICK s \in ShareIds : Writes([store EXCEPT !.rows[s] = NoShare]) /\ wanted' = [wanted EXCEPT ![s] = NoShare]
    BY DEF Delete
<1>2. Settings(NoShare) = NoShare BY DEF Settings
<1>3. UNCHANGED links BY DEF Delete
<1>4. QED BY <1>1, <1>2, <1>3, ShareWritten

\* A change of anything but the shares.
LEMMA RowsStay ==
    ASSUME ShareInv, NEW d \in ShareStores, Writes(d), d.rows = store.rows, store.clock <= d.clock, UNCHANGED <<wanted, links>>
    PROVE  ShareInv'
<1>1. store' = d BY DEF Writes
<1>2. EditsStick' BY <1>1 DEF ShareInv, EditsStick
<1>3. wanted' \in [ShareIds -> [expires : Nat, downloadable : BOOLEAN] \cup {NoShare}] BY DEF ShareInv, ShareTypeOK
<1>4. QED BY <1>2, <1>3, DatabaseStep

LEMMA Elsewhere_Inv ==
    ASSUME ShareInv, Elsewhere
    PROVE  ShareInv'
<1>1. store \in ShareStores /\ store.clock \in Nat BY DEF ShareInv, ShareTypeOK, ShareStores
<1>2. UNCHANGED <<wanted, links>> BY DEF Elsewhere
<1>3. ASSUME NEW t \in Tunes, Writes([store EXCEPT !.gone = Toggled(store.gone, t)]) PROVE ShareInv'
    <2> DEFINE x == Toggled(store.gone, t)
               d == [store EXCEPT !.gone = x]
    <2>1. x \in SUBSET Tunes BY <1>1 DEF ShareStores, Toggled
    <2>2. Writes(d) BY <1>3
    <2> HIDE DEF x
    <2>3. d \in ShareStores /\ d.rows = store.rows /\ d.clock = store.clock BY <1>1, <2>1 DEF ShareStores
    <2> HIDE DEF d
    <2>4. QED BY <1>1, <1>2, <2>2, <2>3, RowsStay
<1>4. ASSUME NEW t \in Tunes, Writes([store EXCEPT !.list = Toggled(store.list, t)]) PROVE ShareInv'
    <2> DEFINE x == Toggled(store.list, t)
               d == [store EXCEPT !.list = x]
    <2>1. x \in SUBSET Tunes BY <1>1 DEF ShareStores, Toggled
    <2>2. Writes(d) BY <1>4
    <2> HIDE DEF x
    <2>3. d \in ShareStores /\ d.rows = store.rows /\ d.clock = store.clock BY <1>1, <2>1 DEF ShareStores
    <2> HIDE DEF d
    <2>4. QED BY <1>1, <1>2, <2>2, <2>3, RowsStay
<1>5. ASSUME Writes([store EXCEPT !.open = ~store.open]) PROVE ShareInv'
    <2> DEFINE x == ~store.open
               d == [store EXCEPT !.open = x]
    <2>1. x \in BOOLEAN OBVIOUS
    <2>2. Writes(d) BY <1>5
    <2> HIDE DEF x
    <2>3. d \in ShareStores /\ d.rows = store.rows /\ d.clock = store.clock BY <1>1, <2>1 DEF ShareStores
    <2> HIDE DEF d
    <2>4. QED BY <1>1, <1>2, <2>2, <2>3, RowsStay
<1>6. ASSUME NEW u \in Sharers, NEW t \in Tunes, Writes([store EXCEPT !.libs[u] = Toggled(store.libs[u], LibOf[t])]) PROVE ShareInv'
    <2> DEFINE x == [store.libs EXCEPT ![u] = Toggled(store.libs[u], LibOf[t])]
               d == [store EXCEPT !.libs = x]
    <2>1. x \in [Sharers -> SUBSET Libraries]
        <3>1. LibOf[t] \in Libraries BY DEF Libraries
        <3>2. store.libs \in [Sharers -> SUBSET Libraries] BY <1>1 DEF ShareStores
        <3>3. Toggled(store.libs[u], LibOf[t]) \in SUBSET Libraries BY <3>1, <3>2 DEF Toggled
        <3>4. QED BY <3>2, <3>3
    <2>2. [store EXCEPT !.libs[u] = Toggled(store.libs[u], LibOf[t])] = d BY <1>1 DEF ShareStores
    <2>3. Writes(d) BY <1>6, <2>2
    <2> HIDE DEF x
    <2>4. d \in ShareStores /\ d.rows = store.rows /\ d.clock = store.clock BY <1>1, <2>1 DEF ShareStores
    <2> HIDE DEF d
    <2>5. QED BY <1>1, <1>2, <2>3, <2>4, RowsStay
<1>7. QED BY <1>3, <1>4, <1>5, <1>6 DEF Elsewhere

LEMMA TimePasses_Inv ==
    ASSUME ShareInv, TimePasses
    PROVE  ShareInv'
<1> DEFINE x == store.clock + 1
           d == [store EXCEPT !.clock = x]
<1>1. store \in ShareStores /\ store.clock \in Nat BY DEF ShareInv, ShareTypeOK, ShareStores
<1>2. x \in Nat /\ store.clock <= x BY <1>1
<1>3. Writes(d) /\ UNCHANGED <<wanted, links>> BY DEF TimePasses
<1> HIDE DEF x
<1>4. d \in ShareStores /\ d.rows = store.rows /\ d.clock = x BY <1>1, <1>2 DEF ShareStores
<1> HIDE DEF d
<1>5. QED BY <1>2, <1>3, <1>4, RowsStay

LEMMA ShareInit_Inv ==
    ASSUME ShareInit
    PROVE  ShareInv
<1> USE DEF ShareInit
<1>1. store \in ShareStores BY DEF ShareStores, Libraries
<1>2. \A s \in ShareIds : store.rows[s] = NoShare /\ wanted[s] = NoShare OBVIOUS
<1>3. EditsStick BY <1>2 DEF EditsStick, Settings
<1>4. \A v \in Visitors : visit[v] = NoVisit OBVIOUS
<1>5. NoVisit \in Visits /\ VisitOK(NoVisit, store, links) BY NoVisit_OK
<1>6. ShareTypeOK BY <1>1, <1>5 DEF ShareTypeOK
<1>7. QED BY <1>3, <1>4, <1>5, <1>6 DEF ShareInv

LEMMA ShareNext_Inv ==
    ASSUME ShareInv, [ShareNext]_shareVars
    PROVE  ShareInv'
<1>1. CASE UNCHANGED shareVars
    <2>1. ShareTypeOK' BY <1>1 DEF ShareInv, ShareTypeOK, shareVars
    <2>2. EditsStick' BY <1>1 DEF ShareInv, EditsStick, shareVars
    <2>3. UNCHANGED <<visit, store, links>> BY <1>1 DEF shareVars
    <2>4. \A v \in Visitors : VisitOK(visit[v], store, links)' BY <2>3 DEF ShareInv
    <2>5. QED BY <2>1, <2>2, <2>4 DEF ShareInv
<1>2. ASSUME NEW v \in Visitors,
             \/ handleShares(v) \/ handleStream(v) \/ Get(v) \/ checkExpired(v) \/ countVisit(v)
             \/ mapShareInfo(v) \/ handleDownloads(v) \/ readOwner(v) \/ answerStream(v) \/ Leave(v)
      PROVE  ShareInv'
    BY <1>2, handleShares_Inv, handleStream_Inv, Get_Inv, checkExpired_Inv, countVisit_Inv, mapShareInfo_Inv,
       handleDownloads_Inv, readOwner_Inv, answerStream_Inv, Leave_Inv
<1>3. ASSUME NEW u \in Sharers, Save(u) \/ Update(u, BOOLEAN) \/ UpdateShare(u) \/ Delete(u) PROVE ShareInv'
    BY <1>3, Save_Inv, Update_Inv, Delete_Inv DEF UpdateShare
<1>4. CASE Elsewhere \/ TimePasses BY <1>4, Elsewhere_Inv, TimePasses_Inv
<1>5. QED BY <1>1, <1>2, <1>3, <1>4 DEF ShareNext

\* What visitors are served was shared, links are refused for a cause, and no
\* visit undoes an edit: core/share.go and server/public, whatever their readers
\* see of rows that others write meanwhile.
THEOREM SharesHold == ShareSpec => []SharesAreRespected
<1>1. ShareInit => ShareInv BY ShareInit_Inv
<1>2. ShareInv /\ [ShareNext]_shareVars => ShareInv' BY ShareNext_Inv
<1>3. ShareInv => SharesAreRespected
    <2> SUFFICES ASSUME ShareInv PROVE SharesAreRespected OBVIOUS
    <2>1. \A v \in Visitors : VisitOK(visit[v], store, links) BY DEF ShareInv
    <2>2. ServedIsShared BY <2>1 DEF ServedIsShared, VisitOK, Allowed, During
    <2>3. LinksWork BY <2>1 DEF LinksWork, VisitOK, Excused, During
    <2>4. QED BY <2>2, <2>3 DEF SharesAreRespected, ShareInv
<1>4. QED BY <1>1, <1>2, <1>3, PTL DEF ShareSpec

-------------------------------------------------------------------------------
(* PlaylistImport.  A file that phase 1 has seen is owed an import: until it   *)
(* has its playlist, it is among the touched ones or the mark is set, and      *)
(* while the phase runs it is to be done or in work.  The same holds of a      *)
(* synchronised playlist that differs from its file.  Rows are written from    *)
(* copies; all copies of one id are of one file.                               *)

ListRows == [id : 1..MaxLists, path : ListFiles, sync : BOOLEAN, name : {"file", "user"}, tracks : Contents]
Jobs == [at : {"idle", "find", "put", "unsync"}, file : ListFiles \cup {NoFile}, tracks : Contents \cup {NoFile},
         sync : BOOLEAN, old : SUBSET ListRows]

JobOK(job) ==
    /\ job \in Jobs
    /\ job.at # "idle" => job.file \in ListFiles /\ job.tracks \in Contents
    /\ \A p, q \in job.old : p = q /\ p.path = job.file

ImportTypeOK ==
    /\ listFile \in [ListFiles -> Contents \cup {NoFile}]
    /\ playlists \in SUBSET ListRows /\ userEdit \in SUBSET ListRows
    /\ dirty \in SUBSET ListFiles /\ folders \in SUBSET ListFiles /\ touched \in SUBSET ListFiles
    /\ deferred \in BOOLEAN /\ crossed \in BOOLEAN
    /\ phase4 \in [at : {"idle", "produce", "import", "finalize", "end"}, todo : SUBSET ListFiles, pending : BOOLEAN, job : Jobs]
    /\ JobOK(phase4.job) /\ JobOK(command)
    /\ madeLists \in 0..MaxLists
    /\ names \in [1..MaxLists -> {"file", "user"}]

\* An id names one row, and all copies of it are of one file.
Copies == playlists \cup phase4.job.old \cup command.old \cup userEdit
IdInv ==
    /\ \A p, q \in playlists : p.id = q.id => p = q
    /\ \A p, q \in Copies : p.id = q.id => p.path = q.path
    /\ \A p \in Copies : p.id <= madeLists

\* The steps of the phase, and what it read of a file that is as it was seen.
PhaseInv ==
    /\ phase4.at # "import" => phase4.job.at = "idle"
    /\ phase4.at = "import" => phase4.pending = deferred
    /\ phase4.at = "produce" => ~phase4.pending
    /\ phase4.at = "finalize" => deferred /\ ~phase4.pending
    /\ phase4.job.at # "idle" /\ phase4.job.file \notin dirty => phase4.job.tracks = listFile[phase4.job.file]
    /\ \A f \in ListFiles \ dirty : f \in folders <=> listFile[f] # NoFile

InWork(f) == f \in phase4.todo \/ (phase4.job.at # "idle" /\ phase4.job.file = f)

\* A file f of which `done` is not true yet is not forgotten.
NotForgotten(f, done) ==
    /\ f \in touched \/ deferred \/ done
    /\ phase4.at = "import" => InWork(f) \/ done
    /\ phase4.at = "end" => deferred \/ done

OwedListInv == \A f \in folders \ (dirty \cup lost) : NotForgotten(f, ByPath(f) # {})

Follows(p) == listFile[p.path] \in {p.tracks, "empty", NoFile}

UncrossedInv ==
    ~crossed =>
        /\ OnePlaylistPerFile
        /\ \A p \in playlists : p.name = names[p.id]
        /\ \A p \in playlists : p.id \notin detached =>
              /\ p.sync
              /\ p.path \notin dirty \cup lost => NotForgotten(p.path, Follows(p))

NameInv ==
    /\ \A i \in 1..MaxLists : i > madeLists => names[i] = "file"
    /\ \A p \in userEdit : p.name = "user"

ImportInv == ImportTypeOK /\ IdInv /\ PhaseInv /\ OwedListInv /\ NameInv /\ UncrossedInv

\* What a job that writes found, and what it writes.
Fits(job, row) ==
    /\ job.at # "idle" /\ row.path = job.file /\ row.sync \in BOOLEAN
    /\ job.old = {} => row.id = madeLists + 1 /\ row.name = "file" /\ row.sync
    /\ job.old # {} => \E p \in job.old : row.id = p.id /\ row.name = p.name

LEMMA ListRowFits ==
    ASSUME ImportInv, NEW job \in {phase4.job, command}, job.at # "idle", job.old = {} => madeLists < MaxLists
    PROVE  ListRow(job) \in ListRows /\ Fits(job, ListRow(job)) /\ ListRow(job).sync
<1>1. job \in Jobs /\ job.file \in ListFiles /\ job.tracks \in Contents /\ \A p, q \in job.old : p = q /\ p.path = job.file
    BY DEF ImportInv, ImportTypeOK, JobOK
<1>2. CASE job.old = {}
    <2>1. madeLists + 1 \in 1..MaxLists BY <1>2, ImportAssumption DEF ImportInv, ImportTypeOK
    <2>2. ListRow(job) = [id |-> madeLists + 1, path |-> job.file, sync |-> TRUE, name |-> "file", tracks |-> job.tracks]
        BY <1>2 DEF ListRow
    <2>3. QED BY <1>1, <1>2, <2>1, <2>2 DEF Fits, ListRows
<1>3. CASE job.old # {}
    <2> DEFINE p == CHOOSE x \in job.old : TRUE
    <2>1. p \in job.old BY <1>3
    <2>2. ListRow(job) = [p EXCEPT !.sync = TRUE] BY <1>3 DEF ListRow, Merged
    <2> HIDE DEF p
    <2>3. p \in ListRows BY <1>1, <2>1 DEF Jobs
    <2>4. /\ ListRow(job) \in ListRows /\ ListRow(job).id = p.id /\ ListRow(job).path = p.path /\ ListRow(job).sync
          /\ ListRow(job).name = p.name
        BY <2>2, <2>3 DEF ListRows
    <2>5. QED BY <1>1, <1>3, <2>1, <2>4 DEF Fits
<1>4. QED BY <1>2, <1>3

\* The row that is put, and the rows beside it.
LEMMA Put_Row ==
    ASSUME ImportInv, NEW job \in {phase4.job, command}, NEW row \in ListRows, Fits(job, row),
           NEW unlocked \in BOOLEAN, PutList(job, row, unlocked)
    PROVE  \E new \in ListRows :
              /\ new.id = row.id /\ new.path = row.path /\ new.sync = row.sync /\ new.name = row.name
              /\ playlists' = {p \in playlists : p.id # row.id} \cup {new}
              /\ \/ new.tracks = job.tracks
                 \/ job.tracks = "empty"
<1> DEFINE now == {p \in playlists : p.id = row.id}
           tracks == IF job.tracks = "empty" /\ now # {} THEN (CHOOSE p \in now : TRUE).tracks ELSE job.tracks
           new == [row EXCEPT !.tracks = tracks]
<1>1. job.tracks \in Contents BY DEF ImportInv, ImportTypeOK, JobOK, Fits
<1>2. now # {} => (CHOOSE p \in now : TRUE) \in now OBVIOUS
<1>3. now \subseteq ListRows BY DEF ImportInv, ImportTypeOK
<1>4. tracks \in Contents BY <1>1, <1>2, <1>3 DEF ListRows
<1>5. playlists' = (playlists \ now) \cup {new} BY DEF PutList
<1>6. tracks = job.tracks \/ job.tracks = "empty" OBVIOUS
<1> HIDE DEF tracks
<1>7. /\ new \in ListRows /\ new.id = row.id /\ new.path = row.path /\ new.sync = row.sync /\ new.name = row.name
      /\ new.tracks = tracks
    BY <1>4 DEF ListRows
<1>8. playlists' = {p \in playlists : p.id # row.id} \cup {new} BY <1>5
<1> HIDE DEF new, now
<1>9. QED BY <1>6, <1>7, <1>8

\* Ids stay those of one row and one file.
LEMMA Put_Ids ==
    ASSUME ImportInv, NEW job \in {phase4.job, command}, NEW row \in ListRows, Fits(job, row),
           NEW unlocked \in BOOLEAN, PutList(job, row, unlocked)
    PROVE  /\ playlists' \in SUBSET ListRows /\ madeLists' \in 0..MaxLists /\ crossed' \in BOOLEAN
           /\ \A p, q \in playlists' : p.id = q.id => p = q
           /\ \A p, q \in playlists' \cup Copies : p.id = q.id => p.path = q.path
           /\ \A p \in playlists' \cup Copies : p.id <= madeLists'
           /\ \A i \in 1..MaxLists : i > madeLists' => names[i] = "file"
<1>1. PICK new \in ListRows :
              /\ new.id = row.id /\ new.path = row.path
              /\ playlists' = {p \in playlists : p.id # row.id} \cup {new}
    BY Put_Row
<1>2. madeLists \in Nat /\ madeLists <= MaxLists /\ MaxLists \in Nat BY ImportAssumption DEF ImportInv, ImportTypeOK
<1>3. Copies \subseteq ListRows /\ job.old \subseteq Copies BY DEF ImportInv, ImportTypeOK, JobOK, Jobs, Copies
<1>4. \A p \in ListRows : p.id \in Nat BY DEF ListRows
<1>5. madeLists' = (IF job.old = {} THEN madeLists + 1 ELSE madeLists) /\ (job.old = {} => madeLists < MaxLists)
    BY DEF PutList
<1>6. madeLists' \in 0..MaxLists /\ madeLists <= madeLists' BY <1>2, <1>5
<1>7. \A p \in Copies : p.id <= madeLists' BY <1>2, <1>3, <1>4, <1>6 DEF ImportInv, IdInv
<1>8. new.id <= madeLists'
    <2>1. CASE job.old = {} BY <1>1, <1>2, <1>5, <2>1 DEF Fits
    <2>2. CASE job.old # {} BY <1>1, <1>3, <1>7, <2>2 DEF Fits
    <2>3. QED BY <2>1, <2>2
<1>9. \A p \in Copies : p.id = new.id => p.path = new.path
    <2>1. CASE job.old = {} BY <1>1, <1>2, <1>3, <1>4, <2>1 DEF Fits, ImportInv, IdInv
    <2>2. CASE job.old # {}
        <3>1. PICK p \in job.old : row.id = p.id BY <2>2 DEF Fits
        <3>2. p.path = job.file BY DEF ImportInv, ImportTypeOK, JobOK
        <3>3. p \in Copies /\ p.id = new.id /\ p.path = new.path BY <1>1, <1>3, <3>1, <3>2 DEF Fits
        <3>4. QED BY <3>3 DEF ImportInv, IdInv
    <2>3. QED BY <2>1, <2>2
<1>10. \A p \in playlists' \cup Copies : p \in Copies \/ p = new BY <1>1 DEF Copies
<1>11. \A p, q \in playlists' \cup Copies : p.id = q.id => p.path = q.path
    <2> SUFFICES ASSUME NEW p \in playlists' \cup Copies, NEW q \in playlists' \cup Copies, p.id = q.id PROVE p.path = q.path
        OBVIOUS
    <2>1. CASE p \in Copies /\ q \in Copies BY <2>1 DEF ImportInv, IdInv
    <2>2. CASE p = new \/ q = new BY <1>9, <1>10, <2>2
    <2>3. QED BY <1>10, <2>1, <2>2
<1>12. \A p, q \in playlists' : p.id = q.id => p = q BY <1>1 DEF ImportInv, IdInv
<1>13. \A p \in playlists' \cup Copies : p.id <= madeLists' BY <1>7, <1>8, <1>10
<1>14. \A i \in 1..MaxLists : i > madeLists' => names[i] = "file" BY <1>2, <1>6 DEF ImportInv, NameInv
<1>15. playlists' \in SUBSET ListRows BY <1>1 DEF ImportInv, ImportTypeOK
<1>16. crossed' \in BOOLEAN BY DEF PutList, ImportInv, ImportTypeOK
<1>17. QED BY <1>6, <1>11, <1>12, <1>13, <1>14, <1>15, <1>16

\* No file loses its playlist, and the job's file has one.
LEMMA Put_Has ==
    ASSUME ImportInv, NEW job \in {phase4.job, command}, NEW row \in ListRows, Fits(job, row),
           NEW unlocked \in BOOLEAN, PutList(job, row, unlocked)
    PROVE  /\ \A f \in ListFiles : ByPath(f) # {} => ByPath(f)' # {}
           /\ ByPath(job.file)' # {}
<1>1. PICK new \in ListRows :
              /\ new.id = row.id /\ new.path = row.path
              /\ playlists' = {p \in playlists : p.id # row.id} \cup {new}
    BY Put_Row
<1>2. \A p, q \in playlists' \cup Copies : p.id = q.id => p.path = q.path BY Put_Ids
<1>3. new \in playlists' /\ new.path = job.file BY <1>1 DEF Fits
<1>4. ASSUME NEW f \in ListFiles, ByPath(f) # {} PROVE ByPath(f)' # {}
    <2>1. PICK p \in playlists : p.path = f BY <1>4 DEF ByPath
    <2>2. CASE p.id = new.id
        <3>1. new.path = f BY <1>2, <1>3, <2>1, <2>2 DEF Copies
        <3>2. QED BY <1>3, <3>1 DEF ByPath
    <2>3. CASE p.id # new.id
        <3>1. p \in playlists' BY <1>1, <2>3
        <3>2. QED BY <2>1, <3>1 DEF ByPath
    <2>4. QED BY <2>2, <2>3
<1>5. ByPath(job.file)' # {} BY <1>3 DEF ByPath
<1>6. QED BY <1>4, <1>5

\* A job that crossed nothing replaced the row it found, or made the first one
\* of its file.
LEMMA Put_Uncrossed ==
    ASSUME ImportInv, NEW job \in {phase4.job, command}, NEW row \in ListRows, Fits(job, row),
           NEW unlocked \in BOOLEAN, PutList(job, row, unlocked), ~crossed'
    PROVE  /\ ~crossed /\ OnePlaylistPerFile' /\ \A p \in playlists' : p.name = names[p.id]
           /\ unlocked => listFile[job.file] = job.tracks
           /\ \E new \in playlists' : /\ new.id = row.id /\ new.path = job.file /\ new.sync = row.sync
                                      /\ playlists' = {p \in playlists : p.id # row.id} \cup {new}
                                      /\ listFile[job.file] = job.tracks => listFile[job.file] \in {new.tracks, "empty"}
<1> DEFINE now == {p \in playlists : p.id = row.id}
<1>1. PICK new \in ListRows :
              /\ new.id = row.id /\ new.path = row.path /\ new.sync = row.sync /\ new.name = row.name
              /\ playlists' = {p \in playlists : p.id # row.id} \cup {new}
              /\ \/ new.tracks = job.tracks
                 \/ job.tracks = "empty"
    BY Put_Row
<1>2. /\ ~crossed /\ now = job.old /\ (unlocked => listFile[job.file] = job.tracks)
      /\ job.old = {} => {} \in FindByPath(job.file)
    BY DEF PutList
<1>3. /\ OnePlaylistPerFile /\ \A p \in playlists : p.name = names[p.id]
    BY <1>2 DEF ImportInv, UncrossedInv
<1>4. new.path = job.file BY <1>1 DEF Fits
<1>5. \A p \in playlists : p.path = new.path => p.id = new.id
    <2>1. CASE job.old = {}
        <3>1. ByPath(job.file) = {} BY <1>2, <2>1 DEF FindByPath, OneOf
        <3>2. QED BY <1>4, <3>1 DEF ByPath
    <2>2. CASE job.old # {}
        <3>1. PICK x \in job.old : row.id = x.id BY <2>2 DEF Fits
        <3>2. x \in playlists /\ x.path = job.file BY <1>2, <3>1 DEF ImportInv, ImportTypeOK, JobOK
        <3>3. QED BY <1>1, <1>2, <1>3, <1>4, <3>1, <3>2 DEF OnePlaylistPerFile
    <2>3. QED BY <2>1, <2>2
<1>6. OnePlaylistPerFile'
    <2> SUFFICES ASSUME NEW p \in playlists', NEW q \in playlists', p.path = q.path PROVE p = q
        BY Zenon DEF OnePlaylistPerFile
    <2>1. \A x \in playlists' : x = new \/ (x \in playlists /\ x.id # new.id) BY <1>1
    <2>2. CASE p = new /\ q = new BY <2>2
    <2>3. CASE p # new /\ q # new BY <1>2, <1>3, <2>1, <2>3 DEF OnePlaylistPerFile
    <2>4. CASE p = new /\ q # new BY <1>5, <2>1, <2>4
    <2>5. CASE p # new /\ q = new BY <1>5, <2>1, <2>5
    <2>6. QED BY <2>2, <2>3, <2>4, <2>5
<1>7. new.name = names[new.id]
    <2>1. CASE job.old = {}
        <3>1. new.id \in 1..MaxLists BY DEF ListRows
        <3>2. new.id = madeLists + 1 /\ new.name = "file" BY <1>1, <2>1 DEF Fits
        <3>3. madeLists \in Nat BY DEF ImportInv, ImportTypeOK
        <3>4. QED BY <3>1, <3>2, <3>3 DEF ImportInv, NameInv
    <2>2. CASE job.old # {}
        <3>1. PICK x \in job.old : row.id = x.id /\ row.name = x.name BY <2>2 DEF Fits
        <3>2. x \in playlists BY <1>2
        <3>3. QED BY <1>1, <1>3, <3>1, <3>2
    <2>3. QED BY <2>1, <2>2
<1>8. \A p \in playlists' : p.name = names[p.id] BY <1>1, <1>3, <1>7
<1>9. listFile[job.file] = job.tracks => listFile[job.file] \in {new.tracks, "empty"} BY <1>1
<1>10. QED BY <1>1, <1>2, <1>4, <1>6, <1>8, <1>9

\* A step that leaves the playlists and their files: each file is owed what it
\* was owed, except those of `settled`, which are owed nothing any more.
LEMMA PhaseStep ==
    ASSUME ImportInv, ImportTypeOK', PhaseInv', Copies' \subseteq Copies,
           UNCHANGED <<listFile, playlists, userEdit, names, detached, crossed, madeLists>>, lost \subseteq lost',
           NEW settled \in SUBSET ListFiles,
           \A f \in settled : ByPath(f) # {},
           ~crossed => \A p \in playlists : p.path \in settled => p.id \in detached,
           \A f \in ListFiles \ (dirty' \cup lost'), done \in BOOLEAN :
               (f \notin dirty \cup lost => NotForgotten(f, done)) /\ (listFile[f] = NoFile => done) /\ (f \in settled => done)
               => NotForgotten(f, done)'
    PROVE  ImportInv'
<1> USE DEF ImportInv
<1>1. IdInv' BY DEF IdInv
<1>2. NameInv' BY DEF NameInv
<1>3. OwedListInv'
    <2> SUFFICES ASSUME NEW f \in folders' \ (dirty' \cup lost') PROVE NotForgotten(f, ByPath(f) # {})'
        BY DEF OwedListInv
    <2> DEFINE done == ByPath(f) # {}
    <2>1. f \in ListFiles /\ done \in BOOLEAN BY DEF ImportTypeOK
    <2>2. listFile[f] # NoFile BY <2>1 DEF PhaseInv
    <2>3. f \notin dirty \cup lost => NotForgotten(f, done) BY <2>1, <2>2 DEF PhaseInv, OwedListInv
    <2>4. f \in settled => done OBVIOUS
    <2>5. done' = done BY DEF ByPath
    <2> HIDE DEF done
    <2>6. \A b \in BOOLEAN : (f \notin dirty \cup lost => NotForgotten(f, b)) /\ (f \in settled => b) => NotForgotten(f, b)'
        BY <2>1, <2>2
    <2>7. done => NotForgotten(f, TRUE)' BY <2>1, <2>2, <2>6 DEF NotForgotten
    <2>8. ~done => NotForgotten(f, FALSE)'
        <3>1. SUFFICES ASSUME ~done PROVE NotForgotten(f, FALSE)' OBVIOUS
        <3>2. f \notin dirty \cup lost => NotForgotten(f, FALSE) BY <2>3, <3>1 DEF NotForgotten
        <3>3. QED BY <2>4, <2>6, <3>1, <3>2
    <2>9. NotForgotten(f, done)' BY <2>5, <2>7, <2>8 DEF NotForgotten
    <2>10. QED BY <2>9 DEF done
<1>4. UncrossedInv'
    <2> SUFFICES ASSUME ~crossed PROVE UncrossedInv'
        BY DEF UncrossedInv
    <2>1. /\ OnePlaylistPerFile' /\ \A p \in playlists : p.name = names[p.id]
          /\ \A p \in playlists : p.id \notin detached => p.sync
        BY DEF UncrossedInv, OnePlaylistPerFile
    <2>2. ASSUME NEW p \in playlists, p.id \notin detached, p.path \notin dirty' \cup lost'
          PROVE  NotForgotten(p.path, Follows(p))'
        <3> DEFINE f == p.path
                   done == Follows(p)
        <3>1. f \in ListFiles BY DEF ImportTypeOK, ListRows
        <3>2. f \notin settled BY <2>2
        <3>3. listFile[f] = NoFile => done BY DEF Follows
        <3>4. f \notin dirty \cup lost => NotForgotten(f, done) BY <2>2 DEF UncrossedInv
        <3>5. done' = done BY DEF Follows
        <3>6. f \notin dirty' \cup lost' BY <2>2
        <3> HIDE DEF done, f
        <3>7. done => NotForgotten(f, TRUE)' BY <3>1, <3>6 DEF NotForgotten
        <3>8. ~done => NotForgotten(f, FALSE)'
            <4>1. SUFFICES ASSUME ~done PROVE NotForgotten(f, FALSE)' OBVIOUS
            <4>2. f \notin dirty \cup lost => NotForgotten(f, FALSE) BY <3>4, <4>1 DEF NotForgotten
            <4>3. QED BY <3>1, <3>2, <3>3, <3>6, <4>1, <4>2
        <3>9. NotForgotten(f, done)' BY <3>5, <3>7, <3>8 DEF NotForgotten
        <3>10. QED BY <3>9 DEF f, done
    <2>3. QED BY <2>1, <2>2 DEF UncrossedInv
<1>5. QED BY <1>1, <1>2, <1>3, <1>4

\* The phase's own steps keep what the users and the command hold.
LEMMA PhaseType ==
    ASSUME ImportInv, UNCHANGED <<listFile, playlists, userEdit, names, crossed, madeLists, command>>,
           dirty' \in SUBSET ListFiles, folders' \in SUBSET ListFiles, touched' \in SUBSET ListFiles, deferred' \in BOOLEAN,
           phase4'.at \in {"idle", "produce", "import", "finalize", "end"}, phase4'.todo \in SUBSET ListFiles,
           phase4'.pending \in BOOLEAN, JobOK(phase4'.job),
           phase4' = [at |-> phase4'.at, todo |-> phase4'.todo, pending |-> phase4'.pending, job |-> phase4'.job]
    PROVE  ImportTypeOK'
<1>1. phase4' \in [at : {"idle", "produce", "import", "finalize", "end"}, todo : SUBSET ListFiles, pending : BOOLEAN, job : Jobs]
    BY DEF JobOK
<1>2. JobOK(phase4.job)' BY DEF JobOK
<1>3. JobOK(command)' BY DEF ImportInv, ImportTypeOK
<1>4. QED BY <1>1, <1>2, <1>3 DEF ImportInv, ImportTypeOK

LEMMA NoJob_OK == JobOK(NoJob) /\ NoJob.at = "idle" /\ NoJob.old = {}
BY DEF JobOK, NoJob, Jobs

LEMMA Phase4_Record ==
    ASSUME ImportInv
    PROVE  /\ phase4 = [at |-> phase4.at, todo |-> phase4.todo, pending |-> phase4.pending, job |-> phase4.job]
           /\ phase4.at \in {"idle", "produce", "import", "finalize", "end"} /\ phase4.todo \in SUBSET ListFiles
           /\ phase4.pending \in BOOLEAN /\ JobOK(phase4.job) /\ JobOK(command)
BY DEF ImportInv, ImportTypeOK

LEMMA ImportPhase1_Inv ==
    ASSUME ImportInv, ImportPhase1
    PROVE  ImportInv'
<1> USE DEF ImportInv
<1>1. phase4' = [at |-> "produce", todo |-> {}, pending |-> FALSE, job |-> NoJob] BY DEF ImportPhase1, Scanless
<1>2. /\ UNCHANGED <<listFile, playlists, userEdit, names, detached, crossed, madeLists, command, lost, deferred>>
      /\ phase4.at = "idle" /\ dirty' = {} /\ touched' = touched \cup dirty
      /\ folders' = {f \in ListFiles : listFile[f] # NoFile}
    BY DEF ImportPhase1, Phase4Only, history
<1>3. ImportTypeOK' BY <1>1, <1>2, NoJob_OK, PhaseType DEF ImportTypeOK
<1>4. PhaseInv' BY <1>1, <1>2, NoJob_OK DEF PhaseInv
<1>5. Copies' \subseteq Copies BY <1>1, <1>2, NoJob_OK DEF Copies
<1>6. ASSUME NEW f \in ListFiles \ (dirty' \cup lost'), NEW done \in BOOLEAN,
             f \notin dirty \cup lost => NotForgotten(f, done), listFile[f] = NoFile => done
      PROVE  NotForgotten(f, done)'
    BY <1>1, <1>2, <1>6 DEF NotForgotten
<1>7. QED BY <1>2, <1>3, <1>4, <1>5, <1>6, PhaseStep, Zenon

LEMMA produce_Inv ==
    ASSUME ImportInv, produce
    PROVE  ImportInv'
<1> USE DEF ImportInv
<1> DEFINE todo == IF deferred THEN folders ELSE folders \cap touched
<1>1. /\ UNCHANGED <<listFile, playlists, userEdit, names, detached, crossed, madeLists, command, lost, dirty, folders, touched>>
      /\ phase4.at = "produce" /\ phase4.job.at = "idle"
    BY DEF produce, Phase4Only, history, PhaseInv
<1>2. \/ admin /\ UNCHANGED deferred /\ phase4' = [at |-> "import", todo |-> todo, pending |-> deferred, job |-> phase4.job]
      \/ ~admin /\ deferred' = TRUE /\ phase4' = [at |-> "finalize", todo |-> phase4.todo, pending |-> phase4.pending, job |-> phase4.job]
    BY Phase4_Record DEF produce
<1>3. todo \in SUBSET ListFiles /\ deferred \in BOOLEAN BY DEF ImportTypeOK
<1>4. CASE admin
    <2>1. UNCHANGED deferred /\ phase4' = [at |-> "import", todo |-> todo, pending |-> deferred, job |-> phase4.job]
        BY <1>2, <1>4
    <2>2. ImportTypeOK' BY <1>1, <1>3, <2>1, Phase4_Record, PhaseType DEF ImportTypeOK
    <2>3. PhaseInv' BY <1>1, <2>1 DEF PhaseInv
    <2>4. Copies' \subseteq Copies BY <1>1, <2>1 DEF Copies
    <2>5. ASSUME NEW f \in ListFiles \ (dirty' \cup lost'), NEW done \in BOOLEAN,
                 f \notin dirty \cup lost => NotForgotten(f, done), listFile[f] = NoFile => done
          PROVE  NotForgotten(f, done)'
        <3>1. NotForgotten(f, done) BY <1>1, <2>5
        <3>2. f \in folders \/ done BY <1>1, <2>5 DEF PhaseInv
        <3>3. f \in todo \/ done BY <3>1, <3>2 DEF NotForgotten
        <3>4. f \in phase4'.todo \/ done BY <2>1, <3>3
        <3>5. QED BY <1>1, <2>1, <3>1, <3>4 DEF NotForgotten, InWork
    <2>6. QED BY <1>1, <2>2, <2>3, <2>4, <2>5, PhaseStep, Zenon
<1>5. CASE ~admin
    <2>1. deferred' = TRUE /\ phase4' = [at |-> "finalize", todo |-> phase4.todo, pending |-> FALSE, job |-> phase4.job]
        <3>1. phase4.pending = FALSE BY <1>1, Phase4_Record DEF PhaseInv
        <3>2. QED BY <1>2, <1>5, <3>1
    <2>2. ImportTypeOK' BY <1>1, <1>3, <2>1, Phase4_Record, PhaseType DEF ImportTypeOK
    <2>3. PhaseInv' BY <1>1, <2>1 DEF PhaseInv
    <2>4. Copies' \subseteq Copies BY <1>1, <2>1 DEF Copies
    <2>5. ASSUME NEW f \in ListFiles \ (dirty' \cup lost'), NEW done \in BOOLEAN,
                 f \notin dirty \cup lost => NotForgotten(f, done), listFile[f] = NoFile => done
          PROVE  NotForgotten(f, done)'
        BY <1>1, <2>1, <2>5 DEF NotForgotten
    <2>6. QED BY <1>1, <2>2, <2>3, <2>4, <2>5, PhaseStep, Zenon
<1>6. QED BY <1>4, <1>5

LEMMA processPlaylistsInFolder_Inv ==
    ASSUME ImportInv, NEW f0 \in ListFiles, processPlaylistsInFolder(f0)
    PROVE  ImportInv'
<1> USE DEF ImportInv
<1> DEFINE job == IF listFile[f0] = NoFile THEN NoJob ELSE [NoJob EXCEPT !.at = "find", !.file = f0, !.tracks = listFile[f0]]
<1>1. /\ UNCHANGED <<listFile, playlists, userEdit, names, detached, crossed, madeLists, command, lost, dirty, folders, touched, deferred>>
      /\ phase4.at = "import" /\ phase4.job.at = "idle" /\ f0 \in phase4.todo
      /\ phase4' = [phase4 EXCEPT !.todo = phase4.todo \ {f0}, !.job = job]
    BY DEF processPlaylistsInFolder, Phase4Only, history
<1>2. /\ JobOK(job) /\ job.old = {}
      /\ listFile[f0] # NoFile => job.at # "idle" /\ job.file = f0 /\ job.tracks = listFile[f0]
      /\ listFile[f0] = NoFile => job.at = "idle"
    <2>1. listFile[f0] \in Contents \cup {NoFile} BY DEF ImportTypeOK
    <2>2. CASE listFile[f0] = NoFile BY <2>2, NoJob_OK
    <2>3. CASE listFile[f0] # NoFile BY <2>1, <2>3 DEF JobOK, NoJob, Jobs
    <2>4. QED BY <2>2, <2>3
<1> HIDE DEF job
<1>3. phase4' = [at |-> "import", todo |-> phase4.todo \ {f0}, pending |-> phase4.pending, job |-> job]
    BY <1>1, Phase4_Record
<1>4. ImportTypeOK' BY <1>1, <1>2, <1>3, Phase4_Record, PhaseType DEF ImportTypeOK
<1>5. PhaseInv' BY <1>1, <1>2, <1>3 DEF PhaseInv
<1>6. Copies' \subseteq Copies BY <1>1, <1>2, <1>3 DEF Copies
<1>7. ASSUME NEW f \in ListFiles \ (dirty' \cup lost'), NEW done \in BOOLEAN,
             f \notin dirty \cup lost => NotForgotten(f, done), listFile[f] = NoFile => done
      PROVE  NotForgotten(f, done)'
    <2>1. NotForgotten(f, done) BY <1>1, <1>7
    <2>2. InWork(f) => InWork(f)' \/ done BY <1>1, <1>2, <1>3, <1>7 DEF InWork
    <2>3. QED BY <1>1, <1>3, <2>1, <2>2 DEF NotForgotten
<1>8. QED BY <1>1, <1>4, <1>5, <1>6, <1>7, PhaseStep, Zenon

LEMMA FolderUnreadable_Inv ==
    ASSUME ImportInv, NEW f0 \in ListFiles, FolderUnreadable(f0)
    PROVE  ImportInv'
<1> USE DEF ImportInv
<1>1. /\ UNCHANGED <<listFile, playlists, userEdit, names, detached, crossed, madeLists, command, dirty, folders, touched, deferred>>
      /\ phase4.at = "import" /\ phase4.job.at = "idle"
      /\ phase4' = [phase4 EXCEPT !.todo = phase4.todo \ {f0}] /\ lost' = lost \cup {f0}
    BY DEF FolderUnreadable
<1>2. phase4' = [at |-> "import", todo |-> phase4.todo \ {f0}, pending |-> phase4.pending, job |-> phase4.job]
    BY <1>1, Phase4_Record
<1>3. ImportTypeOK' BY <1>1, <1>2, Phase4_Record, PhaseType DEF ImportTypeOK
<1>4. PhaseInv' BY <1>1, <1>2 DEF PhaseInv
<1>5. Copies' \subseteq Copies BY <1>1, <1>2 DEF Copies
<1>6. ASSUME NEW f \in ListFiles \ (dirty' \cup lost'), NEW done \in BOOLEAN,
             f \notin dirty \cup lost => NotForgotten(f, done), listFile[f] = NoFile => done
      PROVE  NotForgotten(f, done)'
    <2>1. NotForgotten(f, done) /\ f # f0 BY <1>1, <1>6
    <2>2. InWork(f) => InWork(f)' BY <1>2, <2>1 DEF InWork
    <2>3. QED BY <1>1, <1>2, <2>1, <2>2 DEF NotForgotten
<1>7. lost \subseteq lost' BY <1>1
<1>8. QED BY <1>1, <1>3, <1>4, <1>5, <1>6, <1>7, PhaseStep, Zenon

LEMMA finalize_Inv ==
    ASSUME ImportInv, finalize
    PROVE  ImportInv'
<1> USE DEF ImportInv
<1>1. /\ UNCHANGED <<listFile, playlists, userEdit, names, detached, crossed, madeLists, command, lost, dirty, folders, touched>>
      /\ deferred' = (deferred /\ ~phase4.pending) /\ phase4' = [phase4 EXCEPT !.at = "end"]
      /\ \/ phase4.at = "finalize"
         \/ phase4.at = "import" /\ phase4.todo = {} /\ phase4.job.at = "idle"
    BY DEF finalize, Phase4Only, history
<1>2. phase4' = [at |-> "end", todo |-> phase4.todo, pending |-> phase4.pending, job |-> phase4.job]
    BY <1>1, Phase4_Record
<1>3. deferred \in BOOLEAN /\ deferred' \in BOOLEAN BY <1>1 DEF ImportTypeOK
<1>4. ImportTypeOK' BY <1>1, <1>2, <1>3, Phase4_Record, PhaseType DEF ImportTypeOK
<1>5. PhaseInv' BY <1>1, <1>2 DEF PhaseInv
<1>6. Copies' \subseteq Copies BY <1>1, <1>2 DEF Copies
<1>7. ASSUME NEW f \in ListFiles \ (dirty' \cup lost'), NEW done \in BOOLEAN,
             f \notin dirty \cup lost => NotForgotten(f, done), listFile[f] = NoFile => done
      PROVE  NotForgotten(f, done)'
    <2>1. NotForgotten(f, done) BY <1>1, <1>7
    <2>2. CASE phase4.at = "finalize"
        <3>1. deferred' = TRUE BY <1>1, <2>2 DEF PhaseInv
        <3>2. QED BY <1>2, <3>1 DEF NotForgotten
    <2>3. CASE phase4.at = "import" /\ phase4.todo = {} /\ phase4.job.at = "idle"
        <3>1. done BY <2>1, <2>3 DEF NotForgotten, InWork
        <3>2. QED BY <3>1 DEF NotForgotten
    <2>4. QED BY <1>1, <2>2, <2>3
<1>8. QED BY <1>1, <1>4, <1>5, <1>6, <1>7, PhaseStep, Zenon

\* The scan ends, or fails at any step: it is idle, and its job is gone.
LEMMA ScanOver_Inv ==
    ASSUME ImportInv, ImportScanEnds \/ ImportScanFails
    PROVE  ImportInv'
<1> USE DEF ImportInv
<1>1. /\ UNCHANGED <<listFile, playlists, userEdit, names, detached, crossed, madeLists, command, lost, dirty, folders, deferred>>
      /\ phase4' = [at |-> "idle", todo |-> {}, pending |-> FALSE, job |-> NoJob]
      /\ touched' = touched \/ (touched' = {} /\ phase4.at = "end")
    BY DEF ImportScanEnds, ImportScanFails, Phase4Only, Scanless, history
<1>2. ImportTypeOK' BY <1>1, NoJob_OK, PhaseType DEF ImportTypeOK
<1>3. PhaseInv' BY <1>1, NoJob_OK DEF PhaseInv
<1>4. Copies' \subseteq Copies BY <1>1, NoJob_OK DEF Copies
<1>5. ASSUME NEW f \in ListFiles \ (dirty' \cup lost'), NEW done \in BOOLEAN,
             f \notin dirty \cup lost => NotForgotten(f, done), listFile[f] = NoFile => done
      PROVE  NotForgotten(f, done)'
    <2>1. NotForgotten(f, done) BY <1>1, <1>5
    <2>2. QED BY <1>1, <2>1 DEF NotForgotten
<1>6. QED BY <1>1, <1>2, <1>3, <1>4, <1>5, PhaseStep, Zenon

\* What a job that looked its playlist up goes on with.
LEMMA Found_OK ==
    ASSUME ImportInv, NEW job \in {phase4.job, command}, job.at = "find", NEW forced \in BOOLEAN,
           NEW old \in FindByPath(job.file), NEW next,
           next = IF Found(job, old, forced).at = "put" THEN Found(job, old, forced) ELSE NoJob
    PROVE  /\ JobOK(next) /\ next.old \subseteq playlists
           /\ \/ next.at = "put" /\ next.file = job.file /\ next.tracks = job.tracks
              \/ next.at = "idle" /\ ~forced /\ \E p \in playlists : p.path = job.file /\ ~p.sync
<1>1. JobOK(job) /\ job \in Jobs /\ job.file \in ListFiles /\ job.tracks \in Contents BY DEF ImportInv, ImportTypeOK, JobOK
<1>2. /\ old \subseteq playlists /\ \A p, q \in old : p = q /\ p.path = job.file
    BY DEF FindByPath, OneOf, ByPath
<1>3. old \in SUBSET ListRows BY <1>2 DEF ImportInv, ImportTypeOK
<1>4. CASE \E p \in old : ~p.sync /\ ~forced
    <2>1. Found(job, old, forced) = [job EXCEPT !.at = "skipped"] BY <1>4 DEF Found
    <2>2. next = NoJob BY <1>1, <2>1 DEF Jobs
    <2>3. QED BY <1>2, <1>4, <2>2, NoJob_OK
<1>5. CASE ~ \E p \in old : ~p.sync /\ ~forced
    <2>1. Found(job, old, forced) = [job EXCEPT !.at = "put", !.old = old] BY <1>5 DEF Found
    <2>2. next = [job EXCEPT !.at = "put", !.old = old] BY <1>1, <2>1 DEF Jobs
    <2>3. /\ next \in Jobs /\ next.at = "put" /\ next.file = job.file /\ next.tracks = job.tracks /\ next.old = old
        BY <1>1, <1>3, <2>2 DEF Jobs
    <2>4. QED BY <1>1, <1>2, <2>3 DEF JobOK
<1>6. QED BY <1>4, <1>5

LEMMA ImportFromFolder_Find ==
    ASSUME ImportInv, ImportFromFolder, phase4.job.at = "find"
    PROVE  ImportInv'
<1> USE DEF ImportInv
<1>1. /\ UNCHANGED <<listFile, playlists, userEdit, names, detached, crossed, madeLists, command, lost, dirty, folders, touched, deferred>>
    BY DEF ImportFromFolder, Phase4Only, history
<1>2. PICK old \in FindByPath(phase4.job.file) :
          phase4' = [phase4 EXCEPT !.job = IF Found(phase4.job, old, FALSE).at = "put" THEN Found(phase4.job, old, FALSE) ELSE NoJob]
    BY DEF ImportFromFolder
<1> DEFINE next == IF Found(phase4.job, old, FALSE).at = "put" THEN Found(phase4.job, old, FALSE) ELSE NoJob
           f0 == phase4.job.file
<1>3. /\ JobOK(next) /\ next.old \subseteq playlists
      /\ \/ next.at = "put" /\ next.file = f0 /\ next.tracks = phase4.job.tracks
         \/ next.at = "idle" /\ \E p \in playlists : p.path = f0 /\ ~p.sync
    <2>1. phase4.job \in {phase4.job, command} /\ FALSE \in BOOLEAN OBVIOUS
    <2>2. next = IF Found(phase4.job, old, FALSE).at = "put" THEN Found(phase4.job, old, FALSE) ELSE NoJob OBVIOUS
    <2> HIDE DEF next
    <2>3. QED BY <2>1, <2>2, Found_OK, Zenon
<1>4. phase4.at = "import" /\ f0 \in ListFiles BY DEF PhaseInv, ImportTypeOK, JobOK
<1>5. phase4' = [at |-> "import", todo |-> phase4.todo, pending |-> phase4.pending, job |-> next]
    BY <1>2, <1>4, Phase4_Record
<1> HIDE DEF next
<1>6. ImportTypeOK' BY <1>1, <1>3, <1>5, Phase4_Record, PhaseType DEF ImportTypeOK
<1>7. PhaseInv' BY <1>1, <1>3, <1>4, <1>5 DEF PhaseInv
<1>8. Copies' \subseteq Copies BY <1>1, <1>3, <1>5 DEF Copies
<1>9. CASE next.at = "put"
    <2>1. ASSUME NEW f \in ListFiles \ (dirty' \cup lost'), NEW done \in BOOLEAN,
                 f \notin dirty \cup lost => NotForgotten(f, done), listFile[f] = NoFile => done
          PROVE  NotForgotten(f, done)'
        <3>1. NotForgotten(f, done) BY <1>1, <2>1
        <3>2. InWork(f) => InWork(f)' BY <1>3, <1>5, <1>9 DEF InWork
        <3>3. QED BY <1>1, <1>4, <1>5, <3>1, <3>2 DEF NotForgotten
    <2>2. QED BY <1>1, <1>6, <1>7, <1>8, <2>1, PhaseStep, Zenon
<1>10. CASE next.at # "put"
    <2>1. PICK p0 \in playlists : p0.path = f0 /\ ~p0.sync BY <1>3, <1>10
    <2> DEFINE settled == {f0}
    <2>2. \A f \in settled : ByPath(f) # {} BY <2>1 DEF ByPath
    <2>3. ~crossed => \A p \in playlists : p.path \in settled => p.id \in detached
        BY <2>1 DEF UncrossedInv, OnePlaylistPerFile
    <2>4. \A f \in ListFiles \ (dirty' \cup lost'), done \in BOOLEAN :
               (f \notin dirty \cup lost => NotForgotten(f, done)) /\ (listFile[f] = NoFile => done) /\ (f \in settled => done)
               => NotForgotten(f, done)'
        <3> SUFFICES ASSUME NEW f \in ListFiles \ (dirty' \cup lost'), NEW done \in BOOLEAN,
                            f \notin dirty \cup lost => NotForgotten(f, done), listFile[f] = NoFile => done, f \in settled => done
                     PROVE  NotForgotten(f, done)'
            BY Zenon
        <3>1. NotForgotten(f, done) BY <1>1
        <3>2. InWork(f) => InWork(f)' \/ done BY <1>5 DEF InWork
        <3>3. QED BY <1>1, <1>4, <1>5, <3>1, <3>2 DEF NotForgotten
    <2>5. settled \in SUBSET ListFiles BY <1>4
    <2>6. lost \subseteq lost' BY <1>1
    <2> HIDE DEF settled
    <2>7. QED BY <1>1, <1>6, <1>7, <1>8, <2>2, <2>3, <2>4, <2>5, <2>6, PhaseStep, Zenon
<1>11. QED BY <1>9, <1>10

\* A job that writes: the file it writes for is owed nothing any more, and to
\* the others nothing happens.
LEMMA PutStep ==
    ASSUME ImportInv, NEW job \in {phase4.job, command}, NEW row \in ListRows, Fits(job, row),
           NEW unlocked \in BOOLEAN, PutList(job, row, unlocked), ImportTypeOK', PhaseInv',
           UNCHANGED <<listFile, dirty, folders, touched, deferred, lost, names, userEdit>>,
           Copies' \subseteq playlists' \cup Copies, detached \subseteq detached', row.sync \/ row.id \in detached',
           unlocked \/ (job.file \notin dirty => listFile[job.file] = job.tracks),
           phase4'.at = phase4.at, \A f \in ListFiles \ {job.file} : InWork(f) => InWork(f)'
    PROVE  ImportInv'
<1> USE DEF ImportInv
<1>1. IdInv'
    <2>1. Copies' \subseteq playlists' \cup Copies OBVIOUS
    <2>2. /\ \A p, q \in playlists' : p.id = q.id => p = q
          /\ \A p, q \in playlists' \cup Copies : p.id = q.id => p.path = q.path
          /\ \A p \in playlists' \cup Copies : p.id <= madeLists'
        BY Put_Ids
    <2>3. QED BY <2>1, <2>2 DEF IdInv
<1>2. NameInv' BY Put_Ids DEF NameInv
<1>3. \A f \in ListFiles \ {job.file}, done \in BOOLEAN : NotForgotten(f, done) => NotForgotten(f, done)' BY DEF NotForgotten
<1>4. \A f \in ListFiles : NotForgotten(f, TRUE)' BY DEF NotForgotten
<1>5. OwedListInv'
    <2>1. ASSUME NEW f \in folders \ (dirty \cup lost) PROVE NotForgotten(f, ByPath(f) # {})'
        <3>1. f \in ListFiles /\ NotForgotten(f, ByPath(f) # {}) BY DEF ImportTypeOK, OwedListInv
        <3>2. CASE ByPath(f)' # {} BY <1>4, <3>1, <3>2 DEF NotForgotten
        <3>3. CASE ByPath(f)' = {}
            <4>1. ByPath(f) = {} /\ f # job.file BY <3>1, <3>3, Put_Has
            <4>2. NotForgotten(f, FALSE) BY <3>1, <4>1 DEF NotForgotten
            <4>3. NotForgotten(f, FALSE)' BY <1>3, <3>1, <4>1, <4>2
            <4>4. QED BY <4>3 DEF NotForgotten
        <3>4. QED BY <3>2, <3>3
    <2>2. folders' = folders /\ dirty' = dirty /\ lost' = lost OBVIOUS
    <2>3. QED BY <2>1, <2>2 DEF OwedListInv
<1>6. ASSUME ~crossed' PROVE UncrossedInv'
    <2>1. /\ ~crossed /\ OnePlaylistPerFile' /\ \A p \in playlists' : p.name = names[p.id]
          /\ unlocked => listFile[job.file] = job.tracks
        BY <1>6, Put_Uncrossed
    <2>2. PICK new \in playlists' : /\ new.id = row.id /\ new.path = job.file /\ new.sync = row.sync
                                    /\ playlists' = {p \in playlists : p.id # row.id} \cup {new}
                                    /\ listFile[job.file] = job.tracks => listFile[job.file] \in {new.tracks, "empty"}
        BY <1>6, Put_Uncrossed
    <2>3. ASSUME NEW p \in playlists', p.id \notin detached'
          PROVE  p.sync /\ (p.path \notin dirty \cup lost => NotForgotten(p.path, Follows(p))')
        <3>1. CASE p = new
            <4>1. p.sync BY <2>2, <2>3, <3>1
            <4>2. ASSUME p.path \notin dirty \cup lost PROVE NotForgotten(p.path, Follows(p))'
                <5>1. listFile[job.file] = job.tracks BY <2>1, <2>2, <3>1, <4>2
                <5>2. Follows(p)' BY <2>2, <3>1, <5>1 DEF Follows
                <5>3. p.path \in ListFiles BY DEF ImportTypeOK, ListRows
                <5>4. QED BY <1>4, <5>2, <5>3 DEF NotForgotten
            <4>3. QED BY <4>1, <4>2
        <3>2. CASE p # new
            <4>1. p \in playlists /\ p.path # job.file /\ p.path \in ListFiles
                <5>1. p \in playlists BY <2>2, <3>2
                <5>2. p.path # new.path BY <1>6, <2>1, <3>2 DEF OnePlaylistPerFile
                <5>3. p.path \in ListFiles BY <5>1 DEF ImportTypeOK, ListRows
                <5>4. QED BY <2>2, <5>1, <5>2, <5>3
            <4>2. p.sync /\ (p.path \notin dirty \cup lost => NotForgotten(p.path, Follows(p)))
                BY <2>1, <2>3, <4>1 DEF UncrossedInv
            <4>3. Follows(p)' = Follows(p) BY DEF Follows
            <4>4. Follows(p) => NotForgotten(p.path, Follows(p))' BY <1>4, <4>1, <4>3 DEF NotForgotten
            <4>5. ASSUME ~Follows(p), p.path \notin dirty \cup lost PROVE NotForgotten(p.path, Follows(p))'
                <5>1. NotForgotten(p.path, FALSE) BY <4>2, <4>5 DEF NotForgotten
                <5>2. NotForgotten(p.path, FALSE)' BY <1>3, <4>1, <5>1
                <5>3. QED BY <5>2 DEF NotForgotten
            <4>6. QED BY <4>2, <4>4, <4>5
        <3>3. QED BY <3>1, <3>2
    <2>4. dirty' = dirty /\ lost' = lost OBVIOUS
    <2>5. \A p \in playlists' : p.name = names'[p.id] BY <2>1
    <2>6. QED BY <2>1, <2>3, <2>4, <2>5 DEF UncrossedInv
<1>7. UncrossedInv' BY <1>6 DEF UncrossedInv
<1>8. QED BY <1>1, <1>2, <1>5, <1>7

LEMMA ImportFromFolder_Put ==
    ASSUME ImportInv, ImportFromFolder, phase4.job.at = "put"
    PROVE  ImportInv'
<1> USE DEF ImportInv
<1> DEFINE job == phase4.job
           row == ListRow(job)
<1>1. /\ UNCHANGED <<listFile, userEdit, names, detached, command, lost, dirty, folders, touched, deferred>>
      /\ PutList(job, row, FALSE) /\ phase4' = [phase4 EXCEPT !.job = NoJob] /\ phase4.at = "import"
    BY DEF ImportFromFolder, Phase4Only, history
<1>2. phase4' = [at |-> "import", todo |-> phase4.todo, pending |-> phase4.pending, job |-> NoJob]
    BY <1>1, Phase4_Record
<1>3. job.old = {} => madeLists < MaxLists BY <1>1 DEF PutList
<1>4. job \in {phase4.job, command} /\ job.at # "idle" OBVIOUS
<1> HIDE DEF job
<1>5. row \in ListRows /\ Fits(job, row) /\ row.sync BY <1>3, <1>4, ListRowFits
<1> HIDE DEF row
<1>6. /\ playlists' \in SUBSET ListRows /\ madeLists' \in 0..MaxLists /\ crossed' \in BOOLEAN
    BY <1>1, <1>4, <1>5, Put_Ids
<1>7. ImportTypeOK'
    <2>1. phase4' \in [at : {"idle", "produce", "import", "finalize", "end"}, todo : SUBSET ListFiles, pending : BOOLEAN, job : Jobs]
        BY <1>2, Phase4_Record, NoJob_OK DEF JobOK
    <2>2. JobOK(phase4.job)' BY <1>2, NoJob_OK DEF JobOK
    <2>3. JobOK(command)' BY <1>1, Phase4_Record DEF JobOK
    <2>4. QED BY <1>1, <1>6, <2>1, <2>2, <2>3 DEF ImportTypeOK
<1>8. PhaseInv' BY <1>1, <1>2, NoJob_OK DEF PhaseInv
<1>9. Copies' \subseteq playlists' \cup Copies BY <1>1, <1>2, NoJob_OK DEF Copies
<1>10. job.file \notin dirty => listFile[job.file] = job.tracks BY <1>4 DEF PhaseInv, job
<1>11. \A f \in ListFiles \ {job.file} : InWork(f) => InWork(f)' BY <1>2 DEF InWork, job
<1>12. phase4'.at = phase4.at /\ detached \subseteq detached' BY <1>1, <1>2
<1>13. FALSE \in BOOLEAN OBVIOUS
<1>14. QED BY <1>1, <1>4, <1>5, <1>7, <1>8, <1>9, <1>10, <1>11, <1>12, <1>13, PutStep, Zenon

\* A step that leaves what the phase has to do and touches no row: the users'
\* copies and the command's job may become others of the same ids.
LEMMA QuietStep ==
    ASSUME ImportInv, UNCHANGED <<listFile, playlists, dirty, folders, touched, deferred, phase4, madeLists, names, detached, lost, crossed>>,
           userEdit' \in SUBSET ListRows, JobOK(command'), \A p \in userEdit' : p.name = "user",
           \A c \in command'.old \cup userEdit' : \E p \in Copies : c.id = p.id /\ c.path = p.path
    PROVE  ImportInv'
<1> USE DEF ImportInv
<1>1. ImportTypeOK'
    <2>1. JobOK(phase4.job)' /\ JobOK(command)' BY DEF ImportTypeOK, JobOK
    <2>2. QED BY <2>1 DEF ImportTypeOK
<1>2. \A c \in Copies' : \E p \in Copies : c.id = p.id /\ c.path = p.path BY DEF Copies
<1>3. IdInv' BY <1>2 DEF IdInv
<1>4. PhaseInv' BY DEF PhaseInv
<1>5. NameInv' BY DEF NameInv
<1>6. OwedListInv' BY DEF OwedListInv, NotForgotten, InWork, ByPath
<1>7. UncrossedInv' BY DEF UncrossedInv, OnePlaylistPerFile, NotForgotten, InWork, Follows
<1>8. QED BY <1>1, <1>3, <1>4, <1>5, <1>6, <1>7

LEMMA ImportFile_Inv ==
    ASSUME ImportInv, NEW f0 \in ListFiles, NEW sync \in BOOLEAN, ImportFile(f0, sync)
    PROVE  ImportInv'
<1> USE DEF ImportInv
<1>1. UNCHANGED <<listFile, playlists, dirty, folders, touched, deferred, phase4, madeLists, names, detached, lost, crossed, userEdit>>
    BY DEF ImportFile, CommandOnly
<1>2. /\ listFile[f0] # NoFile
      /\ command' = [NoJob EXCEPT !.at = "find", !.file = f0, !.tracks = listFile[f0], !.sync = sync]
    BY DEF ImportFile
<1>3. JobOK(command') /\ command'.old = {} BY <1>2 DEF ImportTypeOK, JobOK, Jobs, NoJob
<1>4. userEdit' \in SUBSET ListRows /\ \A p \in userEdit' : p.name = "user" BY <1>1 DEF ImportTypeOK, NameInv
<1>5. \A c \in command'.old \cup userEdit' : c \in Copies BY <1>1, <1>3 DEF Copies
<1>6. QED BY <1>1, <1>3, <1>4, <1>5, QuietStep

LEMMA importFromFolder_Find ==
    ASSUME ImportInv, importFromFolder, command.at = "find"
    PROVE  ImportInv'
<1> USE DEF ImportInv
<1>1. UNCHANGED <<listFile, playlists, dirty, folders, touched, deferred, phase4, madeLists, names, detached, lost, crossed, userEdit>>
    BY DEF importFromFolder, CommandOnly
<1>2. PICK old \in FindByPath(command.file) :
          command' = IF Found(command, old, command.sync).at = "put" THEN Found(command, old, command.sync) ELSE NoJob
    BY DEF importFromFolder
<1>3. command \in {phase4.job, command} /\ command.sync \in BOOLEAN BY DEF ImportTypeOK, JobOK, Jobs
<1>4. JobOK(command') /\ command'.old \subseteq playlists BY <1>2, <1>3, Found_OK, Zenon
<1>5. userEdit' \in SUBSET ListRows /\ \A p \in userEdit' : p.name = "user" BY <1>1 DEF ImportTypeOK, NameInv
<1>6. \A c \in command'.old \cup userEdit' : c \in Copies BY <1>1, <1>4 DEF Copies
<1>7. QED BY <1>1, <1>4, <1>5, <1>6, QuietStep

LEMMA RenameReads_Inv ==
    ASSUME ImportInv, NEW p0 \in playlists, RenameReads(p0)
    PROVE  ImportInv'
<1> USE DEF ImportInv
<1>1. /\ UNCHANGED <<listFile, playlists, dirty, folders, touched, deferred, phase4, madeLists, names, detached, lost, crossed, command>>
      /\ userEdit' = {[p0 EXCEPT !.name = "user"]}
    BY DEF RenameReads, UserOnly, history
<1>2. p0 \in ListRows /\ JobOK(command') BY <1>1 DEF ImportTypeOK
<1>3. userEdit' \in SUBSET ListRows /\ \A p \in userEdit' : p.name = "user" /\ p.id = p0.id /\ p.path = p0.path
    BY <1>1, <1>2 DEF ListRows
<1>4. \A c \in command'.old \cup userEdit' : \E p \in Copies : c.id = p.id /\ c.path = p.path
    BY <1>1, <1>3 DEF Copies
<1>5. QED BY <1>1, <1>2, <1>3, <1>4, QuietStep

LEMMA CreateAdmin_Inv ==
    ASSUME ImportInv, CreateAdmin
    PROVE  ImportInv'
<1> USE DEF ImportInv
<1>1. UNCHANGED <<listFile, playlists, dirty, folders, touched, deferred, phase4, madeLists, names, detached, lost, crossed, command, userEdit>>
    BY DEF CreateAdmin, history
<1>2. JobOK(command') /\ userEdit' \in SUBSET ListRows /\ \A p \in userEdit' : p.name = "user"
    BY <1>1 DEF ImportTypeOK, NameInv
<1>3. \A c \in command'.old \cup userEdit' : c \in Copies BY <1>1 DEF Copies
<1>4. QED BY <1>1, <1>2, <1>3, QuietStep

\* The command's writes: the copy it found, and the same once more, detached.
LEMMA importFromFolder_Put ==
    ASSUME ImportInv, importFromFolder, command.at # "find"
    PROVE  ImportInv'
<1> USE DEF ImportInv
<1> DEFINE job == command
<1>1. UNCHANGED <<listFile, dirty, folders, touched, deferred, phase4, names, lost, userEdit>>
    BY DEF importFromFolder, CommandOnly
<1>2. ASSUME NEW row \in ListRows, Fits(job, row), PutList(job, row, TRUE), JobOK(command'), command'.old \subseteq playlists',
             detached \subseteq detached', row.sync \/ row.id \in detached'
      PROVE  ImportInv'
    <2>1. /\ playlists' \in SUBSET ListRows /\ madeLists' \in 0..MaxLists /\ crossed' \in BOOLEAN
        BY <1>2, Put_Ids
    <2>2. ImportTypeOK'
        <3>1. JobOK(phase4.job)' BY <1>1 DEF ImportTypeOK, JobOK
        <3>2. JobOK(command)' BY <1>2 DEF JobOK
        <3>3. QED BY <1>1, <2>1, <3>1, <3>2 DEF ImportTypeOK
    <2>3. PhaseInv' BY <1>1 DEF PhaseInv
    <2>4. Copies' \subseteq playlists' \cup Copies BY <1>1, <1>2 DEF Copies
    <2>5. \A f \in ListFiles \ {job.file} : InWork(f) => InWork(f)' BY <1>1 DEF InWork
    <2>6. phase4'.at = phase4.at /\ job \in {phase4.job, command} /\ TRUE \in BOOLEAN BY <1>1
    <2> HIDE DEF job
    <2>7. TRUE \/ (job.file \notin dirty => listFile[job.file] = job.tracks) OBVIOUS
    <2>8. QED BY <1>1, <1>2, <2>2, <2>3, <2>4, <2>5, <2>6, <2>7, PutStep, Zenon
<1>3. CASE command.at = "put"
    <2> DEFINE row == ListRow(job)
    <2>1. /\ PutList(job, row, TRUE) /\ UNCHANGED detached
          /\ command' = IF command.sync THEN NoJob
                        ELSE [command EXCEPT !.at = "unsync", !.old = {p \in playlists' : p.id = row.id}]
        BY <1>3 DEF importFromFolder
    <2>2. job.old = {} => madeLists < MaxLists BY <2>1 DEF PutList
    <2>3. row \in ListRows /\ Fits(job, row) /\ row.sync BY <1>3, <2>2, ListRowFits
    <2> HIDE DEF row
    <2>4. playlists' \in SUBSET ListRows /\ \A p, q \in playlists' : p.id = q.id => p = q
        BY <2>1, <2>3, Put_Ids
    <2>5. \A p \in playlists' : p.id = row.id => p.path = job.file
        <3>1. PICK new \in ListRows : new.path = row.path /\ playlists' = {p \in playlists : p.id # row.id} \cup {new}
            BY <2>1, <2>3, Put_Row
        <3>2. QED BY <2>3, <3>1 DEF Fits
    <2>6. JobOK(command') /\ command'.old \subseteq playlists'
        <3>1. CASE command.sync BY <2>1, <3>1, NoJob_OK
        <3>2. CASE ~command.sync
            <4>1. command' = [command EXCEPT !.at = "unsync", !.old = {p \in playlists' : p.id = row.id}] BY <2>1, <3>2
            <4>2. JobOK(command) /\ command \in Jobs BY DEF ImportTypeOK, JobOK
            <4>3. /\ command' \in Jobs /\ command'.file = command.file /\ command'.tracks = command.tracks
                  /\ command'.old = {p \in playlists' : p.id = row.id}
                BY <2>4, <4>1, <4>2 DEF Jobs
            <4>4. QED BY <1>3, <2>4, <2>5, <4>2, <4>3 DEF JobOK
        <3>3. QED BY <3>1, <3>2
    <2>7. QED BY <1>2, <2>1, <2>3, <2>6
<1>4. CASE command.at = "unsync"
    <2>1. PICK p \in command.old : PutList(command, [p EXCEPT !.sync = FALSE], TRUE) /\ detached' = detached \cup {p.id}
        BY <1>4 DEF importFromFolder
    <2> DEFINE row == [p EXCEPT !.sync = FALSE]
    <2>2. command' = NoJob BY <1>4 DEF importFromFolder
    <2>3. p \in ListRows /\ p.path = command.file BY <2>1 DEF ImportTypeOK, JobOK, Jobs
    <2>4. /\ row \in ListRows /\ row.id = p.id /\ row.path = p.path /\ row.name = p.name /\ row.sync = FALSE
        BY <2>3 DEF ListRows
    <2>5. PutList(job, row, TRUE) BY <2>1
    <2> HIDE DEF row
    <2>6. Fits(job, row) BY <1>4, <2>1, <2>3, <2>4 DEF Fits
    <2>7. JobOK(command') /\ command'.old \subseteq playlists' BY <2>2, NoJob_OK
    <2>8. detached \subseteq detached' /\ row.id \in detached' BY <2>1, <2>4
    <2>9. QED BY <1>2, <2>4, <2>5, <2>6, <2>7, <2>8
<1>5. QED BY <1>3, <1>4 DEF importFromFolder

\* What users do to the rows: every row is one of before, with the same file,
\* and one that is not detached has its tracks.
LEMMA UserStep ==
    ASSUME ImportInv, UNCHANGED <<listFile, dirty, folders, touched, deferred, phase4, command, madeLists>>,
           playlists' \in SUBSET ListRows, userEdit' \subseteq userEdit, crossed' \in BOOLEAN,
           names' \in [1..MaxLists -> {"file", "user"}], \A i \in 1..MaxLists : i > madeLists => names'[i] = "file",
           lost \subseteq lost', detached \subseteq detached',
           \A p, q \in playlists' : p.id = q.id => p = q,
           \A p \in playlists' : \E c \in Copies : c.id = p.id /\ c.path = p.path,
           \A f \in ListFiles \ lost' : ByPath(f) # {} => ByPath(f)' # {},
           ~crossed' => /\ ~crossed
                        /\ \A p \in playlists' :
                              /\ p.name = names'[p.id]
                              /\ \E q \in playlists : /\ q.id = p.id /\ q.path = p.path
                                                      /\ p.id \notin detached' => q.sync = p.sync /\ q.tracks = p.tracks
    PROVE  ImportInv'
<1> USE DEF ImportInv
<1>1. ImportTypeOK'
    <2>1. JobOK(phase4.job)' /\ JobOK(command)' BY DEF ImportTypeOK, JobOK
    <2>2. QED BY <2>1 DEF ImportTypeOK
<1>2. IdInv'
    <2>1. \A c \in Copies' : \E p \in Copies : c.id = p.id /\ c.path = p.path BY DEF Copies
    <2>2. QED BY <2>1 DEF IdInv
<1>3. PhaseInv' BY DEF PhaseInv
<1>4. NameInv' BY DEF NameInv
<1>5. \A f \in ListFiles, done \in BOOLEAN : NotForgotten(f, done) => NotForgotten(f, done)' /\ NotForgotten(f, TRUE)'
    BY DEF NotForgotten, InWork
<1>6. OwedListInv'
    <2>1. ASSUME NEW f \in folders \ (dirty \cup lost') PROVE NotForgotten(f, ByPath(f) # {})'
        <3>1. f \in ListFiles /\ NotForgotten(f, ByPath(f) # {}) BY DEF ImportTypeOK, OwedListInv
        <3>2. CASE ByPath(f)' # {} BY <3>1, <3>2 DEF NotForgotten
        <3>3. CASE ByPath(f)' = {}
            <4>1. ByPath(f) = {} BY <3>1, <3>3
            <4>2. NotForgotten(f, FALSE) BY <3>1, <4>1 DEF NotForgotten
            <4>3. NotForgotten(f, FALSE)' BY <1>5, <3>1, <4>2
            <4>4. QED BY <4>3 DEF NotForgotten
        <3>4. QED BY <3>2, <3>3
    <2>2. folders' = folders /\ dirty' = dirty OBVIOUS
    <2>3. QED BY <2>1, <2>2 DEF OwedListInv
<1>7. ASSUME ~crossed' PROVE UncrossedInv'
    <2>1. /\ ~crossed
          /\ \A p \in playlists' :
                 /\ p.name = names'[p.id]
                 /\ \E q \in playlists : /\ q.id = p.id /\ q.path = p.path
                                         /\ p.id \notin detached' => q.sync = p.sync /\ q.tracks = p.tracks
        BY <1>7
    <2>2. \A p, q \in playlists : p.path = q.path => p = q BY <2>1 DEF UncrossedInv, OnePlaylistPerFile
    <2>3. \A p, q \in playlists' : p.path = q.path => p = q BY <2>1, <2>2
    <2>4. ASSUME NEW p \in playlists', p.id \notin detached'
          PROVE  p.sync /\ (p.path \notin dirty \cup lost' => NotForgotten(p.path, Follows(p))')
        <3>1. PICK q \in playlists : q.id = p.id /\ q.path = p.path /\ q.sync = p.sync /\ q.tracks = p.tracks BY <2>1, <2>4
        <3>2. q.sync /\ (q.path \notin dirty \cup lost => NotForgotten(q.path, Follows(q)))
            BY <2>1, <2>4, <3>1 DEF UncrossedInv
        <3>3. Follows(p)' = Follows(q) /\ Follows(q) \in BOOLEAN /\ p.path \in ListFiles
            BY <3>1 DEF Follows, ImportTypeOK, ListRows
        <3>4. p.path \notin dirty \cup lost' => NotForgotten(p.path, Follows(q)) BY <3>1, <3>2
        <3>5. ASSUME p.path \notin dirty \cup lost' PROVE NotForgotten(p.path, Follows(p))'
            <4>1. NotForgotten(p.path, Follows(q)) BY <3>4, <3>5
            <4>2. CASE Follows(q) BY <1>5, <3>3, <4>2 DEF NotForgotten
            <4>3. CASE ~Follows(q)
                <5>1. NotForgotten(p.path, FALSE) BY <4>1, <4>3 DEF NotForgotten
                <5>2. NotForgotten(p.path, FALSE)' BY <1>5, <3>3, <5>1
                <5>3. QED BY <5>2 DEF NotForgotten
            <4>4. QED BY <4>2, <4>3
        <3>6. QED BY <3>1, <3>2, <3>5
    <2>5. dirty' = dirty OBVIOUS
    <2>6. QED BY <2>1, <2>3, <2>4, <2>5 DEF UncrossedInv, OnePlaylistPerFile
<1>8. UncrossedInv' BY <1>7 DEF UncrossedInv
<1>9. QED BY <1>1, <1>2, <1>3, <1>4, <1>6, <1>8

LEMMA updateMetadata_Inv ==
    ASSUME ImportInv, updateMetadata
    PROVE  ImportInv'
<1> USE DEF ImportInv
<1>1. PICK edit \in userEdit :
        LET now == {p \in playlists : p.id = edit.id}
        IN  /\ userEdit' = {}
            /\ playlists' = (playlists \ now) \cup {[edit EXCEPT !.tracks = IF now = {} THEN "empty" ELSE (CHOOSE p \in now : TRUE).tracks]}
            /\ names' = [names EXCEPT ![edit.id] = "user"]
            /\ crossed' = (crossed \/ \A p \in now : p.sync # edit.sync)
            /\ UNCHANGED <<detached, lost, listChanges, UserOnly>>
    BY Zenon DEF updateMetadata
<1> DEFINE now == {p \in playlists : p.id = edit.id}
           tracks == IF now = {} THEN "empty" ELSE (CHOOSE p \in now : TRUE).tracks
           new == [edit EXCEPT !.tracks = tracks]
<1>2. /\ UNCHANGED <<listFile, dirty, folders, touched, deferred, phase4, command, madeLists, detached, lost>>
      /\ userEdit' = {} /\ names' = [names EXCEPT ![edit.id] = "user"]
    BY <1>1 DEF UserOnly
<1>3. playlists' = (playlists \ now) \cup {new} /\ crossed' = (crossed \/ \A p \in now : p.sync # edit.sync)
    BY <1>1
<1>4. edit \in ListRows /\ edit.name = "user" /\ edit \in Copies /\ now \subseteq ListRows
    BY DEF ImportTypeOK, NameInv, Copies
<1>5. now # {} => tracks = (CHOOSE p \in now : TRUE).tracks /\ (CHOOSE p \in now : TRUE) \in now OBVIOUS
<1>6. now = {} => tracks = "empty" OBVIOUS
<1>7. tracks \in Contents BY <1>4, <1>5, <1>6 DEF ListRows, Contents
<1> HIDE DEF tracks
<1>8. /\ new \in ListRows /\ new.id = edit.id /\ new.path = edit.path /\ new.sync = edit.sync /\ new.name = "user"
      /\ new.tracks = tracks
    BY <1>4, <1>7 DEF ListRows
<1> HIDE DEF new
<1>9. \A p \in playlists' : p = new \/ (p \in playlists /\ p.id # new.id) BY <1>3, <1>8
<1>10. new \in playlists' BY <1>3
<1>11. edit.id \in 1..MaxLists /\ edit.id <= madeLists BY <1>4 DEF ListRows, IdInv
<1>12. /\ names' \in [1..MaxLists -> {"file", "user"}] /\ names'[edit.id] = "user"
       /\ \A i \in 1..MaxLists : i # edit.id => names'[i] = names[i]
    BY <1>2, <1>11 DEF ImportTypeOK
<1>13. madeLists \in 0..MaxLists /\ MaxLists \in Nat BY ImportAssumption DEF ImportTypeOK
<1>14. \A i \in 1..MaxLists : i > madeLists => names'[i] = "file"
    <2>1. \A i \in 1..MaxLists : i > madeLists => i # edit.id BY <1>11, <1>13
    <2>2. QED BY <1>12, <2>1 DEF NameInv
<1>15. playlists' \in SUBSET ListRows BY <1>8, <1>9 DEF ImportTypeOK
<1>16. \A p, q \in playlists' : p.id = q.id => p = q BY <1>9 DEF IdInv
<1>17. \A p \in playlists' : \E c \in Copies : c.id = p.id /\ c.path = p.path BY <1>4, <1>8, <1>9 DEF Copies
<1>18. \A p \in now : p.path = edit.path BY <1>4 DEF IdInv, Copies
<1>19. ASSUME NEW f \in ListFiles \ lost', ByPath(f) # {} PROVE ByPath(f)' # {}
    <2>1. PICK p \in playlists : p.path = f BY <1>19 DEF ByPath
    <2>2. CASE p.id = edit.id BY <1>8, <1>10, <1>18, <2>1, <2>2 DEF ByPath
    <2>3. CASE p.id # edit.id
        <3>1. p \in playlists' BY <1>3, <2>3
        <3>2. QED BY <2>1, <3>1 DEF ByPath
    <2>4. QED BY <2>2, <2>3
<1>20. ASSUME ~crossed'
       PROVE  /\ ~crossed
              /\ \A p \in playlists' :
                    /\ p.name = names'[p.id]
                    /\ \E q \in playlists : /\ q.id = p.id /\ q.path = p.path
                                            /\ p.id \notin detached' => q.sync = p.sync /\ q.tracks = p.tracks
    <2>1. ~crossed BY <1>3, <1>20
    <2>2. PICK q0 \in now : q0.sync = edit.sync BY <1>3, <1>20
    <2>3. \A q \in now : q = q0 BY <2>2 DEF IdInv
    <2>4. q0 \in playlists /\ q0.id = edit.id /\ q0.path = edit.path BY <1>18, <2>2
    <2>5. tracks = q0.tracks BY <1>5, <2>2, <2>3
    <2>6. ASSUME NEW p \in playlists'
          PROVE  /\ p.name = names'[p.id]
                 /\ \E q \in playlists : q.id = p.id /\ q.path = p.path /\ q.sync = p.sync /\ q.tracks = p.tracks
        <3>1. CASE p = new BY <1>8, <1>12, <2>2, <2>4, <2>5, <3>1
        <3>2. CASE p # new
            <4>1. p \in playlists /\ p.id # edit.id BY <1>8, <1>9, <3>2
            <4>2. p.id \in 1..MaxLists BY <4>1 DEF ImportTypeOK, ListRows
            <4>3. p.name = names[p.id] BY <2>1, <4>1 DEF UncrossedInv
            <4>4. QED BY <1>12, <4>1, <4>2, <4>3
        <3>3. QED BY <3>1, <3>2
    <2>7. QED BY <2>1, <2>6
<1>21. crossed' \in BOOLEAN BY <1>3 DEF ImportTypeOK
<1> HIDE DEF now
<1>22. userEdit' \subseteq userEdit /\ lost \subseteq lost' /\ detached \subseteq detached' BY <1>2
<1>23. QED BY <1>2, <1>12, <1>14, <1>15, <1>16, <1>17, <1>19, <1>20, <1>21, <1>22, UserStep, Zenon

LEMMA applyFlagsOnly_Inv ==
    ASSUME ImportInv, NEW p0 \in playlists, applyFlagsOnly(p0)
    PROVE  ImportInv'
<1> USE DEF ImportInv
<1> DEFINE new == [p0 EXCEPT !.sync = ~p0.sync]
<1>1. /\ UNCHANGED <<listFile, dirty, folders, touched, deferred, phase4, command, madeLists, lost, userEdit, names, crossed>>
      /\ playlists' = (playlists \ {p0}) \cup {new} /\ detached' = detached \cup {p0.id}
    BY DEF applyFlagsOnly, UserOnly
<1>2. p0 \in ListRows BY DEF ImportTypeOK
<1>3. /\ new \in ListRows /\ new.id = p0.id /\ new.path = p0.path /\ new.name = p0.name
    BY <1>2 DEF ListRows
<1> HIDE DEF new
<1>4. \A p \in playlists' : p = new \/ (p \in playlists /\ p.id # new.id) BY <1>1, <1>3 DEF IdInv
<1>5. playlists' \in SUBSET ListRows BY <1>3, <1>4 DEF ImportTypeOK
<1>6. \A p, q \in playlists' : p.id = q.id => p = q BY <1>4 DEF IdInv
<1>7. \A p \in playlists' : \E c \in Copies : c.id = p.id /\ c.path = p.path BY <1>3, <1>4 DEF Copies
<1>8. ASSUME NEW f \in ListFiles \ lost', ByPath(f) # {} PROVE ByPath(f)' # {}
    <2>1. PICK p \in playlists : p.path = f BY <1>8 DEF ByPath
    <2>2. p \in playlists' \/ new.path = f BY <1>1, <1>3, <2>1
    <2>3. new \in playlists' BY <1>1
    <2>4. QED BY <2>1, <2>2, <2>3 DEF ByPath
<1>9. ASSUME ~crossed'
      PROVE  /\ ~crossed
             /\ \A p \in playlists' :
                   /\ p.name = names'[p.id]
                   /\ \E q \in playlists : /\ q.id = p.id /\ q.path = p.path
                                           /\ p.id \notin detached' => q.sync = p.sync /\ q.tracks = p.tracks
    BY <1>1, <1>3, <1>4, <1>9 DEF UncrossedInv
<1>10. /\ names' \in [1..MaxLists -> {"file", "user"}] /\ crossed' \in BOOLEAN
       /\ \A i \in 1..MaxLists : i > madeLists => names'[i] = "file"
    BY <1>1 DEF ImportTypeOK, NameInv
<1>11. userEdit' \subseteq userEdit /\ lost \subseteq lost' /\ detached \subseteq detached' BY <1>1
<1>12. QED BY <1>1, <1>5, <1>6, <1>7, <1>8, <1>9, <1>10, <1>11, UserStep, Zenon

LEMMA DeleteList_Inv ==
    ASSUME ImportInv, NEW p0 \in playlists, DeleteList(p0)
    PROVE  ImportInv'
<1> USE DEF ImportInv
<1>1. /\ UNCHANGED <<listFile, dirty, folders, touched, deferred, phase4, command, madeLists, userEdit, names, detached, crossed>>
      /\ playlists' = playlists \ {p0} /\ lost' = lost \cup {p0.path}
    BY DEF DeleteList, UserOnly
<1>2. playlists' \in SUBSET ListRows BY <1>1 DEF ImportTypeOK
<1>3. \A p, q \in playlists' : p.id = q.id => p = q BY <1>1 DEF IdInv
<1>4. \A p \in playlists' : \E c \in Copies : c.id = p.id /\ c.path = p.path BY <1>1 DEF Copies
<1>5. \A f \in ListFiles \ lost' : ByPath(f) # {} => ByPath(f)' # {} BY <1>1 DEF ByPath
<1>6. ASSUME ~crossed'
      PROVE  /\ ~crossed
             /\ \A p \in playlists' :
                   /\ p.name = names'[p.id]
                   /\ \E q \in playlists : /\ q.id = p.id /\ q.path = p.path
                                           /\ p.id \notin detached' => q.sync = p.sync /\ q.tracks = p.tracks
    BY <1>1, <1>6 DEF UncrossedInv
<1>7. /\ names' \in [1..MaxLists -> {"file", "user"}] /\ crossed' \in BOOLEAN
      /\ \A i \in 1..MaxLists : i > madeLists => names'[i] = "file"
    BY <1>1 DEF ImportTypeOK, NameInv
<1>8. userEdit' \subseteq userEdit /\ lost \subseteq lost' /\ detached \subseteq detached' BY <1>1
<1>9. QED BY <1>1, <1>2, <1>3, <1>4, <1>5, <1>6, <1>7, <1>8, UserStep, Zenon

LEMMA WriteList_Inv ==
    ASSUME ImportInv, NEW f0 \in ListFiles, NEW c \in Contents \cup {NoFile}, WriteList(f0, c)
    PROVE  ImportInv'
<1> USE DEF ImportInv
<1>1. /\ UNCHANGED <<playlists, folders, touched, deferred, phase4, command, madeLists, userEdit, names, detached, lost, crossed>>
      /\ listFile' = [listFile EXCEPT ![f0] = c] /\ dirty' = dirty \cup {f0}
    BY DEF WriteList, history
<1>2. /\ listFile' \in [ListFiles -> Contents \cup {NoFile}]
      /\ \A f \in ListFiles : f # f0 => listFile'[f] = listFile[f]
    BY <1>1 DEF ImportTypeOK
<1>3. ImportTypeOK'
    <2>1. JobOK(phase4.job)' /\ JobOK(command)' BY <1>1 DEF ImportTypeOK, JobOK
    <2>2. QED BY <1>1, <1>2, <2>1 DEF ImportTypeOK
<1>4. IdInv' /\ NameInv' BY <1>1 DEF IdInv, NameInv, Copies
<1>5. PhaseInv'
    <2>1. phase4.job.at # "idle" => phase4.job.file \in ListFiles BY DEF ImportTypeOK, JobOK
    <2>2. QED BY <1>1, <1>2, <2>1 DEF PhaseInv
<1>6. OwedListInv' BY <1>1 DEF OwedListInv, NotForgotten, InWork, ByPath
<1>7. UncrossedInv'
    <2>1. ASSUME NEW p \in playlists, p.path # f0 PROVE Follows(p)' = Follows(p)
        BY <1>1, <1>2, <2>1 DEF Follows, ImportTypeOK, ListRows
    <2>2. \A p \in playlists : p.path \notin dirty' => Follows(p)' = Follows(p) /\ p.path \notin dirty BY <1>1, <2>1
    <2>3. \A f, done : NotForgotten(f, done) => NotForgotten(f, done)' BY <1>1 DEF NotForgotten, InWork
    <2>4. ASSUME NEW p \in playlists, p.path \notin dirty' \cup lost, NotForgotten(p.path, Follows(p))
          PROVE  NotForgotten(p.path, Follows(p))'
        <3>1. Follows(p)' = Follows(p) /\ Follows(p) \in BOOLEAN BY <2>2, <2>4 DEF Follows
        <3>2. QED BY <1>1, <2>4, <3>1 DEF NotForgotten, InWork
    <2>5. OnePlaylistPerFile' <=> OnePlaylistPerFile BY <1>1 DEF OnePlaylistPerFile
    <2>6. QED BY <1>1, <2>2, <2>4, <2>5 DEF UncrossedInv
<1>8. QED BY <1>3, <1>4, <1>5, <1>6, <1>7

LEMMA ImportInit_Inv ==
    ASSUME ImportInit
    PROVE  ImportInv
<1> USE ImportAssumption DEF ImportInit
<1>1. JobOK(NoJob) /\ NoJob \in Jobs /\ NoJob.old = {} /\ NoJob.at = "idle" BY NoJob_OK DEF JobOK
<1>2. phase4 = [at |-> "idle", todo |-> {}, pending |-> FALSE, job |-> NoJob] BY DEF Scanless
<1>3. ImportTypeOK
    <2>1. listFile \in [ListFiles -> Contents \cup {NoFile}] BY DEF Contents
    <2>2. JobOK(phase4.job) /\ JobOK(command) /\ phase4.job \in Jobs BY <1>1, <1>2
    <2>3. phase4 \in [at : {"idle", "produce", "import", "finalize", "end"}, todo : SUBSET ListFiles, pending : BOOLEAN, job : Jobs]
        BY <1>1, <1>2
    <2>4. madeLists \in 0..MaxLists /\ names \in [1..MaxLists -> {"file", "user"}] OBVIOUS
    <2>5. deferred \in BOOLEAN /\ crossed \in BOOLEAN BY Zenon
    <2>6. QED BY <2>1, <2>2, <2>3, <2>4, <2>5 DEF ImportTypeOK
<1>4. Copies = {} BY <1>1, <1>2 DEF Copies
<1>5. IdInv BY <1>4 DEF IdInv
<1>6. PhaseInv BY <1>1, <1>2 DEF PhaseInv
<1>7. NameInv BY DEF NameInv
<1>8. OwedListInv BY DEF OwedListInv
<1>9. UncrossedInv BY DEF UncrossedInv, OnePlaylistPerFile
<1>10. QED BY <1>3, <1>5, <1>6, <1>7, <1>8, <1>9 DEF ImportInv

LEMMA ImportInv_Stutter ==
    ASSUME ImportInv, UNCHANGED importVars
    PROVE  ImportInv'
<1> USE DEF ImportInv, importVars
<1>1. JobOK(command') /\ userEdit' \in SUBSET ListRows /\ \A p \in userEdit' : p.name = "user"
    BY DEF ImportTypeOK, NameInv
<1>2. \A c \in command'.old \cup userEdit' : c \in Copies BY DEF Copies
<1>3. QED BY <1>1, <1>2, QuietStep

LEMMA ImportNext_Inv ==
    ASSUME ImportInv, [ImportNext]_importVars
    PROVE  ImportInv'
<1>1. CASE ImportPhase1 BY <1>1, ImportPhase1_Inv
<1>2. CASE produce BY <1>2, produce_Inv
<1>3. CASE ImportFromFolder
    BY <1>3, ImportFromFolder_Find, ImportFromFolder_Put DEF ImportFromFolder
<1>4. CASE finalize BY <1>4, finalize_Inv
<1>5. CASE ImportScanEnds \/ ImportScanFails BY <1>5, ScanOver_Inv
<1>6. CASE \E f \in ListFiles : processPlaylistsInFolder(f) \/ FolderUnreadable(f)
    BY <1>6, processPlaylistsInFolder_Inv, FolderUnreadable_Inv
<1>7. CASE importFromFolder BY <1>7, importFromFolder_Find, importFromFolder_Put
<1>8. CASE updateMetadata BY <1>8, updateMetadata_Inv
<1>9. CASE CreateAdmin BY <1>9, CreateAdmin_Inv
<1>10. CASE \E f \in ListFiles, sync \in BOOLEAN : ImportFile(f, sync) BY <1>10, ImportFile_Inv
<1>11. CASE \E p \in playlists : RenameReads(p) \/ applyFlagsOnly(p) \/ DeleteList(p)
    BY <1>11, RenameReads_Inv, applyFlagsOnly_Inv, DeleteList_Inv
<1>12. CASE \E f \in ListFiles, c \in Contents \cup {NoFile} : WriteList(f, c) BY <1>12, WriteList_Inv
<1>13. CASE UNCHANGED importVars BY <1>13, ImportInv_Stutter
<1>14. QED
    BY <1>1, <1>2, <1>3, <1>4, <1>5, <1>6, <1>7, <1>8, <1>9, <1>10, <1>11, <1>12, <1>13, Zenon DEF ImportNext, Phase4Steps

LEMMA ImportInv_Faithful ==
    ASSUME ImportInv
    PROVE  ImportsAreFaithful
<1> USE DEF ImportInv
<1>1. DeferredIsNotForgotten BY DEF DeferredIsNotForgotten, OwedListInv, NotForgotten
<1>2. NamesSurviveImports /\ OnePlaylistPerFile BY DEF NamesSurviveImports, OnePlaylistPerFile, UncrossedInv
<1>3. SyncedFollowsFile
    BY DEF SyncedFollowsFile, UncrossedInv, NotForgotten, Follows
<1>4. QED BY <1>1, <1>2, <1>3 DEF ImportsAreFaithful

\* Files become playlists once each, are followed while synchronised, keep the
\* users' names, and none that was put off is forgotten: for any files, any
\* number of scans, import commands, users' changes and faults.
THEOREM ImportsHold == ImportSpec => []ImportsAreFaithful
<1>1. ImportInit => ImportInv BY ImportInit_Inv
<1>2. ImportInv /\ [ImportNext]_importVars => ImportInv' BY ImportNext_Inv
<1>3. ImportInv => ImportsAreFaithful BY ImportInv_Faithful
<1>4. QED BY <1>1, <1>2, <1>3, PTL DEF ImportSpec

LEMMA LeastIndex == ASSUME NEW S \in SUBSET Nat, S # {} PROVE \E x \in S : \A y \in S : x <= y
<1>1. PICK x \in S : \A y \in S : ~(<<y, x>> \in OpToRel(<, Nat))
    BY NatLessThanWellFounded, WFMin
<1>2. \A y \in S : ~(y < x) BY <1>1 DEF OpToRel
<1>3. QED BY <1>2

-------------------------------------------------------------------------------
(* PlayQueue.  Without crossing requests there is one row, and what a request  *)
(* was checked against is still there when it writes.                         *)

QueueRows == [items : Seq(QueueSongs), current : Nat, id : Nat]
SaveWork == [at : {"retrieve", "clear", "put"}, cols : {{}, {"items"}, {"current"}, {"items", "current"}, {"position"}},
             items : Seq(QueueSongs), current : Nat, id : Nat \cup {NoQueue}]

InList(c, items) == items # <<>> => InBounds(c, items)
GoodQueue == queue = <<>> \/ \E r \in QueueRows : InList(r.current, r.items) /\ queue = <<r>>
RowIn(q) == IF q = <<>> THEN [items |-> <<>>, current |-> 0, id |-> NoQueue] ELSE q[1]
RowNow == RowIn(queue)

StillFits(q, j) ==
    /\ j.cols = {} => InList(j.current, j.items) /\ (j.at = "put" => q = <<>>)
    /\ j.cols # {} => j.at # "clear" /\ (j.at = "put" => j.id = RowIn(q).id)
    /\ j.cols = {"items"} => InBounds(RowIn(q).current, j.items) /\ j.current = 0
    /\ j.cols = {"current"} => InBounds(j.current, RowIn(q).items)
    /\ j.cols = {"items", "current"} => InBounds(j.current, j.items)
    /\ j.cols = {"position"} => j.items = <<>>

OneSave == \A g, h \in Devices : saving[g] # NotSaving /\ saving[h] # NotSaving => g = h
Uncrossed == ~savesCrossed /\ queueFaults = 0
QueueInv ==
    /\ savesCrossed \in BOOLEAN /\ queueFaults \in Nat
    /\ Uncrossed => /\ GoodQueue
                    /\ saving \in [Devices -> SaveWork \cup {NotSaving}] /\ OneSave
                    /\ \A h \in Devices : saving[h] # NotSaving => StillFits(queue, saving[h])

LEMMA SavedIndex ==
    ASSUME NEW items \in Seq(QueueSongs), NEW id PROVE SavePlayQueue(items, id) \in Nat /\ InList(SavePlayQueue(items, id), items)
<1> DEFINE at == {i \in DOMAIN items : items[i] = id}
<1>1. CASE at = {} BY <1>1 DEF SavePlayQueue, InList, InBounds
<1>2. CASE at # {}
    <2>1. \E i \in at : \A k \in at : i <= k
        <3>1. at \in SUBSET Nat OBVIOUS
        <3> HIDE DEF at
        <3>2. QED BY <1>2, <3>1, LeastIndex
    <2> DEFINE x == CHOOSE i \in at : \A k \in at : i <= k
    <2>2. x \in at BY <2>1
    <2>3. SavePlayQueue(items, id) = x - 1 BY <1>2 DEF SavePlayQueue
    <2>4. at \subseteq DOMAIN items /\ DOMAIN items = 1..Len(items) /\ Len(items) \in Nat OBVIOUS
    <2> HIDE DEF x, at
    <2>5. x \in DOMAIN items /\ x \in Nat \ {0} BY <2>2, <2>4
    <2>6. QED BY <2>3, <2>5 DEF InList, InBounds
<1>3. QED BY <1>1, <1>2

\* The songs up to one that are all kept keep their places.
LEMMA KeptPlaces ==
    ASSUME NEW items \in Seq(QueueSongs), NEW i \in DOMAIN items, \A k \in 1..i : items[k] \notin gone
    PROVE  i \in DOMAIN loadTracks(items) /\ loadTracks(items)[i] = items[i]
<1> DEFINE kept == {k \in DOMAIN items : items[k] \notin gone}
           below(n) == {k \in kept : k <= n}
           rank(n) == Cardinality(below(n))
<1>1. i \in Nat \ {0} /\ DOMAIN items = 1..Len(items) /\ Len(items) \in Nat /\ i <= Len(items) OBVIOUS
<1>2. kept \subseteq 1..Len(items) /\ \A n \in 1..i : n \in kept BY <1>1
<1>3. loadTracks(items) = [n \in 1..Cardinality(kept) |-> items[CHOOSE k \in kept : rank(k) = n]] BY DEF loadTracks
<1> HIDE DEF kept
<1>4. IsFiniteSet(1..Len(items)) BY <1>1, FS_Interval
<1>5. IsFiniteSet(kept) BY <1>2, <1>4, FS_Subset
<1>6. \A n \in kept : n \in Nat /\ below(n) \subseteq kept BY <1>1, <1>2
<1>7. ASSUME NEW n \in 1..i PROVE below(n) = 1..n
    <2>1. n \in Nat /\ n <= i BY <1>1
    <2>2. \A k \in kept : k <= n => k \in 1..n BY <1>1, <1>2, <2>1
    <2>3. \A k \in 1..n : k \in kept /\ k <= n BY <1>1, <1>2, <2>1
    <2>4. QED BY <2>2, <2>3
<1>8. ASSUME NEW n \in 1..i PROVE rank(n) = n
    <2>1. n \in Nat /\ n >= 1 BY <1>1
    <2>2. Cardinality(1..n) = n BY <2>1, FS_Interval
    <2>3. QED BY <1>7, <2>2
<1>9. ASSUME NEW n \in kept, n > i PROVE rank(n) > i
    <2>1. (1..i) \cup {n} \subseteq below(n) BY <1>1, <1>2, <1>9
    <2>2. IsFiniteSet(below(n)) BY <1>5, <1>6, FS_Subset
    <2>3. IsFiniteSet(1..i) /\ Cardinality(1..i) = i BY <1>1, FS_Interval
    <2>4. n \notin 1..i BY <1>1, <1>9
    <2>5. Cardinality((1..i) \cup {n}) = i + 1 BY <2>3, <2>4, FS_AddElement
    <2> HIDE DEF below
    <2>6. Cardinality((1..i) \cup {n}) <= rank(n) BY <2>1, <2>2, FS_Subset
    <2>7. rank(n) \in Nat BY <2>2, FS_CardinalityType
    <2>8. QED BY <1>1, <2>5, <2>6, <2>7
<1>10. i \in kept /\ rank(i) = i BY <1>1, <1>2, <1>8
<1>11. below(i) \subseteq kept BY <1>6, <1>10
<1> HIDE DEF below
<1>12. rank(i) <= Cardinality(kept) BY <1>5, <1>11, FS_Subset
<1>13. Cardinality(kept) \in Nat BY <1>5, FS_CardinalityType
<1> HIDE DEF rank
<1>14. ASSUME NEW n \in kept, rank(n) = i PROVE n = i
    <2>1. n \in Nat \ {0} BY <1>1, <1>2
    <2>2. CASE n < i
        <3>1. rank(n) = n BY <1>1, <1>8, <2>1, <2>2
        <3>2. QED BY <1>14, <3>1
    <2>3. CASE n > i BY <1>1, <1>9, <1>14, <2>1, <2>3
    <2>4. QED BY <1>1, <2>1, <2>2, <2>3
<1>15. (CHOOSE n \in kept : rank(n) = i) = i BY <1>10, <1>14
<1>16. i \in 1..Cardinality(kept) BY <1>1, <1>10, <1>12, <1>13
<1>17. QED BY <1>3, <1>15, <1>16

LEMMA QueueInit_Inv == ASSUME QueueInit PROVE QueueInv
BY DEF QueueInit, QueueInv, GoodQueue, OneSave, NotSaving

\* What is stored now, as the one row there is.
LEMMA RowNow_Type ==
    ASSUME GoodQueue
    PROVE  /\ Retrieved = {RowNow}
           /\ RowNow.items \in Seq(QueueSongs) /\ RowNow.current \in Nat /\ RowNow.id \in Nat \cup {NoQueue}
           /\ queue # <<>> => RowNow \in QueueRows /\ queue = <<RowNow>> /\ RowNow.id # NoQueue /\ InList(RowNow.current, RowNow.items)
<1>1. CASE queue = <<>> BY <1>1 DEF Retrieved, RowNow, RowIn
<1>2. CASE queue # <<>>
    <2>1. PICK r \in QueueRows : InList(r.current, r.items) /\ queue = <<r>> BY <1>2 DEF GoodQueue
    <2>2. RowNow = r BY <2>1 DEF RowNow, RowIn
    <2>3. Retrieved = {queue[i] : i \in DOMAIN queue} BY <1>2 DEF Retrieved
    <2>4. DOMAIN queue = {1} /\ queue[1] = r BY <2>1
    <2>5. r.id \in Nat /\ r.id # NoQueue BY <2>1, PlayQueueAssumption DEF QueueRows, PlayQueueAssumption
    <2>6. QED BY <2>1, <2>2, <2>3, <2>4, <2>5 DEF QueueRows
<1>3. QED BY <1>1, <1>2

\* A request moves on, or a new one begins when there is none.
LEMMA QueueStep ==
    ASSUME QueueInv, Uncrossed, NEW h \in Devices, NEW k \in SaveWork \cup {NotSaving}, saving' = [saving EXCEPT ![h] = k],
           \A g \in Devices : saving[g] # NotSaving => g = h, GoodQueue', k # NotSaving => StillFits(queue', k),
           savesCrossed' \in BOOLEAN, queueFaults' \in Nat
    PROVE  QueueInv'
<1>1. \A g \in Devices : saving'[g] = IF g = h THEN k ELSE saving[g] BY DEF QueueInv
<1>2. saving' \in [Devices -> SaveWork \cup {NotSaving}] BY DEF QueueInv
<1>3. OneSave' BY <1>1 DEF OneSave
<1>4. \A g \in Devices : saving'[g] # NotSaving => StillFits(queue', saving'[g]) BY <1>1
<1>5. QED BY <1>2, <1>3, <1>4 DEF QueueInv

\* A request begins: uncrossed, if no other one is there.
LEMMA Begin_Inv ==
    ASSUME QueueInv, NEW h \in Devices, NEW j \in SaveWork, BeginSave(h, j), UNCHANGED <<queue, queueFaults>>,
           savesCrossed' = (savesCrossed \/ QueueBusy(h)), Uncrossed => StillFits(queue, j)
    PROVE  QueueInv'
<1>1. savesCrossed' \in BOOLEAN /\ queueFaults' \in Nat BY DEF QueueInv, QueueBusy
<1>2. CASE Uncrossed'
    <2>1. Uncrossed /\ ~QueueBusy(h) BY <1>2 DEF QueueInv, Uncrossed
    <2>2. \A g \in Devices : saving[g] # NotSaving => g = h BY <2>1 DEF QueueBusy
    <2>3. saving' = [saving EXCEPT ![h] = j] BY DEF BeginSave
    <2>4. GoodQueue' BY <2>1 DEF QueueInv, GoodQueue
    <2>5. StillFits(queue', j) BY <2>1 DEF StillFits, RowNow, RowIn
    <2>6. QED BY <1>1, <2>1, <2>2, <2>3, <2>4, <2>5, QueueStep
<1>3. CASE ~Uncrossed' BY <1>1, <1>3 DEF QueueInv
<1>4. QED BY <1>2, <1>3

LEMMA QueueTypes ==
    /\ \A l \in QueueLists : l \in Seq(QueueSongs)
    /\ QueueIndices \subseteq Nat
    /\ <<>> \in Seq(QueueSongs)
<1>1. \A l \in QueueLists : l \in Seq(QueueSongs) BY PlayQueueAssumption DEF PlayQueueAssumption
<1>2. ASSUME NEW l \in QueueLists, NEW i \in DOMAIN l PROVE i - 1 \in Nat BY <1>1
<1>3. QED BY <1>1, <1>2 DEF QueueIndices

LEMMA saveQueue_Inv == ASSUME QueueInv, NEW h \in Devices, saveQueue(h) PROVE QueueInv'
<1>1. PICK items \in QueueLists :
        \E c \in SavePlayQueueByIndex(items) \cup {SavePlayQueue(items, NoQueue)} \cup {SavePlayQueue(items, items[i]) : i \in DOMAIN items} :
          BeginSave(h, [at |-> "retrieve", cols |-> {}, items |-> items, current |-> c, id |-> NoQueue])
    BY DEF saveQueue
<1>2. PICK c \in SavePlayQueueByIndex(items) \cup {SavePlayQueue(items, NoQueue)} \cup {SavePlayQueue(items, items[i]) : i \in DOMAIN items} :
        BeginSave(h, [at |-> "retrieve", cols |-> {}, items |-> items, current |-> c, id |-> NoQueue])
    BY <1>1
<1>3. items \in Seq(QueueSongs) BY QueueTypes
<1>4. c \in Nat /\ InList(c, items)
    <2>1. CASE c \in SavePlayQueueByIndex(items)
        <3>1. CASE items = <<>> BY <2>1, <3>1 DEF SavePlayQueueByIndex, InList
        <3>2. CASE items # <<>>
            <4>1. PICK i \in DOMAIN items : c = i - 1 BY <2>1, <3>2 DEF SavePlayQueueByIndex
            <4>2. i \in Nat \ {0} BY <1>3
            <4>3. QED BY <4>1, <4>2 DEF InList, InBounds
        <3>3. QED BY <3>1, <3>2
    <2>2. CASE c = SavePlayQueue(items, NoQueue) BY <1>3, <2>2, SavedIndex
    <2>3. CASE c \in {SavePlayQueue(items, items[i]) : i \in DOMAIN items} BY <1>3, <2>3, SavedIndex
    <2>4. QED BY <2>1, <2>2, <2>3
<1> DEFINE j == [at |-> "retrieve", cols |-> {}, items |-> items, current |-> c, id |-> NoQueue]
<1>5. j \in SaveWork BY <1>3, <1>4 DEF SaveWork
<1>6. StillFits(queue, j) BY <1>4 DEF StillFits, RowNow
<1>7. UNCHANGED <<queue, queueFaults>> /\ savesCrossed' = (savesCrossed \/ QueueBusy(h)) BY DEF saveQueue
<1> HIDE DEF j
<1>8. BeginSave(h, j) BY <1>2 DEF j
<1>9. QED BY <1>5, <1>6, <1>7, <1>8, Begin_Inv

LEMMA updateQueue_Inv == ASSUME QueueInv, NEW h \in Devices, updateQueue(h) PROVE QueueInv'
<1> DEFINE k(items, c, cols) ==
        [at |-> "retrieve", cols |-> cols, items |-> IF "items" \in cols THEN items ELSE <<>>,
         current |-> IF "current" \in cols THEN c ELSE 0, id |-> NoQueue]
           Checked(items, c, cols, old) ==
               /\ cols = {"items"} => InBounds(old.current, items)
               /\ cols = {"current"} => InBounds(c, old.items)
               /\ cols = {"items", "current"} => InBounds(c, items)
<1>1. PICK items \in QueueLists, c \in QueueIndices, cols \in {{"items"}, {"current"}, {"items", "current"}, {"position"}} :
        (\E old \in Retrieved : Checked(items, c, cols, old)) /\ BeginSave(h, k(items, c, cols))
    BY DEF updateQueue
<1>2. items \in Seq(QueueSongs) /\ c \in Nat BY QueueTypes
<1> DEFINE j == k(items, c, cols)
<1>3. j \in SaveWork BY <1>2, QueueTypes DEF SaveWork
<1>4. ASSUME Uncrossed PROVE StillFits(queue, j)
    <2>1. GoodQueue BY <1>4 DEF QueueInv
    <2>2. Checked(items, c, cols, RowNow) BY <1>1, <2>1, RowNow_Type
    <2>3. CASE cols = {"items"} BY <2>2, <2>3 DEF StillFits, RowNow
    <2>4. CASE cols = {"current"} BY <2>2, <2>4 DEF StillFits, RowNow
    <2>5. CASE cols = {"items", "current"} BY <2>2, <2>5 DEF StillFits, RowNow
    <2>6. CASE cols = {"position"} BY <2>2, <2>6 DEF StillFits, RowNow
    <2>7. QED BY <2>3, <2>4, <2>5, <2>6
<1>5. UNCHANGED <<queue, queueFaults>> /\ savesCrossed' = (savesCrossed \/ QueueBusy(h)) BY DEF updateQueue
<1>6. BeginSave(h, j) BY <1>1
<1> HIDE DEF j
<1>7. QED BY <1>3, <1>4, <1>5, <1>6, Begin_Inv

\* The request in progress is the only one, and fits.
LEMMA OnlySave ==
    ASSUME QueueInv, Uncrossed, NEW h \in Devices, saving[h] # NotSaving
    PROVE  saving[h] \in SaveWork /\ StillFits(queue, saving[h]) /\ GoodQueue /\ \A g \in Devices : saving[g] # NotSaving => g = h
BY DEF QueueInv, OneSave

LEMMA StoreRetrieve_Inv == ASSUME QueueInv, NEW h \in Devices, StoreRetrieve(h) PROVE QueueInv'
<1>1. UNCHANGED <<queue, savesCrossed, queueFaults>> /\ saving[h] # NotSaving /\ saving[h].at = "retrieve" BY DEF StoreRetrieve
<1>2. CASE ~Uncrossed BY <1>1, <1>2 DEF QueueInv, Uncrossed
<1>3. CASE Uncrossed
    <2> DEFINE j == saving[h]
               k == [j EXCEPT !.id = RowNow.id, !.at = IF j.cols = {} THEN "clear" ELSE "put"]
    <2>1. j \in SaveWork /\ StillFits(queue, j) /\ GoodQueue /\ \A g \in Devices : saving[g] # NotSaving => g = h
        BY <1>1, <1>3, OnlySave
    <2>2. saving' = [saving EXCEPT ![h].id = RowNow.id, ![h].at = IF saving[h].cols = {} THEN "clear" ELSE "put"]
        BY <2>1, RowNow_Type DEF StoreRetrieve
    <2>3. saving' = [saving EXCEPT ![h] = k] BY <2>2
    <2>4. RowNow.id \in Nat \cup {NoQueue} BY <2>1, RowNow_Type
    <2>5. /\ k \in SaveWork /\ k.id = RowNow.id /\ k.at = (IF j.cols = {} THEN "clear" ELSE "put")
          /\ k.items = j.items /\ k.current = j.current /\ k.cols = j.cols
        BY <2>1, <2>4 DEF SaveWork
    <2> HIDE DEF k
    <2>6. StillFits(queue, k) BY <2>1, <2>5 DEF StillFits, RowNow
    <2>7. StillFits(queue', k) /\ GoodQueue' BY <1>1, <2>1, <2>6 DEF StillFits, RowNow, RowIn, GoodQueue
    <2>8. savesCrossed' \in BOOLEAN /\ queueFaults' \in Nat BY <1>1 DEF QueueInv
    <2>9. QED BY <1>3, <2>1, <2>3, <2>5, <2>7, <2>8, QueueStep
<1>4. QED BY <1>2, <1>3

LEMMA clearPlayQueue_Inv == ASSUME QueueInv, NEW h \in Devices, clearPlayQueue(h) PROVE QueueInv'
<1>1. UNCHANGED <<savesCrossed, queueFaults>> /\ queue' = <<>> /\ saving[h] # NotSaving /\ saving[h].at = "clear" BY DEF clearPlayQueue
<1>2. CASE ~Uncrossed BY <1>1, <1>2 DEF QueueInv, Uncrossed
<1>3. CASE Uncrossed
    <2> DEFINE j == saving[h]
               n == [j EXCEPT !.at = "put"]
               k == IF j.items = <<>> THEN NotSaving ELSE n
    <2>1. j \in SaveWork /\ StillFits(queue, j) /\ \A g \in Devices : saving[g] # NotSaving => g = h BY <1>1, <1>3, OnlySave
    <2>2. saving' = [saving EXCEPT ![h] = k] BY DEF clearPlayQueue
    <2>3. j.cols = {} BY <1>1, <2>1 DEF StillFits, RowNow
    <2>4. n \in SaveWork /\ n.items = j.items /\ n.current = j.current /\ n.cols = {} BY <2>1, <2>3 DEF SaveWork
    <2> HIDE DEF n
    <2>5. StillFits(queue', n) BY <1>1, <2>1, <2>3, <2>4 DEF StillFits, RowNow
    <2>6. GoodQueue' BY <1>1 DEF GoodQueue
    <2>7. savesCrossed' \in BOOLEAN /\ queueFaults' \in Nat BY <1>1 DEF QueueInv
    <2>8. QED BY <1>3, <2>1, <2>2, <2>4, <2>5, <2>6, <2>7, QueueStep
<1>4. QED BY <1>2, <1>3

\* The one row is updated, or becomes the one row.
LEMMA put_Inv == ASSUME QueueInv, NEW h \in Devices, put(h) PROVE QueueInv'
<1> DEFINE j == saving[h]
           hit == {i \in DOMAIN queue : j.id # NoQueue /\ queue[i].id = j.id}
           fresh == CHOOSE n \in 1..(Len(queue) + 1) : \A i \in DOMAIN queue : queue[i].id # n
<1>1. UNCHANGED <<savesCrossed, queueFaults>> /\ j # NotSaving /\ j.at = "put" /\ saving' = [saving EXCEPT ![h] = NotSaving]
    BY DEF put
<1>2. CASE ~Uncrossed BY <1>1, <1>2 DEF QueueInv, Uncrossed
<1>3. CASE Uncrossed
    <2>1. j \in SaveWork /\ StillFits(queue, j) /\ GoodQueue /\ \A g \in Devices : saving[g] # NotSaving => g = h BY <1>1, <1>3, OnlySave
    <2>2. j.items \in Seq(QueueSongs) /\ j.current \in Nat /\ j.id \in Nat \cup {NoQueue}
          /\ j.cols \in {{}, {"items"}, {"current"}, {"items", "current"}, {"position"}}
        BY <2>1 DEF SaveWork
    <2>3. CASE queue = <<>>
        <3>1. hit = {} BY <2>3
        <3>2. fresh \in Nat
            <4>1. \E n \in 1..(Len(queue) + 1) : \A i \in DOMAIN queue : queue[i].id # n BY <2>3
            <4>2. fresh \in 1..(Len(queue) + 1) BY <4>1
            <4>3. QED BY <2>3, <4>2
        <3> DEFINE r == [items |-> j.items, current |-> j.current, id |-> IF j.id = NoQueue THEN fresh ELSE j.id]
        <3>3. queue' = Append(queue, r) BY <3>1 DEF put
        <3>4. r \in QueueRows /\ r.current = j.current /\ r.items = j.items BY <2>2, <3>2 DEF QueueRows
        <3> HIDE DEF r
        <3>5. queue' = <<r>> BY <2>3, <3>3
        <3>6. InList(j.current, j.items)
            <4>1. RowNow.current = 0 /\ RowNow.items = <<>> BY <2>3 DEF RowNow, RowIn
            <4>2. CASE j.cols = {} BY <2>1, <4>2 DEF StillFits, RowNow
            <4>3. CASE j.cols = {"items"} BY <2>1, <4>1, <4>3 DEF StillFits, RowNow, InList
            <4>4. CASE j.cols = {"current"} BY <2>1, <4>1, <4>4 DEF StillFits, RowNow, InBounds
            <4>5. CASE j.cols = {"items", "current"} BY <2>1, <4>5 DEF StillFits, RowNow, InList
            <4>6. CASE j.cols = {"position"} BY <2>1, <4>6 DEF StillFits, RowNow, InList
            <4>7. QED BY <2>2, <4>2, <4>3, <4>4, <4>5, <4>6
        <3>7. GoodQueue' BY <3>4, <3>5, <3>6 DEF GoodQueue
        <3>8. QED BY <1>1, <1>3, <2>1, <3>7, QueueStep DEF QueueInv
    <2>4. CASE queue # <<>>
        <3> DEFINE r == RowNow
                   n == [r EXCEPT !.items = IF "items" \in j.cols THEN j.items ELSE @, !.current = IF "current" \in j.cols THEN j.current ELSE @]
        <3>1. r \in QueueRows /\ queue = <<r>> /\ r.id # NoQueue /\ InList(r.current, r.items) BY <2>1, <2>4, RowNow_Type
        <3>2. j.cols # {} /\ j.id = r.id BY <1>1, <2>1, <2>4 DEF StillFits, RowNow
        <3>3. DOMAIN queue = {1} /\ queue[1] = r BY <3>1
        <3>4. hit = {1} BY <3>1, <3>2, <3>3
        <3>5. queue' = [i \in DOMAIN queue |-> IF i \notin hit THEN queue[i]
                          ELSE [queue[i] EXCEPT !.items = IF "items" \in j.cols THEN j.items ELSE @, !.current = IF "current" \in j.cols THEN j.current ELSE @]]
            BY <3>4 DEF put
        <3>6. queue' = [i \in {1} |-> n] BY <3>3, <3>4, <3>5
        <3>7. /\ n \in QueueRows /\ n.items = (IF "items" \in j.cols THEN j.items ELSE r.items)
              /\ n.current = (IF "current" \in j.cols THEN j.current ELSE r.current)
            BY <2>2, <3>1 DEF QueueRows
        <3> HIDE DEF n
        <3>8. queue' = <<n>> BY <3>6
        <3>9. InList(n.current, n.items)
            <4>1. CASE j.cols = {"items"} BY <2>1, <3>7, <4>1 DEF StillFits, RowNow, InList
            <4>2. CASE j.cols = {"current"} BY <2>1, <3>7, <4>2 DEF StillFits, RowNow, InList
            <4>3. CASE j.cols = {"items", "current"} BY <2>1, <3>7, <4>3 DEF StillFits, RowNow, InList
            <4>4. CASE j.cols = {"position"} BY <3>1, <3>7, <4>4
            <4>5. QED BY <2>2, <3>2, <4>1, <4>2, <4>3, <4>4
        <3>10. GoodQueue' BY <3>7, <3>8, <3>9 DEF GoodQueue
        <3>11. QED BY <1>1, <1>3, <2>1, <3>10, QueueStep DEF QueueInv
    <2>5. QED BY <2>3, <2>4
<1>4. QED BY <1>2, <1>3

LEMMA QueueNext_Inv == ASSUME QueueInv, [QueueNext]_queueVars PROVE QueueInv'
<1>1. ASSUME NEW h \in Devices, saveQueue(h) PROVE QueueInv' BY <1>1, saveQueue_Inv
<1>2. ASSUME NEW h \in Devices, updateQueue(h) PROVE QueueInv' BY <1>2, updateQueue_Inv
<1>3. ASSUME NEW h \in Devices, StoreRetrieve(h) PROVE QueueInv' BY <1>3, StoreRetrieve_Inv
<1>4. ASSUME NEW h \in Devices, clearPlayQueue(h) PROVE QueueInv' BY <1>4, clearPlayQueue_Inv
<1>5. ASSUME NEW h \in Devices, put(h) PROVE QueueInv' BY <1>5, put_Inv
<1>6. ASSUME NEW h \in Devices, QueueFails(h) PROVE QueueInv'
    <2>1. queueFaults' \in Nat /\ queueFaults' # 0 /\ savesCrossed' \in BOOLEAN BY <1>6 DEF QueueFails, QueueInv
    <2>2. QED BY <2>1 DEF QueueInv, Uncrossed
<1>7. CASE clearQueue
    <2>1. queue' = <<>> /\ UNCHANGED <<saving, queueFaults>>
          /\ savesCrossed' = (savesCrossed \/ \E g \in Devices : saving[g] # NotSaving)
        BY <1>7 DEF clearQueue
    <2>2. savesCrossed' \in BOOLEAN /\ queueFaults' \in Nat BY <2>1 DEF QueueInv
    <2>3. Uncrossed' => Uncrossed /\ \A g \in Devices : saving[g] = NotSaving BY <2>1 DEF Uncrossed, QueueInv
    <2>4. GoodQueue' BY <2>1 DEF GoodQueue
    <2>5. QED BY <2>1, <2>2, <2>3, <2>4 DEF QueueInv, OneSave
<1>8. CASE SongGoes
    <2>1. UNCHANGED <<queue, saving, savesCrossed, queueFaults>> BY <1>8 DEF SongGoes
    <2>2. QED BY <2>1 DEF QueueInv, Uncrossed, GoodQueue, OneSave, StillFits, RowNow, RowIn
<1>9. CASE UNCHANGED queueVars
    <2>1. UNCHANGED <<queue, saving, savesCrossed, queueFaults>> BY <1>9 DEF queueVars
    <2>2. QED BY <2>1 DEF QueueInv, Uncrossed, GoodQueue, OneSave, StillFits, RowNow, RowIn
<1>10. QED BY <1>1, <1>2, <1>3, <1>4, <1>5, <1>6, <1>7, <1>8, <1>9 DEF QueueNext

LEMMA QueueInv_Coherent == ASSUME QueueInv PROVE QueueIsCoherent
<1>1. SUFFICES ASSUME ~savesCrossed, queueFaults = 0
      PROVE  /\ Len(queue) <= 1
             /\ \A i \in DOMAIN queue :
                 LET row == queue[i]
                     upTo == {row.items[k] : k \in {n \in DOMAIN row.items : n <= row.current + 1}}
                     byIndex == GetPlayQueueByIndex(row)
                 IN  row.items # <<>> /\ upTo \cap gone = {} =>
                         /\ InBounds(row.current, row.items) /\ GetPlayQueue(row).current = row.items[row.current + 1]
                         /\ byIndex.items[byIndex.index + 1] = row.items[row.current + 1]
    BY DEF QueueIsCoherent
<1>2. GoodQueue BY <1>1 DEF QueueInv, Uncrossed
<1>3. CASE queue = <<>> BY <1>3
<1>4. CASE queue # <<>>
    <2> DEFINE row == RowNow
               c == row.current + 1
    <2>1. row \in QueueRows /\ queue = <<row>> /\ InList(row.current, row.items) BY <1>2, <1>4, RowNow_Type
    <2>2. Len(queue) = 1 /\ DOMAIN queue = {1} /\ queue[1] = row BY <2>1
    <2>3. ASSUME row.items # <<>>, {row.items[k] : k \in {n \in DOMAIN row.items : n <= row.current + 1}} \cap gone = {}
          PROVE  /\ InBounds(row.current, row.items) /\ GetPlayQueue(row).current = row.items[c]
                 /\ GetPlayQueueByIndex(row).items[GetPlayQueueByIndex(row).index + 1] = row.items[c]
        <3>1. c \in DOMAIN row.items /\ row.items \in Seq(QueueSongs) /\ row.current \in Nat
            BY <2>1, <2>3 DEF InList, InBounds, QueueRows
        <3>2. \A k \in 1..c : row.items[k] \notin gone
            <4>1. \A k \in 1..c : k \in {n \in DOMAIN row.items : n <= row.current + 1} BY <3>1
            <4>2. QED BY <2>3, <4>1
        <3> HIDE DEF c
        <3>3. c \in DOMAIN loadTracks(row.items) /\ loadTracks(row.items)[c] = row.items[c] BY <3>1, <3>2, KeptPlaces
        <3>4. QED BY <3>1, <3>3 DEF c, InBounds, GetPlayQueue, GetPlayQueueByIndex
    <2> HIDE DEF row
    <2>4. QED BY <2>2, <2>3
<1>5. QED BY <1>3, <1>4

-------------------------------------------------------------------------------
(* UserData.  A rating under way owes the average and the event.             *)

RateWork == [op : {"rate"}, user : Listeners, id : AlbumIds, value : Ratings, at : {"update", "insert", "average", "event"}]
StarWork == [op : {"star"}, user : Listeners, id : AlbumIds, value : BOOLEAN, at : {"commit"}]

AnnTypeOK ==
    /\ album \in AlbumIds
    /\ ann \in [AlbumIds -> [Listeners -> AnnotationRows \cup {NoAnn}]]
    /\ handling \in [Handlers -> RateWork \cup StarWork \cup {NoRequest}]
    /\ view \in [Listeners -> [starred : BOOLEAN, rating : Ratings]]
    /\ pending \in [Listeners -> BOOLEAN]
    /\ dataFaults \in Nat
    /\ DOMAIN average = AlbumIds

\* Requests name the album by the id it still has.
OnTheAlbum == ~renamed => album = "old" /\ \A h \in Handlers : handling[h] # NoRequest => handling[h].id = "old"

AtAverage(h) == handling[h] # NoRequest /\ handling[h].at = "average"
AverageInv ==
    dataFaults = 0 /\ ~renamed /\ (\A h \in Handlers : ~AtAverage(h)) => average["old"] = AverageOf(ann["old"])

\* The requests that still have an event of u's to send, or a star to write.
OwesEvent(h, u) == handling[h] # NoRequest /\ handling[h].user = u /\ handling[h].at \in {"average", "event", "commit"}
StarAnnounced ==
    ~readEarly => \A h \in Handlers : handling[h] # NoRequest /\ handling[h].op = "star" => pending[handling[h].user]
ViewInv ==
    dataFaults = 0 /\ ~renamed /\ ~readEarly =>
        \A u \in Listeners : ~pending[u] /\ (\A h \in Handlers : ~OwesEvent(h, u)) => view[u] = Seen(u)

AnnInv == AnnTypeOK /\ OnTheAlbum /\ AverageInv /\ StarAnnounced /\ ViewInv

\* Only the ratings of rows count.
LEMMA SameRatings ==
    ASSUME NEW r, NEW s, \A u \in Listeners : (r[u] = NoAnn /\ s[u] = NoAnn)
                \/ (r[u] = NoAnn /\ s[u] # NoAnn /\ s[u].rating = 0)
                \/ (r[u] # NoAnn /\ s[u] # NoAnn /\ s[u].rating = r[u].rating)
    PROVE  AverageOf(r) = AverageOf(s)
<1>1. [u \in Listeners |-> IF r[u] = NoAnn THEN 0 ELSE r[u].rating]
        = [u \in Listeners |-> IF s[u] = NoAnn THEN 0 ELSE s[u].rating]
    OBVIOUS
<1>2. QED BY <1>1 DEF AverageOf

\* The average of no ratings.
LEMMA NoRatings == MeanOf([u \in Listeners |-> 0]) = <<0, 0>>
<1> DEFINE z == [u \in Listeners |-> 0]
           step(f) == [T \in SUBSET Listeners |->
                        IF T = {} THEN 0 ELSE LET x == CHOOSE y \in T : TRUE IN z[x] + f[T \ {x}]]
           sum == CHOOSE f : f = step(f)
<1>1. [T \in SUBSET Listeners |-> 0] = step([T \in SUBSET Listeners |-> 0])
    <2> DEFINE g == [T \in SUBSET Listeners |-> 0]
    <2>1. ASSUME NEW T \in SUBSET Listeners, T # {}
          PROVE  (LET x == CHOOSE y \in T : TRUE IN z[x] + g[T \ {x}]) = 0
        <3> DEFINE x == CHOOSE y \in T : TRUE
        <3>1. x \in T BY <2>1
        <3>2. z[x] = 0 BY <3>1
        <3>3. g[T \ {x}] = 0 BY <3>1
        <3>4. QED BY <3>2, <3>3
    <2>2. QED BY <2>1
<1>2. sum = step(sum) BY <1>1
<1>3. sum[{}] = 0
    <2> HIDE DEF sum
    <2>1. step(sum)[{}] = 0 OBVIOUS
    <2>2. QED BY <1>2, <2>1
<1>4. {u \in Listeners : z[u] > 0} = {} OBVIOUS
<1>5. Cardinality({u \in Listeners : z[u] > 0}) = 0 BY <1>4, FS_EmptySet
<1>6. QED BY <1>3, <1>4, <1>5 DEF MeanOf

LEMMA AnnInit_Inv == ASSUME UserDataInit PROVE AnnInv
<1> USE DEF UserDataInit
<1>1. AnnTypeOK BY DEF AnnTypeOK, AlbumIds, Ratings
<1>2. OnTheAlbum BY DEF OnTheAlbum
<1>3. AverageInv
    <2>1. [u \in Listeners |-> IF ann["old"][u] = NoAnn THEN 0 ELSE ann["old"][u].rating] = [u \in Listeners |-> 0]
        BY DEF AlbumIds
    <2>2. AverageOf(ann["old"]) = <<0, 0>> BY <2>1, NoRatings DEF AverageOf
    <2>3. average["old"] = <<0, 0>> BY DEF AlbumIds
    <2>4. QED BY <2>2, <2>3 DEF AverageInv
<1>4. StarAnnounced BY DEF StarAnnounced
<1>5. ViewInv BY DEF ViewInv, Seen, RowOf, NewRow, AlbumIds
<1>6. QED BY <1>1, <1>2, <1>3, <1>4, <1>5 DEF AnnInv

\* A rating begins.
LEMMA SetRating_Inv == ASSUME AnnInv, NEW h \in Handlers, SetRating(h) PROVE AnnInv'
<1> USE DEF AnnInv, SetRating, Begin, AnnGoes
<1>1. PICK u \in Listeners, v \in Ratings :
        handling' = [handling EXCEPT ![h] = [op |-> "rate", user |-> u, id |-> album, value |-> v, at |-> "update"]]
    OBVIOUS
<1> DEFINE j == [op |-> "rate", user |-> u, id |-> album, value |-> v, at |-> "update"]
<1>2. j \in RateWork /\ j # NoRequest BY DEF AnnTypeOK, RateWork, NoRequest
<1>3. \A g \in Handlers : handling'[g] = IF g = h THEN j ELSE handling[g] BY <1>1 DEF AnnTypeOK
<1>4. handling[h] = NoRequest OBVIOUS
<1>5. AnnTypeOK' BY <1>1, <1>2 DEF AnnTypeOK
<1>6. OnTheAlbum' BY <1>2, <1>3 DEF OnTheAlbum
<1>7. AverageInv' BY <1>3, <1>4 DEF AverageInv, AtAverage
<1>8. StarAnnounced' BY <1>3 DEF StarAnnounced
<1>9. ViewInv' BY <1>3, <1>4 DEF ViewInv, OwesEvent, Seen, RowOf
<1>10. QED BY <1>5, <1>6, <1>7, <1>8, <1>9


\* One row of the annotations changes.
LEMMA OneRow ==
    ASSUME NEW i \in AlbumIds, NEW u \in Listeners, NEW r \in AnnotationRows, AnnTypeOK,
           ann' = [ann EXCEPT ![i][u] = r]
    PROVE  /\ ann' \in [AlbumIds -> [Listeners -> AnnotationRows \cup {NoAnn}]]
           /\ \A k \in AlbumIds, w \in Listeners : ann'[k][w] = IF k = i /\ w = u THEN r ELSE ann[k][w]
           /\ r # NoAnn
<1> DEFINE rs == [ann[i] EXCEPT ![u] = r]
<1>1. rs \in [Listeners -> AnnotationRows \cup {NoAnn}] /\ \A w \in Listeners : rs[w] = IF w = u THEN r ELSE ann[i][w]
    BY DEF AnnTypeOK
<1>2. ann' = [ann EXCEPT ![i] = rs] OBVIOUS
<1>3. r # NoAnn BY UserDataAssumption DEF UserDataAssumption
<1> HIDE DEF rs
<1>4. QED BY <1>1, <1>2, <1>3 DEF AnnTypeOK

\* The types of a row whose one column changes.
LEMMA RowTypes ==
    ASSUME NEW r \in AnnotationRows
    PROVE  /\ \A v \in Ratings : [r EXCEPT !.rating = v] \in AnnotationRows /\ [r EXCEPT !.rating = v].rating = v
                                  /\ [r EXCEPT !.rating = v].starred = r.starred
           /\ \A b \in BOOLEAN : [r EXCEPT !.starred = b] \in AnnotationRows /\ [r EXCEPT !.starred = b].rating = r.rating
           /\ [r EXCEPT !.plays = @ + 1] \in AnnotationRows /\ [r EXCEPT !.plays = @ + 1].rating = r.rating
           /\ [r EXCEPT !.plays = @ + 1].starred = r.starred
<1>1. QED BY DEF AnnotationRows

LEMMA NewRowType == NewRow \in AnnotationRows /\ NewRow.rating = 0 /\ NewRow.starred = FALSE
BY DEF NewRow, AnnotationRows, Ratings

LEMMA RowOfType ==
    ASSUME AnnTypeOK, NEW i \in AlbumIds, NEW u \in Listeners PROVE RowOf(i, u) \in AnnotationRows
BY NewRowType DEF RowOf, AnnTypeOK

\* A row changes in what is no rating.
LEMMA SameAverage ==
    ASSUME AnnTypeOK, NEW i \in AlbumIds, NEW u \in Listeners, NEW r \in AnnotationRows,
           r.rating = RowOf(i, u).rating, ann' = [ann EXCEPT ![i][u] = r]
    PROVE  AverageOf(ann'["old"]) = AverageOf(ann["old"])
<1>1. /\ \A k \in AlbumIds, w \in Listeners : ann'[k][w] = IF k = i /\ w = u THEN r ELSE ann[k][w]
      /\ r # NoAnn
    BY OneRow
<1>2. ASSUME NEW w \in Listeners
      PROVE  \/ ann["old"][w] = NoAnn /\ ann'["old"][w] = NoAnn
             \/ ann["old"][w] = NoAnn /\ ann'["old"][w] # NoAnn /\ ann'["old"][w].rating = 0
             \/ ann["old"][w] # NoAnn /\ ann'["old"][w] # NoAnn /\ ann'["old"][w].rating = ann["old"][w].rating
    <2>1. CASE i = "old" /\ w = u BY <1>1, <2>1, NewRowType DEF RowOf, AlbumIds
    <2>2. CASE ~(i = "old" /\ w = u) BY <1>1, <2>2 DEF AlbumIds
    <2>3. QED BY <2>1, <2>2
<1>3. QED BY <1>2, SameRatings

\* A rating's row is written, if it is not another's insert that wins.
LEMMA annUpsert_Inv == ASSUME AnnInv, NEW h \in Handlers, annUpsert(h) PROVE AnnInv'
<1> DEFINE j == handling[h]
<1>1. j \in RateWork /\ j # NoRequest
    BY DEF AnnInv, AnnTypeOK, annUpsert, RateWork, StarWork, NoRequest
<1>2. UNCHANGED <<album, readEarly, renamed, average, view, pending, dataFaults>>
    BY DEF annUpsert, AnnotationStep
<1>3. AnnTypeOK /\ OnTheAlbum /\ AverageInv /\ StarAnnounced /\ ViewInv BY DEF AnnInv
<1>4. j.id \in AlbumIds /\ j.user \in Listeners /\ j.value \in Ratings BY <1>1 DEF RateWork
<1>5. \A v \in {"insert", "average"} :
         [j EXCEPT !.at = v] \in RateWork /\ [j EXCEPT !.at = v] # NoRequest /\ [j EXCEPT !.at = v].at = v
         /\ [j EXCEPT !.at = v].op = "rate" /\ [j EXCEPT !.at = v].id = j.id /\ [j EXCEPT !.at = v].user = j.user
    BY <1>1 DEF RateWork, NoRequest
<1>6. ASSUME UNCHANGED ann, j.at \in {"update", "insert"}, NEW k, k = NoRequest \/ k = [j EXCEPT !.at = "insert"],
             handling' = [handling EXCEPT ![h] = k]
      PROVE  AnnInv'
    <2>1. \A g \in Handlers : handling'[g] = IF g = h THEN k ELSE handling[g] BY <1>3, <1>6 DEF AnnTypeOK
    <2>2. AnnTypeOK' BY <1>2, <1>3, <1>5, <1>6 DEF AnnTypeOK
    <2>3. OnTheAlbum'
        <3>1. ASSUME ~renamed PROVE album = "old" /\ \A g \in Handlers : handling[g] # NoRequest => handling[g].id = "old"
            BY <1>3, <3>1 DEF OnTheAlbum
        <3>2. ASSUME ~renamed, NEW g \in Handlers, handling'[g] # NoRequest PROVE handling'[g].id = "old"
            <4>1. CASE g # h BY <2>1, <3>1, <3>2, <4>1
            <4>2. CASE g = h
                <5>1. handling'[g] = [j EXCEPT !.at = "insert"] BY <1>6, <2>1, <3>2, <4>2
                <5>2. [j EXCEPT !.at = "insert"].id = j.id BY <1>5
                <5>3. QED BY <1>1, <3>1, <3>2, <5>1, <5>2
            <4>3. QED BY <4>1, <4>2
        <3>3. QED BY <1>2, <3>1, <3>2 DEF OnTheAlbum
    <2>4. ~AtAverage(h) BY <1>6 DEF AtAverage
    <2>5. AverageInv' BY <1>2, <1>3, <1>5, <1>6, <2>1, <2>4 DEF AverageInv, AtAverage
    <2>6. StarAnnounced' BY <1>2, <1>3, <1>5, <1>6, <2>1 DEF StarAnnounced
    <2>7. \A u : ~OwesEvent(h, u) BY <1>6 DEF OwesEvent
    <2>8. ViewInv' BY <1>2, <1>3, <1>5, <1>6, <2>1, <2>7 DEF ViewInv, OwesEvent, Seen, RowOf
    <2>9. QED BY <2>2, <2>3, <2>5, <2>6, <2>8 DEF AnnInv
<1>7. ASSUME NEW r \in AnnotationRows, ann' = [ann EXCEPT ![j.id][j.user] = r],
             handling' = [handling EXCEPT ![h] = [j EXCEPT !.at = "average"]]
      PROVE  AnnInv'
    <2> DEFINE k == [j EXCEPT !.at = "average"]
    <2>0. k \in RateWork /\ k # NoRequest /\ k.at = "average" /\ k.op = "rate" /\ k.id = j.id /\ k.user = j.user
        BY <1>5
    <2> HIDE DEF k
    <2>1. \A g \in Handlers : handling'[g] = IF g = h THEN k ELSE handling[g] BY <1>3, <1>7 DEF AnnTypeOK, k
    <2>2. /\ ann' \in [AlbumIds -> [Listeners -> AnnotationRows \cup {NoAnn}]]
          /\ \A i \in AlbumIds, w \in Listeners : ann'[i][w] = IF i = j.id /\ w = j.user THEN r ELSE ann[i][w]
        BY <1>3, <1>4, <1>7, OneRow
    <2>3. AnnTypeOK'
        <3>1. handling' \in [Handlers -> RateWork \cup StarWork \cup {NoRequest}] BY <1>3, <1>7, <2>0 DEF AnnTypeOK, k
        <3>2. QED BY <1>2, <1>3, <2>2, <3>1 DEF AnnTypeOK
    <2>4. OnTheAlbum' BY <1>1, <1>2, <1>3, <2>0, <2>1 DEF OnTheAlbum
    <2>5. AverageInv' BY <2>0, <2>1 DEF AverageInv, AtAverage
    <2>6. StarAnnounced' BY <1>2, <1>3, <2>0, <2>1 DEF StarAnnounced
    <2>7. ASSUME ~renamed, ~readEarly, dataFaults = 0, NEW u \in Listeners, ~pending[u], \A g \in Handlers : ~OwesEvent(g, u)'
          PROVE  view[u] = Seen(u)'
        <3>1. u # j.user BY <2>0, <2>1, <2>7 DEF OwesEvent
        <3>2. ~OwesEvent(h, u) BY <3>1 DEF OwesEvent
        <3>3. \A g \in Handlers : ~OwesEvent(g, u) BY <2>1, <2>7, <3>2 DEF OwesEvent
        <3>4. view[u] = Seen(u) BY <1>3, <2>7, <3>3 DEF ViewInv
        <3>5. album \in AlbumIds /\ ann'[album][u] = ann[album][u] BY <1>3, <2>2, <3>1 DEF AnnTypeOK
        <3>6. QED BY <1>2, <3>4, <3>5 DEF Seen, RowOf
    <2>8. ViewInv' BY <1>2, <2>7 DEF ViewInv
    <2>9. QED BY <2>3, <2>4, <2>5, <2>6, <2>8 DEF AnnInv
<1>8. CASE j.at = "update" /\ ann[j.id][j.user] # NoAnn
    <2> DEFINE r == [ann[j.id][j.user] EXCEPT !.rating = j.value]
    <2>1. ann[j.id][j.user] \in AnnotationRows BY <1>3, <1>4, <1>8 DEF AnnTypeOK
    <2>2. r \in AnnotationRows BY <1>4, <2>1, RowTypes
    <2>3. ann' = [ann EXCEPT ![j.id][j.user] = r] /\ handling' = [handling EXCEPT ![h] = [j EXCEPT !.at = "average"]]
        BY <1>8 DEF annUpsert, AnnMoves
    <2>4. QED BY <1>7, <2>2, <2>3
<1>9. CASE j.at = "insert" /\ ann[j.id][j.user] = NoAnn
    <2> DEFINE r == [NewRow EXCEPT !.rating = j.value]
    <2>2. r \in AnnotationRows BY <1>4, NewRowType, RowTypes
    <2>3. ann' = [ann EXCEPT ![j.id][j.user] = r] /\ handling' = [handling EXCEPT ![h] = [j EXCEPT !.at = "average"]]
        BY <1>9 DEF annUpsert, AnnMoves
    <2>4. QED BY <1>7, <2>2, <2>3
<1>10. CASE j.at = "update" /\ ann[j.id][j.user] = NoAnn
    <2>1. ann' = ann /\ handling' = [handling EXCEPT ![h] = [j EXCEPT !.at = "insert"]]
        BY <1>10 DEF annUpsert, AnnMoves
    <2>2. QED BY <1>6, <1>10, <2>1
<1>11. CASE j.at = "insert" /\ ann[j.id][j.user] # NoAnn
    <2>1. ann' = ann /\ handling' = [handling EXCEPT ![h] = NoRequest] BY <1>11 DEF annUpsert, AnnGoes
    <2>2. QED BY <1>6, <1>11, <2>1
<1>12. QED BY <1>8, <1>9, <1>10, <1>11 DEF annUpsert

\* A request moves on without a row being written.
LEMMA AnnHandler ==
    ASSUME AnnInv, NEW h \in Handlers, NEW k \in RateWork \cup StarWork \cup {NoRequest},
           handling' = [handling EXCEPT ![h] = k],
           UNCHANGED <<album, ann, readEarly, renamed, view>>, dataFaults' \in Nat, DOMAIN average' = AlbumIds,
           pending' \in [Listeners -> BOOLEAN], \A u \in Listeners : pending[u] => pending'[u],
           k # NoRequest => (~renamed => k.id = album) /\ (k.op = "star" => pending'[k.user]),
           dataFaults' = 0 => dataFaults = 0 /\ (\A u \in Listeners : OwesEvent(h, u) => OwesEvent(h, u)' \/ pending'[u]),
           \/ ~(dataFaults' = 0 /\ ~renamed)
           \/ UNCHANGED average /\ (AtAverage(h) => AtAverage(h)')
           \/ average'["old"] = AverageOf(ann["old"])
    PROVE  AnnInv'
<1>1. AnnTypeOK /\ OnTheAlbum /\ AverageInv /\ StarAnnounced /\ ViewInv BY DEF AnnInv
<1>2. \A g \in Handlers : handling'[g] = IF g = h THEN k ELSE handling[g] BY <1>1 DEF AnnTypeOK
<1>3. AnnTypeOK' BY <1>1 DEF AnnTypeOK
<1>4. OnTheAlbum' BY <1>1, <1>2 DEF OnTheAlbum
<1>5. ASSUME dataFaults' = 0, ~renamed, \A g \in Handlers : ~AtAverage(g)' PROVE average'["old"] = AverageOf(ann["old"])
    <2>1. CASE average'["old"] = AverageOf(ann["old"]) BY <2>1
    <2>2. CASE UNCHANGED average /\ (AtAverage(h) => AtAverage(h)')
        <3>1. \A g \in Handlers : ~AtAverage(g) BY <1>2, <1>5, <2>2 DEF AtAverage
        <3>2. QED BY <1>1, <1>5, <2>2, <3>1 DEF AverageInv
    <2>3. QED BY <1>5, <2>1, <2>2
<1>6. AverageInv' BY <1>5 DEF AverageInv
<1>7. StarAnnounced'
    <2>1. ASSUME ~readEarly, NEW g \in Handlers, handling'[g] # NoRequest, handling'[g].op = "star"
          PROVE  pending'[handling'[g].user]
        <3>1. CASE g = h BY <1>2, <2>1, <3>1
        <3>2. CASE g # h
            <4>1. handling[g] \in StarWork \cup RateWork BY <1>1, <1>2, <2>1, <3>2 DEF AnnTypeOK
            <4>2. handling[g].user \in Listeners BY <4>1 DEF StarWork, RateWork
            <4>3. QED BY <1>1, <1>2, <2>1, <3>2, <4>2 DEF StarAnnounced
        <3>3. QED BY <3>1, <3>2
    <2>2. QED BY <2>1 DEF StarAnnounced
<1>8. ASSUME dataFaults' = 0, ~renamed, ~readEarly, NEW u \in Listeners, ~pending'[u], \A g \in Handlers : ~OwesEvent(g, u)'
      PROVE  view[u] = Seen(u)
    <2>1. ~pending[u] /\ ~OwesEvent(h, u) BY <1>8
    <2>2. \A g \in Handlers : ~OwesEvent(g, u) BY <1>2, <1>8, <2>1 DEF OwesEvent
    <2>3. QED BY <1>1, <1>8, <2>1, <2>2 DEF ViewInv
<1>9. ViewInv' BY <1>8 DEF ViewInv, Seen, RowOf
<1>10. QED BY <1>3, <1>4, <1>6, <1>7, <1>9 DEF AnnInv

\* The average is taken of all ratings.
LEMMA updateAvgRating_Inv == ASSUME AnnInv, NEW h \in Handlers, updateAvgRating(h) PROVE AnnInv'
<1> DEFINE j == handling[h]
           k == [j EXCEPT !.at = "event"]
<1>1. AnnTypeOK /\ OnTheAlbum BY DEF AnnInv
<1>2. j \in RateWork /\ j # NoRequest /\ j.at = "average"
    BY <1>1 DEF AnnTypeOK, updateAvgRating, RateWork, StarWork, NoRequest
<1>3. k \in RateWork /\ k # NoRequest /\ k.id = j.id /\ k.op = "rate" /\ k.user = j.user /\ k.at = "event"
    BY <1>2 DEF RateWork, NoRequest
<1>4. handling' = [handling EXCEPT ![h] = k] BY DEF updateAvgRating, AnnMoves
<1>5. j.id \in AlbumIds BY <1>2 DEF RateWork
<1>6. average' = [average EXCEPT ![j.id] = AverageOf(ann[j.id])]
      /\ UNCHANGED <<album, ann, readEarly, renamed, view, pending, dataFaults>>
    BY DEF updateAvgRating, AnnotationStep
<1>7. DOMAIN average' = AlbumIds BY <1>1, <1>6 DEF AnnTypeOK
<1>8. handling'[h] = k BY <1>1, <1>4 DEF AnnTypeOK
<1>9. \A u \in Listeners : OwesEvent(h, u) => OwesEvent(h, u)' BY <1>3, <1>8 DEF OwesEvent
<1>10. ~renamed => k.id = album /\ j.id = "old" BY <1>1, <1>2, <1>3 DEF OnTheAlbum
<1>11. ~renamed => average'["old"] = AverageOf(ann["old"]) BY <1>1, <1>5, <1>6, <1>10 DEF AnnTypeOK
<1> HIDE DEF k
<1>12. QED BY <1>1, <1>3, <1>4, <1>6, <1>7, <1>9, <1>10, <1>11, AnnHandler DEF AnnTypeOK

\* The event of a rating.
LEMMA RatingEvent_Inv == ASSUME AnnInv, NEW h \in Handlers, RatingEvent(h) PROVE AnnInv'
<1>1. AnnTypeOK BY DEF AnnInv
<1>2. handling[h] \in RateWork /\ handling[h].at = "event"
    BY <1>1 DEF AnnTypeOK, RatingEvent, RateWork, StarWork, NoRequest
<1>3. handling' = [handling EXCEPT ![h] = NoRequest] /\ UNCHANGED <<album, ann, average, readEarly, renamed, view, dataFaults>>
    BY DEF RatingEvent, AnnGoes, AnnotationStep
<1>4. pending' = [pending EXCEPT ![handling[h].user] = TRUE] BY DEF RatingEvent
<1>5. pending' \in [Listeners -> BOOLEAN] /\ \A u \in Listeners : pending'[u] = (pending[u] \/ u = handling[h].user)
    BY <1>1, <1>2, <1>4, Zenon DEF AnnTypeOK, RateWork
<1>6. \A u \in Listeners : OwesEvent(h, u) => pending'[u] BY <1>5 DEF OwesEvent
<1>7. ~AtAverage(h) BY <1>2 DEF AtAverage
<1>8. QED BY <1>1, <1>3, <1>5, <1>6, <1>7, AnnHandler DEF AnnTypeOK

\* A statement of a rating fails.
LEMMA RatingFails_Inv == ASSUME AnnInv, NEW h \in Handlers, RatingFails(h) PROVE AnnInv'
<1>1. AnnTypeOK BY DEF AnnInv
<1>2. handling' = [handling EXCEPT ![h] = NoRequest] /\ UNCHANGED <<album, ann, average, readEarly, renamed, view, pending>>
    BY DEF RatingFails, AnnGoes, AnnotationStep
<1>3. dataFaults' \in Nat /\ dataFaults' # 0 BY <1>1 DEF RatingFails, AnnTypeOK
<1>4. QED BY <1>1, <1>2, <1>3, AnnHandler DEF AnnTypeOK

\* A star begins: its event leaves before it is stored.
LEMMA setStar_Inv == ASSUME AnnInv, NEW h \in Handlers, setStar(h) PROVE AnnInv'
<1>1. AnnTypeOK BY DEF AnnInv
<1>2. PICK u \in Listeners, b \in BOOLEAN :
        /\ handling[h] = NoRequest
        /\ handling' = [handling EXCEPT ![h] = [op |-> "star", user |-> u, id |-> album, value |-> b, at |-> "commit"]]
        /\ pending' = [pending EXCEPT ![u] = TRUE]
    BY DEF setStar, Begin, AnnGoes
<1> DEFINE k == [op |-> "star", user |-> u, id |-> album, value |-> b, at |-> "commit"]
<1>3. k \in StarWork /\ k # NoRequest /\ k.user = u /\ k.id = album BY <1>1 DEF AnnTypeOK, StarWork, NoRequest
<1>4. UNCHANGED <<album, ann, average, readEarly, renamed, view, dataFaults>> BY DEF setStar
<1>5. pending' \in [Listeners -> BOOLEAN] /\ \A w \in Listeners : pending'[w] = (pending[w] \/ w = u)
    BY <1>1, <1>2, Zenon DEF AnnTypeOK
<1>6. ~AtAverage(h) /\ \A w \in Listeners : ~OwesEvent(h, w) BY <1>2 DEF AtAverage, OwesEvent
<1> HIDE DEF k
<1>7. handling' = [handling EXCEPT ![h] = k] BY <1>2 DEF k
<1>8. QED BY <1>1, <1>3, <1>4, <1>5, <1>6, <1>7, AnnHandler DEF AnnTypeOK

\* The star is stored.
LEMMA CommitStar_Inv == ASSUME AnnInv, NEW h \in Handlers, CommitStar(h) PROVE AnnInv'
<1> DEFINE j == handling[h]
           r == [RowOf(j.id, j.user) EXCEPT !.starred = j.value]
<1>1. AnnTypeOK /\ OnTheAlbum /\ AverageInv /\ StarAnnounced /\ ViewInv BY DEF AnnInv
<1>2. j \in StarWork /\ j # NoRequest BY <1>1 DEF AnnTypeOK, CommitStar, RateWork, StarWork, NoRequest
<1>3. j.id \in AlbumIds /\ j.user \in Listeners /\ j.value \in BOOLEAN /\ j.op = "star" /\ j.at = "commit"
    BY <1>2 DEF StarWork
<1>4. RowOf(j.id, j.user) \in AnnotationRows BY <1>1, <1>3, RowOfType
<1>5. r \in AnnotationRows /\ r.rating = RowOf(j.id, j.user).rating BY <1>3, <1>4, RowTypes
<1>6. ann' = [ann EXCEPT ![j.id][j.user] = r] /\ handling' = [handling EXCEPT ![h] = NoRequest]
      /\ UNCHANGED <<album, readEarly, renamed, average, view, pending, dataFaults>>
    BY DEF CommitStar, AnnGoes, AnnotationStep
<1> HIDE DEF r
<1>7. \A g \in Handlers : handling'[g] = IF g = h THEN NoRequest ELSE handling[g] BY <1>1, <1>6 DEF AnnTypeOK
<1>8. /\ ann' \in [AlbumIds -> [Listeners -> AnnotationRows \cup {NoAnn}]]
      /\ \A i \in AlbumIds, w \in Listeners : ann'[i][w] = IF i = j.id /\ w = j.user THEN r ELSE ann[i][w]
      /\ r # NoAnn
    BY <1>1, <1>3, <1>5, <1>6, OneRow
<1>9. AnnTypeOK'
    <2>1. handling' \in [Handlers -> RateWork \cup StarWork \cup {NoRequest}] BY <1>1, <1>6 DEF AnnTypeOK
    <2>2. QED BY <1>1, <1>6, <1>8, <2>1 DEF AnnTypeOK
<1>10. OnTheAlbum' BY <1>1, <1>6, <1>7 DEF OnTheAlbum
<1>11. AverageOf(ann'["old"]) = AverageOf(ann["old"]) BY <1>1, <1>3, <1>5, <1>6, SameAverage
<1>12. AverageInv'
    <2>1. ~AtAverage(h) BY <1>3 DEF AtAverage
    <2>2. QED BY <1>1, <1>6, <1>7, <1>11, <2>1 DEF AverageInv, AtAverage
<1>13. StarAnnounced' BY <1>1, <1>6, <1>7 DEF StarAnnounced
<1>14. ASSUME ~renamed, ~readEarly, dataFaults = 0, NEW u \in Listeners, ~pending[u], \A g \in Handlers : ~OwesEvent(g, u)'
       PROVE  view[u] = Seen(u)'
    <2>1. u # j.user BY <1>1, <1>2, <1>3, <1>14 DEF StarAnnounced
    <2>2. ~OwesEvent(h, u) BY <2>1 DEF OwesEvent
    <2>3. \A g \in Handlers : ~OwesEvent(g, u) BY <1>7, <1>14, <2>2 DEF OwesEvent
    <2>4. view[u] = Seen(u) BY <1>1, <1>14, <2>3 DEF ViewInv
    <2>5. album \in AlbumIds /\ ann'[album][u] = ann[album][u] BY <1>1, <1>8, <2>1 DEF AnnTypeOK
    <2>6. QED BY <1>6, <2>4, <2>5 DEF Seen, RowOf
<1>15. ViewInv' BY <1>6, <1>14 DEF ViewInv
<1>16. QED BY <1>9, <1>10, <1>12, <1>13, <1>15 DEF AnnInv

\* A play is counted: nobody's view shows that.
LEMMA IncPlayCount_Inv == ASSUME AnnInv, IncPlayCount PROVE AnnInv'
<1>1. AnnTypeOK /\ OnTheAlbum /\ AverageInv /\ StarAnnounced /\ ViewInv BY DEF AnnInv
<1>2. PICK u \in Listeners : ann' = [ann EXCEPT ![album][u] = [RowOf(album, u) EXCEPT !.plays = @ + 1]]
    BY DEF IncPlayCount
<1>3. UNCHANGED <<album, average, handling, view, pending, readEarly, renamed, dataFaults>> BY DEF IncPlayCount
<1> DEFINE r == [RowOf(album, u) EXCEPT !.plays = @ + 1]
<1>4. album \in AlbumIds BY <1>1 DEF AnnTypeOK
<1>5. r \in AnnotationRows /\ r.rating = RowOf(album, u).rating /\ r.starred = RowOf(album, u).starred
    BY <1>1, <1>4, RowOfType, RowTypes
<1>6. ann' = [ann EXCEPT ![album][u] = r] BY <1>2
<1> HIDE DEF r
<1>7. /\ ann' \in [AlbumIds -> [Listeners -> AnnotationRows \cup {NoAnn}]]
      /\ \A i \in AlbumIds, w \in Listeners : ann'[i][w] = IF i = album /\ w = u THEN r ELSE ann[i][w]
      /\ r # NoAnn
    BY <1>1, <1>4, <1>5, <1>6, OneRow
<1>8. AnnTypeOK' BY <1>1, <1>3, <1>7 DEF AnnTypeOK
<1>9. AverageOf(ann'["old"]) = AverageOf(ann["old"]) BY <1>1, <1>4, <1>5, <1>6, SameAverage
<1>10. \A w \in Listeners : Seen(w)' = Seen(w) BY <1>3, <1>4, <1>5, <1>7 DEF Seen, RowOf
<1>11. OnTheAlbum' /\ StarAnnounced' BY <1>1, <1>3 DEF OnTheAlbum, StarAnnounced
<1>12. AverageInv' BY <1>1, <1>3, <1>9 DEF AverageInv, AtAverage
<1>13. ViewInv' BY <1>1, <1>3, <1>10 DEF ViewInv, OwesEvent
<1>14. QED BY <1>8, <1>11, <1>12, <1>13 DEF AnnInv

\* A client reads again what it shows; between a star's event and its commit
\* that is noted.
LEMMA ClientRefreshes_Inv == ASSUME AnnInv, NEW u \in Listeners, ClientRefreshes(u) PROVE AnnInv'
<1>1. AnnTypeOK /\ OnTheAlbum /\ AverageInv /\ StarAnnounced /\ ViewInv BY DEF AnnInv
<1>2. UNCHANGED <<album, ann, average, handling, renamed, dataFaults>> BY DEF ClientRefreshes
<1>3. album \in AlbumIds BY <1>1 DEF AnnTypeOK
<1>4. Seen(u) \in [starred : BOOLEAN, rating : Ratings]
    <2>1. RowOf(album, u) \in AnnotationRows BY <1>1, <1>3, RowOfType
    <2>2. QED BY <2>1 DEF Seen, AnnotationRows
<1>5. pending' = [pending EXCEPT ![u] = FALSE] /\ view' = [view EXCEPT ![u] = Seen(u)] BY DEF ClientRefreshes
<1>6. pending' \in [Listeners -> BOOLEAN] /\ \A w \in Listeners : pending'[w] = IF w = u THEN FALSE ELSE pending[w]
    BY <1>1, <1>5 DEF AnnTypeOK
<1>7. /\ view' \in [Listeners -> [starred : BOOLEAN, rating : Ratings]]
      /\ \A w \in Listeners : view'[w] = IF w = u THEN Seen(u) ELSE view[w]
    BY <1>1, <1>4, <1>5 DEF AnnTypeOK
<1>8. AnnTypeOK' BY <1>1, <1>2, <1>6, <1>7 DEF AnnTypeOK
<1>9. OnTheAlbum' /\ AverageInv' BY <1>1, <1>2 DEF OnTheAlbum, AverageInv, AtAverage
<1>10. readEarly' <=> readEarly \/ \E h \in Handlers : handling[h].op = "star" /\ handling[h].user = u
    BY DEF ClientRefreshes
<1>11. StarAnnounced'
    <2>1. ASSUME ~readEarly', NEW h \in Handlers, handling[h] # NoRequest, handling[h].op = "star"
          PROVE  pending'[handling[h].user]
        <3>1. handling[h].user # u /\ ~readEarly BY <1>10, <2>1
        <3>2. handling[h].user \in Listeners BY <1>1, <2>1 DEF AnnTypeOK, RateWork, StarWork
        <3>3. QED BY <1>1, <1>6, <2>1, <3>1, <3>2 DEF StarAnnounced
    <2>2. QED BY <1>2, <2>1 DEF StarAnnounced
<1>12. ViewInv'
    <2>1. \A w \in Listeners : Seen(w)' = Seen(w) BY <1>2 DEF Seen, RowOf
    <2>2. QED BY <1>1, <1>2, <1>6, <1>7, <1>10, <2>1 DEF ViewInv, OwesEvent
<1>13. QED BY <1>8, <1>9, <1>11, <1>12 DEF AnnInv

LEMMA ReassignAnnotation_Inv == ASSUME AnnInv, ReassignAnnotation PROVE AnnInv'
<1>1. AnnTypeOK /\ StarAnnounced BY DEF AnnInv
<1>2. album' = "new" /\ renamed' /\ UNCHANGED <<average, handling, view, pending, readEarly, dataFaults>>
    BY DEF ReassignAnnotation
<1>3. ann' \in [AlbumIds -> [Listeners -> AnnotationRows \cup {NoAnn}]]
    <2> DEFINE n == [u \in Listeners |-> IF ann["old"][u] # NoAnn THEN ann["old"][u] ELSE ann["new"][u]]
               o == [u \in Listeners |-> NoAnn]
    <2>1. n \in [Listeners -> AnnotationRows \cup {NoAnn}] BY <1>1 DEF AnnTypeOK, AlbumIds
    <2>2. o \in [Listeners -> AnnotationRows \cup {NoAnn}] OBVIOUS
    <2>3. ann' = ann \/ ann' = [ann EXCEPT !["new"] = n, !["old"] = o] BY DEF ReassignAnnotation
    <2> HIDE DEF n, o
    <2>4. QED BY <1>1, <2>1, <2>2, <2>3 DEF AnnTypeOK
<1>4. AnnTypeOK' BY <1>1, <1>2, <1>3 DEF AnnTypeOK, AlbumIds
<1>5. QED BY <1>1, <1>2, <1>4 DEF AnnInv, OnTheAlbum, AverageInv, StarAnnounced, ViewInv

LEMMA AnnNext_Inv == ASSUME AnnInv, [UserDataNext]_userDataVars PROVE AnnInv'
<1>1. ASSUME NEW h \in Handlers, SetRating(h) PROVE AnnInv' BY <1>1, SetRating_Inv
<1>2. ASSUME NEW h \in Handlers, annUpsert(h) PROVE AnnInv' BY <1>2, annUpsert_Inv
<1>3. ASSUME NEW h \in Handlers, updateAvgRating(h) PROVE AnnInv' BY <1>3, updateAvgRating_Inv
<1>4. ASSUME NEW h \in Handlers, RatingEvent(h) PROVE AnnInv' BY <1>4, RatingEvent_Inv
<1>5. ASSUME NEW h \in Handlers, setStar(h) PROVE AnnInv' BY <1>5, setStar_Inv
<1>6. ASSUME NEW h \in Handlers, CommitStar(h) PROVE AnnInv' BY <1>6, CommitStar_Inv
<1>7. ASSUME NEW h \in Handlers, RatingFails(h) PROVE AnnInv' BY <1>7, RatingFails_Inv
<1>8. ASSUME NEW u \in Listeners, ClientRefreshes(u) PROVE AnnInv' BY <1>8, ClientRefreshes_Inv
<1>9. CASE IncPlayCount BY <1>9, IncPlayCount_Inv
<1>10. CASE ReassignAnnotation BY <1>10, ReassignAnnotation_Inv
<1>11. CASE UNCHANGED userDataVars
    BY <1>11 DEF userDataVars, AnnInv, AnnTypeOK, OnTheAlbum, AverageInv, AtAverage, StarAnnounced, ViewInv, OwesEvent,
                 Seen, RowOf
<1>12. QED BY <1>1, <1>2, <1>3, <1>4, <1>5, <1>6, <1>7, <1>8, <1>9, <1>10, <1>11 DEF UserDataNext

LEMMA AnnInv_Coherent == ASSUME AnnInv PROVE AverageFollowsRatings /\ ClientsCatchUp
<1>1. AnnTypeOK /\ OnTheAlbum /\ AverageInv /\ ViewInv BY DEF AnnInv
<1>2. Resting => \A h \in Handlers : ~AtAverage(h) /\ \A u \in Listeners : ~OwesEvent(h, u)
    BY DEF Resting, AtAverage, OwesEvent
<1>3. AverageFollowsRatings BY <1>1, <1>2 DEF AverageFollowsRatings, AverageInv, OnTheAlbum
<1>4. ClientsCatchUp BY <1>1, <1>2 DEF ClientsCatchUp, ViewInv
<1>5. QED BY <1>3, <1>4

\* What users keep is what their requests left, and clients that were told to
\* read again see it (annUpsert, updateAvgRating and the events of
\* media_annotation.go; Store of the play queue and the checks before it).
THEOREM UserDataCoheres == UserDataSpec /\ QueueSpec => []UserDataIsCoherent
<1>1. UserDataInit => AnnInv BY AnnInit_Inv
<1>2. AnnInv /\ [UserDataNext]_userDataVars => AnnInv' BY AnnNext_Inv
<1>3. QueueInit => QueueInv BY QueueInit_Inv
<1>4. QueueInv /\ [QueueNext]_queueVars => QueueInv' BY QueueNext_Inv
<1>5. AnnInv /\ QueueInv => UserDataIsCoherent
    BY AnnInv_Coherent, QueueInv_Coherent DEF UserDataIsCoherent
<1>6. QED BY <1>1, <1>2, <1>3, <1>4, <1>5, PTL DEF UserDataSpec, QueueSpec

-------------------------------------------------------------------------------
(* ExternalInfo.  A fetch that is not cut leaves no field out that the agents  *)
(* know, and a copy no older than the row knows what the row knows.           *)

Entries == [name : Names, id : Names \cup {Blank}]
NamedOnce(list) == \A i, j \in DOMAIN list : list[i].name = list[j].name => i = j
Lists == {l \in Seq(Entries) : NamedOnce(l)}
Values == {Blank, "known"} \cup Lists
RowTypeSet == {r \in [stamp : {"none", "fresh", "expired"}, info : [FieldNames -> Values]] :
                 r.info["similar"] \in {Blank} \cup Lists}
FetchWork == [at : {"idle", "gather", "finish"}, copy : RowTypeSet, old : BOOLEAN, left : Seq(FieldNames), cut : BOOLEAN, retry : BOOLEAN]
CopyWork == [copy : RowTypeSet, old : BOOLEAN]

ExtTypeOK ==
    /\ kind \in {"artist", "album"}
    /\ infoRow \in RowTypeSet
    /\ present \in SUBSET Names
    /\ fetches \in [Everyone -> FetchWork]
    /\ copies \in Seq(CopyWork)
    /\ erased \in BOOLEAN
    /\ infoFaults \in Nat

WantedSet == {Wanted[i] : i \in DOMAIN Wanted}
Known(k) == \E i \in DOMAIN EnabledAgents : k \in Capable[EnabledAgents[i]]
LeftOf(f) == {f.left[i] : i \in DOMAIN f.left}
Whole(info, open) == \A k \in WantedSet : k \in open \/ (Known(k) => info[k] # Blank)
WholeInv ==
    infoFaults = 0 =>
        /\ infoRow.stamp # "none" => Whole(infoRow.info, {})
        /\ \A a \in Everyone : fetches[a].at = "gather" /\ ~fetches[a].cut => Whole(fetches[a].copy.info, LeftOf(fetches[a]))

\* A copy that knows all that the row knows.
Covers(c, r) == \A k \in FieldNames : r.info[k] # Blank => c.info[k] # Blank
KeptInv ==
    /\ ~erased
    /\ \A a \in Everyone : fetches[a] # NotFetching /\ ~fetches[a].old => Covers(fetches[a].copy, infoRow)
    /\ \A i \in DOMAIN copies : ~copies[i].old => Covers(copies[i].copy, infoRow)

InfoInv == ExtTypeOK /\ WholeInv /\ KeptInv /\ SimilarAreHere

\* The places of a sequence that are kept, in their order: each place of the
\* result is one of them, and no two are the same.
LEMMA SublistPlaces ==
    ASSUME NEW S, NEW s \in Seq(S), NEW kept \in SUBSET DOMAIN s
    PROVE  /\ Cardinality(kept) \in Nat /\ Sublist(s, kept) \in Seq(S) /\ Len(Sublist(s, kept)) = Cardinality(kept)
           /\ \E at \in [1..Cardinality(kept) -> kept] :
                 /\ \A n \in 1..Cardinality(kept) : Sublist(s, kept)[n] = s[at[n]]
                 /\ \A m, n \in 1..Cardinality(kept) : at[m] = at[n] => m = n
<1> DEFINE c == Cardinality(kept)
           below(n) == {k \in kept : k <= n}
           rank(n) == Cardinality(below(n))
           place(n) == CHOOSE i \in kept : rank(i) = n
<1>1. DOMAIN s = 1..Len(s) /\ Len(s) \in Nat OBVIOUS
<1>2. IsFiniteSet(1..Len(s)) BY <1>1, FS_Interval
<1>3. IsFiniteSet(kept) BY <1>1, <1>2, FS_Subset
<1>4. c \in Nat BY <1>3, FS_CardinalityType
<1>5. \A k \in kept : k \in Nat BY <1>1
<1>6. ASSUME NEW n \in kept PROVE rank(n) \in 1..c
    <2>1. below(n) \subseteq kept OBVIOUS
    <2>2. IsFiniteSet(below(n)) BY <1>3, <2>1, FS_Subset
    <2>3. n \in below(n) BY <1>5
    <2> HIDE DEF below
    <2>4. rank(n) \in Nat /\ rank(n) <= c BY <1>3, <2>1, <2>2, FS_Subset, FS_CardinalityType
    <2>5. rank(n) # 0 BY <2>2, <2>3, FS_EmptySet
    <2>6. QED BY <2>4, <2>5, <1>4
<1>7. ASSUME NEW m \in kept, NEW n \in kept, m < n PROVE rank(m) # rank(n)
    <2>1. below(m) \subseteq below(n) BY <1>5, <1>7
    <2>2. n \in below(n) /\ n \notin below(m) BY <1>5, <1>7
    <2>3. below(n) \subseteq kept OBVIOUS
    <2>4. IsFiniteSet(below(n)) BY <1>3, <2>3, FS_Subset
    <2> HIDE DEF below
    <2>5. rank(n) = rank(m) => below(n) = below(m) BY <2>1, <2>4, FS_Subset
    <2>6. QED BY <2>2, <2>5
<1>8. ASSUME NEW m \in kept, NEW n \in kept, rank(m) = rank(n) PROVE m = n
    <2> HIDE DEF rank
    <2>1. m < n \/ n < m \/ m = n BY <1>5
    <2>2. QED BY <1>7, <1>8, <2>1
<1> DEFINE ranks == [k \in kept |-> rank(k)]
           image == {ranks[k] : k \in kept}
<1>9. ranks \in Injection(kept, image) 
    <2> HIDE DEF rank
    <2>1. ranks \in [kept -> image] OBVIOUS
    <2>2. \A m, n \in kept : ranks[m] = ranks[n] => m = n BY <1>8
    <2>3. QED BY <2>1, <2>2 DEF Injection, IsInjective
<1>10. image = 1..c
    <2> HIDE DEF rank
    <2>1. image \subseteq 1..c BY <1>6
    <2>2. IsFiniteSet(1..c) /\ Cardinality(1..c) = c BY <1>4, FS_Interval
    <2>3. IsFiniteSet(image) BY <2>1, <2>2, FS_Subset
    <2> HIDE DEF image, ranks
    <2>4. c <= Cardinality(image) BY <1>3, <1>9, <2>3, FS_Injection
    <2>5. Cardinality(image) <= c /\ Cardinality(image) \in Nat BY <2>1, <2>2, <2>3, FS_Subset, FS_CardinalityType
    <2>6. Cardinality(image) = c BY <1>4, <2>4, <2>5
    <2>7. QED BY <2>1, <2>2, <2>6, FS_Subset
<1>11. ASSUME NEW n \in 1..c PROVE place(n) \in kept /\ rank(place(n)) = n
    <2> HIDE DEF rank
    <2>1. \E k \in kept : rank(k) = n BY <1>10
    <2>2. QED BY <2>1
<1> DEFINE at == [n \in 1..c |-> place(n)]
<1>12. Sublist(s, kept) = [n \in 1..c |-> s[place(n)]] BY DEF Sublist
<1> HIDE DEF place, rank, c
<1>13. at \in [1..c -> kept] /\ \A m, n \in 1..c : at[m] = at[n] => m = n BY <1>11
<1>14. \A n \in 1..c : s[place(n)] \in S BY <1>1, <1>11
<1>15. Sublist(s, kept) \in Seq(S) /\ Len(Sublist(s, kept)) = c BY <1>4, <1>12, <1>14
<1>16. \A n \in 1..c : Sublist(s, kept)[n] = s[at[n]] BY <1>12
<1>17. QED BY <1>4, <1>13, <1>15, <1>16 DEF c

LEMMA NotARow == NotFetching \in FetchWork /\ NotFetching.at = "idle" /\ NoRow \in RowTypeSet
    /\ NoRow.stamp = "none" /\ \A k \in FieldNames : NoRow.info[k] = Blank
<1>1. NoRow.info \in [FieldNames -> Values] /\ \A k \in FieldNames : NoRow.info[k] = Blank
    BY DEF NoRow, Values
<1>2. NoRow \in RowTypeSet BY <1>1 DEF RowTypeSet, NoRow, FieldNames
<1>3. <<>> \in Seq(FieldNames) OBVIOUS
<1>4. QED BY <1>1, <1>2, <1>3 DEF NotFetching, FetchWork, NoRow

\* What the agents find similar is listed once each: first what is here.
LEMMA mapSimilarArtists_Type ==
    ASSUME NEW here \in SUBSET Names PROVE mapSimilarArtists(here) \in Lists
<1> DEFINE K(b) == {i \in DOMAIN Similar : (Similar[i] \in here) = b}
           part(b) == [i \in DOMAIN loadArtists(here, b) |-> Entry(loadArtists(here, b)[i], b)]
<1>1. Similar \in Seq(Names) /\ \A i, j \in DOMAIN Similar : Similar[i] = Similar[j] => i = j
    BY ExternalAssumption DEF ExternalAssumption
<1>2. ASSUME NEW b \in BOOLEAN
      PROVE  /\ part(b) \in Seq(Entries)
             /\ \A i \in DOMAIN part(b) : part(b)[i].name \in Names /\ (part(b)[i].name \in here) = b
             /\ NamedOnce(part(b))
    <2> DEFINE l == loadArtists(here, b)
               c == Cardinality(K(b))
    <2>1. K(b) \in SUBSET DOMAIN Similar OBVIOUS
    <2>2. l = Sublist(Similar, K(b)) BY DEF loadArtists
    <2> HIDE DEF l, K
    <2>3. /\ c \in Nat /\ l \in Seq(Names) /\ Len(l) = c
          /\ \E at \in [1..c -> K(b)] : /\ \A n \in 1..c : l[n] = Similar[at[n]]
                                        /\ \A m, n \in 1..c : at[m] = at[n] => m = n
        BY <1>1, <2>1, <2>2, SublistPlaces
    <2>4. PICK at \in [1..c -> K(b)] : (\A n \in 1..c : l[n] = Similar[at[n]]) /\ \A m, n \in 1..c : at[m] = at[n] => m = n
        BY <2>3
    <2>5. DOMAIN l = 1..c BY <2>3
    <2>6. \A n \in 1..c : l[n] \in Names /\ (l[n] \in here) = b BY <1>1, <2>4 DEF K
    <2> HIDE DEF c
    <2>7. \A m, n \in 1..c : l[m] = l[n] => m = n BY <1>1, <2>1, <2>4
    <2>8. part(b) = [i \in 1..c |-> Entry(l[i], b)] BY <2>5 DEF l
    <2>9. \A n \in 1..c : Entry(l[n], b) \in Entries /\ Entry(l[n], b).name = l[n] BY <2>6 DEF Entry, Entries
    <2> HIDE DEF part
    <2>10. part(b) \in Seq(Entries) BY <2>3, <2>8, <2>9 DEF c
    <2>11. DOMAIN part(b) = 1..c /\ \A n \in 1..c : part(b)[n].name = l[n] BY <2>8, <2>9
    <2>12. QED BY <2>6, <2>7, <2>10, <2>11 DEF NamedOnce
<1> DEFINE p == part(TRUE)
           q == part(FALSE)
<1>3. mapSimilarArtists(here) = p \o q BY DEF mapSimilarArtists
<1>4. p \in Seq(Entries) /\ q \in Seq(Entries) /\ NamedOnce(p) /\ NamedOnce(q) BY <1>2
<1>5. \A i \in DOMAIN p, j \in DOMAIN q : p[i].name # q[j].name BY <1>2
<1> HIDE DEF p, q
<1>6. p \o q \in Seq(Entries) BY <1>4
<1>7. ASSUME NEW i \in DOMAIN (p \o q), NEW j \in DOMAIN (p \o q), (p \o q)[i].name = (p \o q)[j].name PROVE i = j
    <2>1. /\ DOMAIN (p \o q) = 1..(Len(p) + Len(q)) /\ Len(p) \in Nat /\ Len(q) \in Nat
          /\ DOMAIN p = 1..Len(p) /\ DOMAIN q = 1..Len(q)
          /\ \A n \in DOMAIN (p \o q) : (p \o q)[n] = IF n <= Len(p) THEN p[n] ELSE q[n - Len(p)]
        BY <1>4
    <2>2. CASE i <= Len(p) /\ j <= Len(p)
        <3>1. i \in DOMAIN p /\ j \in DOMAIN p /\ p[i].name = p[j].name BY <1>7, <2>1, <2>2
        <3>2. QED BY <1>4, <3>1 DEF NamedOnce
    <2>3. CASE i > Len(p) /\ j > Len(p)
        <3>1. i - Len(p) \in DOMAIN q /\ j - Len(p) \in DOMAIN q /\ q[i - Len(p)].name = q[j - Len(p)].name BY <1>7, <2>1, <2>3
        <3>2. i - Len(p) = j - Len(p) BY <1>4, <3>1 DEF NamedOnce
        <3>3. QED BY <2>1, <3>2
    <2>4. CASE i <= Len(p) /\ j > Len(p)
        <3>1. i \in DOMAIN p /\ j - Len(p) \in DOMAIN q /\ p[i].name = q[j - Len(p)].name BY <1>7, <2>1, <2>4
        <3>2. QED BY <1>5, <3>1
    <2>5. CASE i > Len(p) /\ j <= Len(p)
        <3>1. j \in DOMAIN p /\ i - Len(p) \in DOMAIN q /\ p[j].name = q[i - Len(p)].name BY <1>7, <2>1, <2>5
        <3>2. QED BY <1>5, <3>1
    <2>6. QED BY <2>1, <2>2, <2>3, <2>4, <2>5
<1>8. QED BY <1>3, <1>6, <1>7 DEF Lists, NamedOnce

\* What is read from the row: each once, with an id only if it is here.
LEMMA loadSimilar_Here ==
    ASSUME NEW list \in {Blank} \cup Lists, NEW count \in Nat, NEW all \in BOOLEAN,
           reply' = loadSimilar(list, count, all), UNCHANGED present
    PROVE  SimilarAreHere'
<1> DEFINE stored == IF list = Blank THEN <<>> ELSE list
           kept == {i \in DOMAIN stored : stored[i].id \in present \/ all}
           l == Sublist(stored, kept)
           c == Cardinality(kept)
           loaded(e) == [e EXCEPT !.id = IF e.id \in present THEN e.id ELSE Blank]
           r == IF Len(l) < count THEN Len(l) ELSE count
<1>1. stored \in Seq(Entries) /\ NamedOnce(stored) BY DEF Lists, NamedOnce
<1>2. kept \in SUBSET DOMAIN stored OBVIOUS
<1>3. reply' = [i \in 1..r |-> loaded(l[i])] BY DEF loadSimilar
<1> HIDE DEF stored, kept
<1>4. /\ c \in Nat /\ l \in Seq(Entries) /\ Len(l) = c
      /\ \E at \in [1..c -> kept] : /\ \A n \in 1..c : l[n] = stored[at[n]]
                                    /\ \A m, n \in 1..c : at[m] = at[n] => m = n
    BY <1>1, <1>2, SublistPlaces
<1> HIDE DEF l, c
<1>5. PICK at \in [1..c -> kept] : (\A n \in 1..c : l[n] = stored[at[n]]) /\ \A m, n \in 1..c : at[m] = at[n] => m = n
    BY <1>4
<1>6. \A m, n \in 1..c : l[m].name = l[n].name => m = n BY <1>1, <1>2, <1>5 DEF NamedOnce
<1>7. r \in Nat /\ r <= c BY <1>4
<1>8. ASSUME NEW n \in 1..r
      PROVE  /\ n \in 1..c /\ loaded(l[n]).name = l[n].name
             /\ loaded(l[n]).id # Blank => loaded(l[n]).id \in present
    <2>1. n \in 1..c BY <1>4, <1>7
    <2>2. l[n] \in Entries BY <1>4, <2>1
    <2>3. QED BY <2>1, <2>2 DEF Entries
<1> HIDE DEF loaded, r
<1>9. DOMAIN reply' = 1..r /\ \A n \in 1..r : reply'[n] = loaded(l[n]) BY <1>3
<1>10. QED BY <1>6, <1>8, <1>9 DEF SimilarAreHere

LEMMA NoReply == ASSUME reply' = <<>> PROVE SimilarAreHere'
BY DEF SimilarAreHere

\* A reply of a row or of a copy.
LEMMA Replies_Here ==
    ASSUME NEW r \in RowTypeSet, Replies(r), UNCHANGED present PROVE SimilarAreHere'
<1>1. PICK count \in {1, Len(Similar)}, all \in BOOLEAN : reply' = loadSimilar(r.info["similar"], count, all) BY DEF Replies
<1>2. Len(Similar) \in Nat BY ExternalAssumption DEF ExternalAssumption
<1>3. r.info["similar"] \in {Blank} \cup Lists BY DEF RowTypeSet
<1>4. QED BY <1>1, <1>2, <1>3, loadSimilar_Here

\* What a fetch starts with.
LEMMA Starts_OK ==
    ASSUME ExtTypeOK, NEW c \in RowTypeSet, NEW old \in BOOLEAN, NEW retry \in BOOLEAN
    PROVE  LET f == Starts(c, old, retry)
           IN  /\ f \in FetchWork /\ f # NotFetching /\ f.copy = c /\ f.old = old /\ f.at = "gather" /\ f.retry = retry
               /\ Whole(f.copy.info, LeftOf(f))
<1>1. Wanted \in Seq(FieldNames)
    <2>1. Fields \in Seq(FieldNames)
        <3>1. "image" \in FieldNames /\ "bio" \in FieldNames /\ "url" \in FieldNames /\ "similar" \in FieldNames BY DEF FieldNames
        <3>2. QED BY <3>1 DEF Fields
    <2>2. <<"bio", "image">> \in Seq(FieldNames) BY DEF FieldNames
    <2>3. QED BY <2>1, <2>2 DEF Wanted
<1> DEFINE f == Starts(c, old, retry)
<1>2. f = [at |-> "gather", copy |-> c, old |-> old, left |-> Wanted, cut |-> FALSE, retry |-> retry] BY DEF Starts
<1>3. f \in FetchWork BY <1>1, <1>2 DEF FetchWork
<1>4. f.at = "gather" /\ f.left = Wanted /\ f.copy = c /\ f.old = old /\ f.retry = retry BY <1>2
<1> HIDE DEF f
<1>5. f # NotFetching BY <1>4, NotARow
<1>6. LeftOf(f) = WantedSet BY <1>4 DEF LeftOf, WantedSet
<1>7. Whole(f.copy.info, LeftOf(f)) BY <1>6 DEF Whole
<1>8. QED BY <1>3, <1>4, <1>5, <1>7 DEF f

\* One fetch changes, the row does not.
LEMMA FetchStep ==
    ASSUME ExtTypeOK, WholeInv, KeptInv, NEW a \in Everyone, NEW f \in FetchWork, fetches' = [fetches EXCEPT ![a] = f],
           UNCHANGED <<kind, infoRow, present, erased>>, infoFaults' \in Nat, infoFaults' = 0 => infoFaults = 0,
           copies' \in Seq(CopyWork), \A i \in DOMAIN copies' : ~copies'[i].old => Covers(copies'[i].copy, infoRow),
           f # NotFetching /\ ~f.old => Covers(f.copy, infoRow),
           infoFaults' = 0 /\ f.at = "gather" /\ ~f.cut => Whole(f.copy.info, LeftOf(f)),
           SimilarAreHere'
    PROVE  InfoInv'
<1>1. \A b \in Everyone : fetches'[b] = IF b = a THEN f ELSE fetches[b] BY DEF ExtTypeOK
<1>2. ExtTypeOK' BY DEF ExtTypeOK
<1>3. WantedSet' = WantedSet BY DEF WantedSet, Wanted
<1>4. \A b \in Everyone : infoFaults' = 0 /\ fetches'[b].at = "gather" /\ ~fetches'[b].cut
        => Whole(fetches'[b].copy.info, LeftOf(fetches'[b]))
    BY <1>1 DEF WholeInv
<1>5. WholeInv' BY <1>3, <1>4 DEF WholeInv, Whole
<1>6. KeptInv' BY <1>1 DEF KeptInv
<1>7. QED BY <1>2, <1>5, <1>6 DEF InfoInv

\* A copy joins the queue, or the queue is full.
LEMMA enqueue_OK ==
    ASSUME ExtTypeOK, KeptInv, NEW c \in RowTypeSet, NEW old \in BOOLEAN, enqueue(c, old), ~old => Covers(c, infoRow)
    PROVE  copies' \in Seq(CopyWork) /\ \A i \in DOMAIN copies' : ~copies'[i].old => Covers(copies'[i].copy, infoRow)
<1> DEFINE e == [copy |-> c, old |-> old]
<1>1. e \in CopyWork /\ e.copy = c /\ e.old = old BY DEF CopyWork
<1>2. copies' = Append(copies, e) \/ copies' = copies BY DEF enqueue
<1> HIDE DEF e
<1>3. CASE copies' = copies BY <1>3 DEF ExtTypeOK, KeptInv
<1>4. CASE copies' = Append(copies, e)
    <2>1. copies' \in Seq(CopyWork) BY <1>1, <1>4 DEF ExtTypeOK
    <2>2. \A i \in DOMAIN copies' : copies'[i] = e \/ (i \in DOMAIN copies /\ copies'[i] = copies[i]) BY <1>1, <1>4 DEF ExtTypeOK
    <2>3. QED BY <1>1, <2>1, <2>2 DEF KeptInv
<1>5. QED BY <1>2, <1>3, <1>4

LEMMA ExternalInit_Inv == ASSUME ExternalInit PROVE InfoInv
<1>1. ExtTypeOK
    <2>1. fetches \in [Everyone -> FetchWork] BY NotARow DEF ExternalInit
    <2>2. infoRow \in RowTypeSet BY NotARow DEF ExternalInit
    <2>3. infoFaults \in Nat /\ erased \in BOOLEAN BY DEF ExternalInit
    <2>6. copies \in Seq(CopyWork) BY DEF ExternalInit
    <2>4. kind \in {"artist", "album"} /\ present \in SUBSET Names BY DEF ExternalInit
    <2>5. QED BY <2>1, <2>2, <2>3, <2>4, <2>6 DEF ExtTypeOK
<1>2. WholeInv BY NotARow DEF ExternalInit, WholeInv
<1>3. KeptInv BY DEF ExternalInit, KeptInv
<1>4. SimilarAreHere BY DEF ExternalInit, SimilarAreHere
<1>5. QED BY <1>1, <1>2, <1>3, <1>4 DEF InfoInv

LEMMA CoversItself == ASSUME NEW r PROVE Covers(r, r)
BY DEF Covers

LEMMA UpdateInfo_Inv == ASSUME InfoInv, NEW a \in Askers, UpdateInfo(a) PROVE InfoInv'
<1> USE DEF InfoInv
<1>1. UNCHANGED <<kind, infoRow, present, erased, infoFaults>> /\ a \in Everyone BY DEF UpdateInfo, Everyone
<1>2. infoRow \in RowTypeSet /\ copies \in Seq(CopyWork) /\ infoFaults \in Nat BY DEF ExtTypeOK
<1>3. ASSUME fetches' = [fetches EXCEPT ![a] = Starts(infoRow, FALSE, TRUE)], reply' = <<>>, UNCHANGED copies PROVE InfoInv'
    <2> DEFINE f == Starts(infoRow, FALSE, TRUE)
    <2>1. f \in FetchWork /\ f.copy = infoRow /\ Whole(f.copy.info, LeftOf(f)) BY <1>2, Starts_OK
    <2>2. fetches' = [fetches EXCEPT ![a] = f] BY <1>3
    <2> HIDE DEF f
    <2>3. QED BY <1>1, <1>2, <1>3, <2>1, <2>2, CoversItself, FetchStep, NoReply DEF KeptInv
<1>4. ASSUME UNCHANGED fetches, SimilarAreHere', enqueue(infoRow, FALSE) \/ UNCHANGED copies PROVE InfoInv'
    <2>1. fetches' = [fetches EXCEPT ![a] = fetches[a]] /\ fetches[a] \in FetchWork BY <1>1, <1>4 DEF ExtTypeOK
    <2>2. copies' \in Seq(CopyWork) /\ \A i \in DOMAIN copies' : ~copies'[i].old => Covers(copies'[i].copy, infoRow)
        BY <1>2, <1>4, enqueue_OK, CoversItself DEF KeptInv
    <2>3. QED BY <1>1, <1>2, <1>4, <2>1, <2>2, FetchStep DEF KeptInv, WholeInv
<1>5. CASE fetches' = [fetches EXCEPT ![a] = Starts(infoRow, FALSE, TRUE)] /\ reply' = <<>> /\ UNCHANGED copies BY <1>3, <1>5
<1>6. CASE /\ Replies(infoRow) /\ UNCHANGED fetches
           /\ IF infoRow.stamp = "expired" THEN enqueue(infoRow, FALSE) ELSE UNCHANGED copies
    BY <1>1, <1>2, <1>4, <1>6, Replies_Here
<1>7. CASE enqueue(infoRow, FALSE) /\ reply' = <<>> /\ UNCHANGED fetches BY <1>4, <1>7, NoReply
<1>8. QED BY <1>5, <1>6, <1>7 DEF UpdateInfo

\* An answer is something, and what it is put beside stays.
LEMMA Filled_OK ==
    ASSUME ExtTypeOK, NEW c \in RowTypeSet, NEW field \in FieldNames
    PROVE  /\ Filled(c, field) \in RowTypeSet /\ Filled(c, field).info[field] # Blank
           /\ \A k \in FieldNames : c.info[k] # Blank => Filled(c, field).info[k] # Blank
<1> DEFINE new == [k \in FieldNames |-> IF k = field \/ (kind = "album" /\ field = "bio" /\ k = "url") THEN Answer(k) ELSE c.info[k]]
<1>1. mapSimilarArtists(present) \in Lists BY mapSimilarArtists_Type DEF ExtTypeOK
<1>2. Blank # "known" /\ Blank \notin Lists BY ExternalAssumption DEF ExternalAssumption, Lists, Entries
<1>3. \A k \in FieldNames : Answer(k) \in Values /\ Answer(k) # Blank BY <1>1, <1>2 DEF Answer, Values
<1>4. Answer("similar") \in Lists BY <1>1 DEF Answer
<1>5. c.info \in [FieldNames -> Values] /\ c.info["similar"] \in {Blank} \cup Lists BY DEF RowTypeSet
<1>6. new \in [FieldNames -> Values] BY <1>3, <1>5
<1>7. new["similar"] \in {Blank} \cup Lists BY <1>4, <1>5 DEF FieldNames
<1>8. new[field] # Blank /\ \A k \in FieldNames : c.info[k] # Blank => new[k] # Blank BY <1>3
<1>9. Filled(c, field) = [c EXCEPT !.info = new] BY DEF Filled
<1> HIDE DEF new
<1>10. Filled(c, field) \in RowTypeSet /\ Filled(c, field).info = new BY <1>6, <1>7, <1>9 DEF RowTypeSet
<1>11. QED BY <1>8, <1>10

\* A place of a sequence is dropped.
LEMMA Dropped_OK ==
    ASSUME NEW S, NEW s \in Seq(S), NEW i \in DOMAIN s
    PROVE  /\ Dropped(s, i) \in Seq(S)
           /\ \A j \in DOMAIN s : j # i => \E n \in DOMAIN Dropped(s, i) : Dropped(s, i)[n] = s[j]
<1>1. Len(s) \in Nat /\ DOMAIN s = 1..Len(s) /\ i \in 1..Len(s) OBVIOUS
<1> DEFINE p == SubSeq(s, 1, i - 1)
           q == SubSeq(s, i + 1, Len(s))
<1>2. p \in Seq(S) /\ Len(p) = i - 1 /\ \A n \in 1..(i - 1) : p[n] = s[n] BY <1>1
<1>3. q \in Seq(S) /\ Len(q) = Len(s) - i /\ \A n \in 1..(Len(s) - i) : q[n] = s[i + n] BY <1>1
<1>4. Dropped(s, i) = p \o q BY DEF Dropped
<1> HIDE DEF p, q
<1>5. /\ p \o q \in Seq(S) /\ Len(p \o q) = Len(s) - 1 /\ DOMAIN (p \o q) = 1..(Len(s) - 1)
      /\ \A n \in 1..(Len(s) - 1) : (p \o q)[n] = IF n <= i - 1 THEN p[n] ELSE q[n - (i - 1)]
    <2>1. p \in Seq(S) /\ q \in Seq(S) /\ p \o q \in Seq(S) BY <1>2, <1>3
    <2>2. Len(p \o q) = Len(p) + Len(q) BY <2>1
    <2>3. Len(p) + Len(q) = Len(s) - 1 BY <1>1, <1>2, <1>3
    <2>4. \A n \in 1..(Len(p) + Len(q)) : (p \o q)[n] = IF n <= Len(p) THEN p[n] ELSE q[n - Len(p)] BY <2>1
    <2>5. QED BY <1>2, <2>1, <2>2, <2>3, <2>4
<1>6. ASSUME NEW j \in DOMAIN s, j # i PROVE \E n \in DOMAIN (p \o q) : (p \o q)[n] = s[j]
    <2>1. CASE j < i
        <3>3. j \in Nat /\ i \in Nat /\ j \in 1..(Len(s) - 1) /\ j <= i - 1 BY <1>1, <2>1
        <3>1. j \in DOMAIN (p \o q) /\ (p \o q)[j] = p[j] BY <1>5, <3>3
        <3>4. j >= 1 /\ j \in 1..(i - 1) BY <3>3
        <3>2. QED BY <1>2, <3>1, <3>4
    <2>2. CASE j > i
        <3>4. j - 1 \in 1..(Len(s) - 1) /\ ~(j - 1 <= i - 1) /\ (j - 1) - (i - 1) = j - i BY <1>1, <2>2
        <3>1. j - 1 \in DOMAIN (p \o q) /\ (p \o q)[j - 1] = q[j - i] BY <1>5, <3>4
        <3>2. q[j - i] = s[j] BY <1>1, <1>3, <2>2
        <3>3. QED BY <3>1, <3>2
    <2>3. QED BY <1>1, <1>6, <2>1, <2>2
<1>7. QED BY <1>4, <1>5, <1>6

LEMMA callGet_Inv == ASSUME InfoInv, NEW a \in Everyone, callGet(a) PROVE InfoInv'
<1> DEFINE f == fetches[a]
<1> USE DEF InfoInv
<1>1. f \in FetchWork /\ copies \in Seq(CopyWork) /\ infoFaults \in Nat /\ f.at = "gather" /\ f.left # <<>>
    BY DEF ExtTypeOK, callGet
<1>2. PICK i \in 1..(IF kind = "artist" /\ Len(f.left) > 1 THEN 2 ELSE 1), failing \in SUBSET Agents :
            LET field == f.left[i]
                found == callAgentMethod(field, failing, f.cut)
            IN  /\ infoFaults' = infoFaults + Cardinality(failing)
                /\ fetches' = [fetches EXCEPT ![a] =
                     IF kind = "album" /\ field = "bio" /\ ~found THEN [f EXCEPT !.left = <<>>, !.at = "finish"]
                     ELSE [f EXCEPT !.left = Dropped(@, i), !.copy = IF found THEN Filled(@, field) ELSE @]]
    BY DEF callGet
<1> DEFINE field == f.left[i]
           found == callAgentMethod(field, failing, f.cut)
           ended == [f EXCEPT !.left = <<>>, !.at = "finish"]
           copy == IF found THEN Filled(f.copy, field) ELSE f.copy
           next == [f EXCEPT !.left = Dropped(f.left, i), !.copy = copy]
<1>3. infoFaults' = infoFaults + Cardinality(failing) BY <1>2
<1>4. fetches' = [fetches EXCEPT ![a] = ended] \/ fetches' = [fetches EXCEPT ![a] = next] BY <1>2
<1>5. UNCHANGED <<kind, infoRow, present, copies, erased>> /\ SimilarAreHere' BY NoReply DEF callGet
<1>6. f.left \in Seq(FieldNames) /\ f.copy \in RowTypeSet BY <1>1 DEF FetchWork
<1> HIDE DEF f
<1>7. i \in DOMAIN f.left /\ field \in FieldNames
    <2>1. Len(f.left) \in Nat /\ Len(f.left) # 0 BY <1>1, <1>6
    <2>2. QED BY <1>6, <2>1
<1>8. IsFiniteSet(Agents)
    <2>1. Len(EnabledAgents) \in Nat /\ DOMAIN EnabledAgents = 1..Len(EnabledAgents) BY ExternalAssumption DEF ExternalAssumption
    <2>2. IsFiniteSet(DOMAIN EnabledAgents) BY <2>1, FS_Interval
    <2> DEFINE S == DOMAIN EnabledAgents
               g == [k \in S |-> EnabledAgents[k]]
    <2>3. IsFiniteSet({g[k] : k \in S})
        <3>1. g \in Surjection(S, {g[k] : k \in S}) BY DEF Surjection
        <3> HIDE DEF g
        <3>2. QED BY <2>2, <3>1, FS_Surjection
    <2>4. {g[k] : k \in S} = Agents BY DEF Agents
    <2>5. QED BY <2>3, <2>4
<1>9. Cardinality(failing) \in Nat /\ (Cardinality(failing) = 0 => failing = {})
    <2>1. IsFiniteSet(failing) BY <1>8, FS_Subset
    <2>2. QED BY <2>1, FS_EmptySet, FS_CardinalityType
<1>10. infoFaults' \in Nat /\ (infoFaults' = 0 => infoFaults = 0 /\ failing = {}) BY <1>1, <1>3, <1>9
<1>11. copies' \in Seq(CopyWork) /\ \A n \in DOMAIN copies' : ~copies'[n].old => Covers(copies'[n].copy, infoRow)
    BY <1>1, <1>5 DEF KeptInv
<1>12. ~f.old => Covers(f.copy, infoRow) BY <1>1, NotARow DEF KeptInv, f
<1>13. CASE fetches' = [fetches EXCEPT ![a] = ended]
    <2>3. <<>> \in Seq(FieldNames) OBVIOUS
    <2>1. ended \in FetchWork /\ ended.at = "finish" /\ ended.copy = f.copy /\ ended.old = f.old BY <1>1, <2>3 DEF FetchWork
    <2> HIDE DEF ended
    <2>2. QED BY <1>5, <1>10, <1>11, <1>12, <1>13, <2>1, FetchStep
<1>14. CASE fetches' = [fetches EXCEPT ![a] = next]
    <2>1. /\ Filled(f.copy, field) \in RowTypeSet /\ Filled(f.copy, field).info[field] # Blank
          /\ \A k \in FieldNames : f.copy.info[k] # Blank => Filled(f.copy, field).info[k] # Blank
        BY <1>6, <1>7, Filled_OK
    <2>2. /\ Dropped(f.left, i) \in Seq(FieldNames)
          /\ \A j \in DOMAIN f.left : j # i => \E n \in DOMAIN Dropped(f.left, i) : Dropped(f.left, i)[n] = f.left[j]
        BY <1>6, <1>7, Dropped_OK
    <2>3. copy \in RowTypeSet /\ (\A k \in FieldNames : f.copy.info[k] # Blank => copy.info[k] # Blank) /\ (found => copy.info[field] # Blank)
        BY <1>6, <2>1
    <2> HIDE DEF copy
    <2>4. next \in FetchWork /\ next.left = Dropped(f.left, i) /\ next.copy = copy /\ next.old = f.old /\ next.cut = f.cut
        BY <1>1, <2>2, <2>3 DEF FetchWork
    <2> HIDE DEF next
    <2>5. ~next.old => Covers(next.copy, infoRow) BY <1>12, <2>3, <2>4 DEF Covers
    <2>6. ASSUME infoFaults' = 0, ~next.cut PROVE Whole(next.copy.info, LeftOf(next))
        <3>1. Whole(f.copy.info, LeftOf(f)) BY <1>1, <1>10, <2>4, <2>6 DEF WholeInv, f
        <3>2. found <=> Known(field) BY <1>10, <2>4, <2>6 DEF callAgentMethod, Answering, Known
        <3>3. \A k \in LeftOf(f) : k # field => k \in LeftOf(next) BY <2>2, <2>4 DEF LeftOf
        <3>4. WantedSet \subseteq FieldNames BY DEF WantedSet, Wanted, Fields, FieldNames
        <3> HIDE DEF found
        <3>5. ASSUME NEW k \in WantedSet PROVE k \in LeftOf(next) \/ (Known(k) => next.copy.info[k] # Blank)
            <4>1. CASE k = field BY <2>3, <2>4, <3>2, <4>1
            <4>2. CASE k # field BY <2>3, <2>4, <3>1, <3>3, <3>4, <4>2 DEF Whole
            <4>3. QED BY <4>1, <4>2
        <3>6. QED BY <3>5 DEF Whole
    <2>7. QED BY <1>5, <1>10, <1>11, <1>14, <2>4, <2>5, <2>6, FetchStep
<1>15. QED BY <1>4, <1>13, <1>14

LEMMA Finish_Inv == ASSUME InfoInv, NEW a \in Everyone, Finish(a) PROVE InfoInv'
<1> DEFINE f == fetches[a]
<1> USE DEF InfoInv
<1>1. f \in FetchWork /\ copies \in Seq(CopyWork) /\ infoFaults \in Nat /\ f.at = "finish" BY DEF ExtTypeOK, Finish
<1>2. f.copy \in RowTypeSet /\ f.old \in BOOLEAN BY <1>1 DEF FetchWork
<1>3. UNCHANGED <<kind, infoRow, present, erased, infoFaults>> /\ fetches' = [fetches EXCEPT ![a] = NotFetching] BY DEF Finish
<1>4. enqueue(f.copy, f.old) \/ UNCHANGED copies BY DEF Finish
<1>5. Replies(f.copy) \/ reply' = <<>> BY DEF Finish
<1>6. ~f.old => Covers(f.copy, infoRow) BY <1>1, NotARow DEF KeptInv
<1> HIDE DEF f
<1>7. copies' \in Seq(CopyWork) /\ \A i \in DOMAIN copies' : ~copies'[i].old => Covers(copies'[i].copy, infoRow)
    BY <1>1, <1>2, <1>4, <1>6, enqueue_OK DEF KeptInv
<1>8. SimilarAreHere' BY <1>2, <1>3, <1>5, Replies_Here, NoReply
<1>9. QED BY <1>1, <1>3, <1>7, <1>8, NotARow, FetchStep

LEMMA WorkerTakes_Inv == ASSUME InfoInv, WorkerTakes PROVE InfoInv'
<1> USE DEF InfoInv
<1>1. copies \in Seq(CopyWork) /\ copies # <<>> /\ infoFaults \in Nat /\ "worker" \in Everyone BY DEF WorkerTakes, ExtTypeOK, Everyone
<1>2. Head(copies) \in CopyWork /\ Head(copies) = copies[1] /\ 1 \in DOMAIN copies BY <1>1
<1> DEFINE c == Head(copies).copy
           old == Head(copies).old
           f == Starts(c, old, FALSE)
<1>3. c \in RowTypeSet /\ old \in BOOLEAN BY <1>2 DEF CopyWork
<1>4. ~old => Covers(c, infoRow) BY <1>2 DEF KeptInv
<1>5. UNCHANGED <<kind, infoRow, present, erased, infoFaults>> /\ fetches' = [fetches EXCEPT !["worker"] = f] /\ copies' = Tail(copies) /\ reply' = <<>>
    BY DEF WorkerTakes
<1> HIDE DEF c, old
<1>6. f \in FetchWork /\ f.copy = c /\ f.old = old /\ Whole(f.copy.info, LeftOf(f)) BY <1>3, Starts_OK
<1> HIDE DEF f
<1>7. copies' \in Seq(CopyWork) /\ \A i \in DOMAIN copies' : i + 1 \in DOMAIN copies /\ copies'[i] = copies[i + 1] BY <1>1, <1>5
<1>8. \A i \in DOMAIN copies' : ~copies'[i].old => Covers(copies'[i].copy, infoRow) BY <1>7 DEF KeptInv
<1>9. QED BY <1>1, <1>4, <1>5, <1>6, <1>7, <1>8, NoReply, FetchStep

LEMMA Cut_Inv == ASSUME InfoInv, NEW a \in Everyone, Cut(a) PROVE InfoInv'
<1> DEFINE f == [fetches[a] EXCEPT !.cut = TRUE]
<1> USE DEF InfoInv
<1>1. fetches[a] \in FetchWork /\ copies \in Seq(CopyWork) /\ infoFaults \in Nat /\ fetches[a].at = "gather" BY DEF ExtTypeOK, Cut
<1>2. fetches' = [fetches EXCEPT ![a] = f] BY DEF Cut
<1>3. UNCHANGED <<kind, infoRow, present, copies, erased, reply, infoFaults>> BY DEF Cut
<1>4. f \in FetchWork /\ f.cut /\ f.copy = fetches[a].copy /\ f.old = fetches[a].old BY <1>1 DEF FetchWork
<1>5. ~f.old => Covers(f.copy, infoRow) BY <1>1, <1>4, NotARow DEF KeptInv
<1> HIDE DEF f
<1>6. SimilarAreHere' BY <1>3 DEF SimilarAreHere
<1>7. QED BY <1>1, <1>2, <1>3, <1>4, <1>5, <1>6, FetchStep DEF KeptInv

\* Only the row's stamp changes, or only who is in the library.
LEMMA Expire_Inv == ASSUME InfoInv, Expire PROVE InfoInv'
<1> USE DEF InfoInv
<1>1. infoRow \in RowTypeSet /\ infoRow' = [infoRow EXCEPT !.stamp = "expired"] /\ infoRow.stamp = "fresh" BY DEF Expire, ExtTypeOK
<1>2. infoRow' \in RowTypeSet /\ infoRow'.info = infoRow.info BY <1>1 DEF RowTypeSet
<1>3. UNCHANGED <<kind, present, fetches, copies, erased, infoFaults>> /\ reply' = <<>> BY DEF Expire
<1>4. ExtTypeOK' BY <1>2, <1>3 DEF ExtTypeOK
<1>5. WantedSet' = WantedSet BY <1>3 DEF WantedSet, Wanted
<1>6. WholeInv' BY <1>1, <1>2, <1>3, <1>5 DEF WholeInv, Whole
<1>7. KeptInv' BY <1>2, <1>3 DEF KeptInv, Covers
<1>8. QED BY <1>3, <1>4, <1>6, <1>7, NoReply

LEMMA ArtistLeaves_Inv == ASSUME InfoInv, ArtistLeaves PROVE InfoInv'
<1> USE DEF InfoInv
<1>1. UNCHANGED <<kind, infoRow, fetches, copies, erased, infoFaults>> /\ reply' = <<>> /\ present' \subseteq present BY DEF ArtistLeaves
<1>2. ExtTypeOK' BY <1>1 DEF ExtTypeOK
<1>3. WantedSet' = WantedSet BY <1>1 DEF WantedSet, Wanted
<1>4. WholeInv' BY <1>1, <1>3 DEF WholeInv, Whole
<1>5. KeptInv' BY <1>1 DEF KeptInv
<1>6. QED BY <1>1, <1>2, <1>4, <1>5, NoReply

\* The row is written from a copy that was not cut: it is whole, and no copy
\* made before this is taken for newer.
LEMMA UpdateExternalInfo_Inv == ASSUME InfoInv, NEW a \in Everyone, UpdateExternalInfo(a) PROVE InfoInv'
<1> DEFINE f == fetches[a]
           new == [f.copy EXCEPT !.stamp = "fresh"]
           done == [f EXCEPT !.at = "finish", !.copy = new]
<1> USE DEF InfoInv
<1>1. f \in FetchWork /\ copies \in Seq(CopyWork) /\ infoFaults \in Nat /\ f.at = "gather" /\ f.left = <<>> /\ fetches \in [Everyone -> FetchWork]
    BY DEF ExtTypeOK, UpdateExternalInfo
<1>2. UNCHANGED <<kind, present>> /\ SimilarAreHere' BY NoReply DEF UpdateExternalInfo
<1>3. f.copy \in RowTypeSet /\ f.old \in BOOLEAN BY <1>1 DEF FetchWork
<1>4. ~f.old => Covers(f.copy, infoRow) BY <1>1, NotARow DEF KeptInv
<1>5. infoFaults = 0 /\ ~f.cut => Whole(f.copy.info, LeftOf(f)) BY <1>1 DEF WholeInv
<1>6. new \in RowTypeSet /\ new.info = f.copy.info /\ new.stamp = "fresh" BY <1>3 DEF RowTypeSet
<1>7. done \in FetchWork /\ done.at = "finish" /\ done.copy = new /\ done.old = f.old
    <2> HIDE DEF f, new
    <2>1. QED BY <1>1, <1>6 DEF FetchWork
<1>8. \/ /\ f.cut /\ (fetches' = [fetches EXCEPT ![a] = NotFetching] \/ fetches' = [fetches EXCEPT ![a] = done])
         /\ UNCHANGED <<infoRow, copies, erased, infoFaults>>
      \/ /\ ~f.cut /\ infoRow' = new
         /\ erased' = (erased \/ (~f.old /\ \E k \in FieldNames : infoRow.info[k] # Blank /\ new.info[k] = Blank))
         /\ fetches' = [b \in Everyone |-> IF b = a THEN done ELSE IF fetches[b] = NotFetching THEN NotFetching ELSE [fetches[b] EXCEPT !.old = TRUE]]
         /\ copies' = [i \in DOMAIN copies |-> [copies[i] EXCEPT !.old = TRUE]]
         /\ UNCHANGED infoFaults
      \/ /\ ~f.cut /\ infoFaults' = infoFaults + 1 /\ fetches' = [fetches EXCEPT ![a] = done]
         /\ UNCHANGED <<infoRow, copies, erased>>
    BY DEF UpdateExternalInfo
<1> DEFINE next(b) == IF b = a THEN done ELSE IF fetches[b] = NotFetching THEN NotFetching ELSE [fetches[b] EXCEPT !.old = TRUE]
<1> HIDE DEF done
<1>9. ~done.old => Covers(done.copy, infoRow) BY <1>4, <1>6, <1>7 DEF Covers
<1>10. ASSUME infoFaults' \in Nat, infoFaults' = 0 => infoFaults = 0, UNCHANGED <<infoRow, copies, erased>>,
              fetches' = [fetches EXCEPT ![a] = NotFetching] \/ fetches' = [fetches EXCEPT ![a] = done]
       PROVE  InfoInv'
    <2>1. copies' \in Seq(CopyWork) /\ \A i \in DOMAIN copies' : ~copies'[i].old => Covers(copies'[i].copy, infoRow)
        BY <1>1, <1>10 DEF KeptInv
    <2>2. CASE fetches' = [fetches EXCEPT ![a] = done] BY <1>2, <1>7, <1>9, <1>10, <2>1, <2>2, FetchStep
    <2>3. CASE fetches' = [fetches EXCEPT ![a] = NotFetching] BY <1>2, <1>10, <2>1, <2>3, NotARow, FetchStep
    <2>4. QED BY <1>10, <2>2, <2>3
<1>11. CASE /\ f.cut /\ (fetches' = [fetches EXCEPT ![a] = NotFetching] \/ fetches' = [fetches EXCEPT ![a] = done])
            /\ UNCHANGED <<infoRow, copies, erased, infoFaults>>
    BY <1>1, <1>10, <1>11
<1>12. CASE /\ ~f.cut /\ infoFaults' = infoFaults + 1 /\ fetches' = [fetches EXCEPT ![a] = done]
            /\ UNCHANGED <<infoRow, copies, erased>>
    BY <1>1, <1>10, <1>12
<1>13. ASSUME ~f.cut, infoRow' = new,
              erased' = (erased \/ (~f.old /\ \E k \in FieldNames : infoRow.info[k] # Blank /\ new.info[k] = Blank)),
              fetches' = [b \in Everyone |-> next(b)],
              copies' = [i \in DOMAIN copies |-> [copies[i] EXCEPT !.old = TRUE]], UNCHANGED infoFaults
       PROVE  InfoInv'
    <2> HIDE DEF f, new
    <2>1. ASSUME NEW b \in Everyone
          PROVE  /\ next(b) \in FetchWork /\ (b # a => next(b) = NotFetching \/ (next(b).old /\ next(b).at = fetches[b].at
                      /\ next(b).cut = fetches[b].cut /\ next(b).left = fetches[b].left /\ next(b).copy = fetches[b].copy))
        <3>1. CASE b = a BY <1>7, <3>1
        <3>2. CASE b # a /\ fetches[b] = NotFetching BY <3>2, NotARow
        <3>3. CASE b # a /\ fetches[b] # NotFetching
            <4>1. fetches[b] \in FetchWork BY <1>1
            <4>2. next(b) = [fetches[b] EXCEPT !.old = TRUE] BY <3>3
            <4>3. QED BY <4>1, <4>2 DEF FetchWork
        <3>4. QED BY <3>1, <3>2, <3>3
    <2>2. next(a) = done OBVIOUS
    <2> HIDE DEF next
    <2>3. \A b \in Everyone : fetches'[b] = next(b) BY <1>13
    <2>4. fetches' \in [Everyone -> FetchWork] BY <1>13, <2>1
    <2>5. copies' \in Seq(CopyWork) /\ \A i \in DOMAIN copies' : copies'[i].old
        <3>1. Len(copies) \in Nat /\ DOMAIN copies = 1..Len(copies) BY <1>1
        <3>2. \A i \in DOMAIN copies : copies[i] \in CopyWork BY <1>1
        <3>3. \A i \in DOMAIN copies : [copies[i] EXCEPT !.old = TRUE] \in CopyWork /\ [copies[i] EXCEPT !.old = TRUE].old
            BY <3>2 DEF CopyWork
        <3>4. \A i \in DOMAIN copies : copies'[i] = [copies[i] EXCEPT !.old = TRUE] BY <1>13
        <3>5. copies' \in Seq(CopyWork) BY <1>13, <3>1, <3>3
        <3>6. QED BY <1>13, <3>3, <3>4, <3>5
    <2>6. erased' = FALSE
        <3>1. ~f.old => ~\E k \in FieldNames : infoRow.info[k] # Blank /\ new.info[k] = Blank BY <1>4, <1>6 DEF Covers
        <3>2. ~erased BY DEF KeptInv
        <3>3. QED BY <1>13, <3>1, <3>2, Zenon
    <2>7. ExtTypeOK' BY <1>1, <1>2, <1>6, <1>13, <2>4, <2>5, <2>6 DEF ExtTypeOK
    <2>8. WantedSet' = WantedSet BY <1>2 DEF WantedSet, Wanted
    <2>9. WholeInv'
        <3>1. infoFaults = 0 => Whole(new.info, {})
            <4>1. LeftOf(f) = {} BY <1>1 DEF LeftOf
            <4>2. QED BY <1>5, <1>6, <1>13, <4>1
        <3>2. ASSUME infoFaults = 0, NEW b \in Everyone, next(b).at = "gather", ~next(b).cut PROVE Whole(next(b).copy.info, LeftOf(next(b)))
            <4>1. b # a BY <1>7, <2>2, <3>2
            <4>2. next(b) # NotFetching BY <3>2, NotARow
            <4>3. fetches[b].at = "gather" /\ ~fetches[b].cut /\ next(b).left = fetches[b].left /\ next(b).copy = fetches[b].copy
                BY <2>1, <3>2, <4>1, <4>2
            <4>4. Whole(fetches[b].copy.info, LeftOf(fetches[b])) BY <3>2, <4>3 DEF WholeInv
            <4>5. QED BY <4>3, <4>4 DEF LeftOf
        <3>3. QED BY <1>13, <2>3, <2>8, <3>1, <3>2 DEF WholeInv, Whole
    <2>10. KeptInv'
        <3>1. \A b \in Everyone : next(b) # NotFetching /\ ~next(b).old => b = a BY <2>1
        <3>2. Covers(done.copy, infoRow') BY <1>7, <1>13, CoversItself
        <3>3. QED BY <2>2, <2>3, <2>5, <2>6, <3>1, <3>2 DEF KeptInv
    <2>11. QED BY <1>2, <2>7, <2>9, <2>10
<1>14. QED BY <1>8, <1>11, <1>12, <1>13

LEMMA ExternalNext_Inv == ASSUME InfoInv, [ExternalNext]_externalVars PROVE InfoInv'
<1>1. ASSUME NEW a \in Everyone, Step(a) \/ Cut(a) PROVE InfoInv'
    BY <1>1, callGet_Inv, UpdateExternalInfo_Inv, Finish_Inv, Cut_Inv DEF Step
<1>2. ASSUME NEW a \in Askers, UpdateInfo(a) PROVE InfoInv' BY <1>2, UpdateInfo_Inv
<1>3. CASE WorkerTakes \/ Expire \/ ArtistLeaves BY <1>3, WorkerTakes_Inv, Expire_Inv, ArtistLeaves_Inv
<1>4. CASE UNCHANGED externalVars
    BY <1>4 DEF InfoInv, externalVars, ExtTypeOK, WholeInv, KeptInv, SimilarAreHere, Whole, WantedSet, Wanted
<1>5. QED BY <1>1, <1>2, <1>3, <1>4 DEF ExternalNext

LEMMA InfoInv_Kept == ASSUME InfoInv PROVE InfoIsKept
<1>1. FetchedIsWhole BY DEF InfoInv, WholeInv, FetchedIsWhole, Whole, WantedSet, Known
<1>2. QED BY <1>1 DEF InfoInv, KeptInv, KnownIsKept, InfoIsKept

\* External information that is served is whole, is not lost to a failing agent
\* or to an older copy, and refers to artists of the library
\* (UpdateArtistInfo, populateArtistInfo, callGetImage and the refresh queue of
\* external/provider.go).
THEOREM InfoHolds == ExternalSpec => []InfoIsKept
<1>1. ExternalInit => InfoInv BY ExternalInit_Inv
<1>2. InfoInv /\ [ExternalNext]_externalVars => InfoInv' BY ExternalNext_Inv
<1>3. InfoInv => InfoIsKept BY InfoInv_Kept
<1>4. QED BY <1>1, <1>2, <1>3, PTL DEF ExternalSpec

-------------------------------------------------------------------------------
(* MovedTracks.  A song that is missing keeps its row until its own group      *)
(* moves it, once; the copies of new rows that a group has not used are the    *)
(* rows, unless another library's group took one.                              *)

TrackCopy == [id : Ids, row : TrackRow]
MoveGroup == [lib : Libs, missing : SUBSET TrackCopy, matched : SUBSET TrackCopy, todo : SUBSET Ids, used : SUBSET Ids]
MoveSearch == [group : MoveGroup, of : SUBSET TrackCopy, found : SUBSET TrackCopy]

MovedTypeOK ==
    /\ rows \in [Ids -> TrackRow \cup {NoTrack}] /\ before \in [Ids -> TrackRow \cup {NoTrack}]
    /\ unread \subseteq Libs
    /\ waiting \subseteq MoveGroup /\ within \subseteq MoveGroup /\ passedOn \subseteq MoveGroup
    /\ across \subseteq MoveSearch
    /\ takenBy \in [Ids -> SUBSET Libs] /\ movesCrossed \in BOOLEAN /\ finalized \in BOOLEAN

\* The rows of the start: new ones are not missing.  A row that is missing is the start's.
BeforeInv ==
    /\ \A i \in Ids \ Fresh : before[i] # NoTrack /\ before[i].album = AlbumOf[i]
    /\ \A i \in Fresh : before[i] # NoTrack => ~before[i].missing /\ before[i].created > 3
    /\ \A i \in Ids : rows[i] # NoTrack /\ rows[i].missing => i \notin Fresh /\ rows[i] = before[i]
    /\ \A i \in Ids : before[i] # NoTrack /\ before[i].missing /\ before[i].lib \in unread => rows[i] = before[i]

\* A library has one group, in one place.
MovePlaces == {"waiting", "within", "passedOn", "across"}
GroupsAt(p) ==
    CASE p = "waiting" -> waiting
      [] p = "within" -> within
      [] p = "passedOn" -> passedOn
      [] p = "across" -> {a.group : a \in across}
PlaceInv ==
    /\ \A p \in MovePlaces : \A g \in GroupsAt(p) : g.lib \notin unread
    /\ \A p, q \in MovePlaces : \A g \in GroupsAt(p), h \in GroupsAt(q) : g.lib = h.lib => p = q /\ g = h
    /\ \A a, b \in across : a = b
    /\ \A g, h \in within : g = h
    /\ finalized => PipelineEmpty

\* Copies of missing songs are the rows until they are moved.
Gone(i) == rows[i] = NoTrack \/ ~rows[i].missing
OldCopy(g, ms) == ms.row.missing /\ ms.row.lib = g.lib
NewCopy(n) == ~n.row.missing /\ Gone(n.id)
CopyInv ==
    /\ \A p \in MovePlaces : \A g \in GroupsAt(p) : \A ms \in g.missing : OldCopy(g, ms)
    /\ \A p \in MovePlaces : \A g \in GroupsAt(p) : \A ms \in g.missing : ms.id \in g.todo => rows[ms.id] = ms.row
    /\ \A g \in waiting \cup within :
          /\ \A n \in g.matched : NewCopy(n) /\ \A ms \in g.missing : ms.id # n.id
          /\ g.used = {} => \A ms \in g.missing : rows[ms.id] = ms.row
    /\ \A a \in across :
          /\ \A n \in a.found : NewCopy(n)
          /\ \A ms \in a.of : ms \in a.group.missing /\ rows[ms.id] = ms.row /\ ms.id \notin a.group.todo

\* What is not used yet is there, unless another library's group took it.
Own(g, n) == takenBy[n.id] \subseteq {g.lib} => rows[n.id] = n.row
FileInv ==
    /\ OneRowPerFile
    /\ \A g \in waiting \cup within : \A n \in g.matched : n.id \notin g.used => Own(g, n)
    /\ \A a \in across : \A n \in a.found : Own(a.group, n)

\* A missing song whose file is new elsewhere in the library is to be moved or was moved.
Moves(m, n) ==
    /\ before[m] # NoTrack /\ before[m].missing
    /\ rows[n] # NoTrack /\ rows[n] = before[n] /\ before[n].lib = before[m].lib /\ before[n].content = before[m].content
Followed(m) == before[m].lib \in takenBy[m] /\ (movesCrossed \/ (rows[m] # NoTrack /\ ~rows[m].missing))
ToFollow(g, m, n) ==
    /\ [id |-> m, row |-> before[m]] \in g.missing /\ [id |-> n, row |-> before[n]] \in g.matched
    /\ n \notin g.used
    /\ m \in g.todo \/ (g.used # {} /\ Followed(m))
MissInv ==
    \A m \in Ids \ Fresh, n \in Fresh : Moves(m, n) =>
        /\ \A g \in waiting \cup within : g.lib = before[m].lib => ToFollow(g, m, n)
        /\ before[m].lib \notin unread /\ (\A g \in waiting \cup within : g.lib # before[m].lib) =>
              Followed(m) /\ \A p \in {"passedOn", "across"} : \A g \in GroupsAt(p) : g.lib # before[m].lib

\* An album that lost its star has a song in another album; a new album that was
\* processed has the star of one whose songs moved there, or that one's went elsewhere.
StarInv ==
    /\ \A x \in OldAlbums : x \in starred \/ \E z \in TrackAlbums : z # x /\ <<x, z>> \in movedAlbums
    /\ \A y \in TrackAlbums \ OldAlbums : y \in processed =>
          \E o \in OldAlbums : <<o, y>> \in movedAlbums /\ (y \in starred \/ \E z \in TrackAlbums : z # y /\ <<o, z>> \in movedAlbums)
    /\ \A o \in OldAlbums, z \in TrackAlbums : <<o, z>> \in movedAlbums /\ o # z => z \in processed
    /\ \A o \in OldAlbums, z \in TrackAlbums : <<o, z>> \in movedAlbums =>
          \E i \in Ids \ Fresh : AlbumOf[i] = o /\ (rows[i] = NoTrack \/ (~rows[i].missing /\ rows[i].album = z))

MovedInv == MovedTypeOK /\ BeforeInv /\ PlaceInv /\ CopyInv /\ FileInv /\ MissInv /\ StarInv

\* What a move does to the rows and to the histories.
MoveFacts(lib, n, ms) ==
    /\ n.id # ms.id /\ n.id \in Ids /\ ms.id \in Ids \ Fresh /\ lib \in Libs
    /\ rows' \in [Ids -> TrackRow \cup {NoTrack}] /\ takenBy' \in [Ids -> SUBSET Libs] /\ movesCrossed' \in BOOLEAN
    /\ rows'[ms.id] \in TrackRow /\ ~rows'[ms.id].missing /\ rows'[ms.id].file = n.row.file /\ rows'[ms.id].album = n.row.album
    /\ rows'[n.id] = NoTrack
    /\ \A i \in Ids \ {ms.id, n.id} : rows'[i] = rows[i] /\ takenBy'[i] = takenBy[i]
    /\ lib \in takenBy'[ms.id] /\ lib \in takenBy'[n.id] /\ \A i \in Ids : takenBy[i] \subseteq takenBy'[i]
    /\ movesCrossed \/ takenBy[n.id] \ {lib} # {} => movesCrossed'
    /\ ~movesCrossed /\ takenBy[n.id] \subseteq {lib} => ~movesCrossed'
    /\ rows[ms.id] = ms.row /\ ms.row.missing /\ NewCopy(n)

LEMMA MoveMatched_Facts ==
    ASSUME MovedTypeOK, BeforeInv, NEW lib \in Libs, NEW n \in TrackCopy, NEW ms \in TrackCopy,
           rows[ms.id] = ms.row, ms.row.missing, NewCopy(n), moveMatched(lib, n, ms)
    PROVE  MoveFacts(lib, n, ms)
<1>1. n.id \in Ids /\ ms.id \in Ids /\ n.row \in TrackRow /\ ms.row \in TrackRow BY DEF TrackCopy
<1>2. rows[ms.id] # NoTrack /\ rows[ms.id].missing BY <1>1, MovedAssumption DEF MovedAssumption
<1>3. n.id # ms.id BY <1>2 DEF NewCopy, Gone
<1>4. ms.id \notin Fresh BY <1>1, <1>2 DEF BeforeInv
<1> DEFINE new == [n.row EXCEPT !.created = rows[ms.id].created]
<1>5. new \in TrackRow /\ new.missing = n.row.missing /\ new.file = n.row.file /\ new.album = n.row.album
    <2>1. rows[ms.id].created \in Nat BY <1>1 DEF TrackRow
    <2> HIDE DEF MoveFacts
    <2>2. QED BY <1>1, <2>1 DEF TrackRow
<1>6. rows' = [rows EXCEPT ![ms.id] = new, ![n.id] = NoTrack] BY <1>2 DEF moveMatched
<1> HIDE DEF new
<1>7. /\ rows' \in [Ids -> TrackRow \cup {NoTrack}] /\ rows'[ms.id] = new /\ rows'[n.id] = NoTrack
      /\ \A i \in Ids \ {ms.id, n.id} : rows'[i] = rows[i]
    BY <1>1, <1>3, <1>5, <1>6 DEF MovedTypeOK
<1>8. takenBy' = [takenBy EXCEPT ![n.id] = @ \cup {lib}, ![ms.id] = @ \cup {lib}] BY DEF moveMatched
<1>9. /\ takenBy' \in [Ids -> SUBSET Libs] /\ lib \in takenBy'[ms.id] /\ lib \in takenBy'[n.id]
      /\ \A i \in Ids : takenBy[i] \subseteq takenBy'[i]
      /\ \A i \in Ids \ {ms.id, n.id} : takenBy'[i] = takenBy[i]
    BY <1>1, <1>3, <1>8 DEF MovedTypeOK
<1>10. movesCrossed' = (movesCrossed \/ takenBy[n.id] \ {lib} # {}) BY DEF moveMatched
<1>11. movesCrossed' \in BOOLEAN BY <1>10 DEF MovedTypeOK
<1>12. ~n.row.missing BY DEF NewCopy
<1>13. ~movesCrossed /\ takenBy[n.id] \subseteq {lib} => ~movesCrossed' BY <1>10
<1>14. movesCrossed \/ takenBy[n.id] \ {lib} # {} => movesCrossed' BY <1>10
<1>15. QED BY <1>1, <1>2, <1>3, <1>4, <1>5, <1>7, <1>9, <1>11, <1>12, <1>13, <1>14 DEF MoveFacts

LEMMA Move_Before ==
    ASSUME MovedTypeOK, BeforeInv, NEW lib, NEW n, NEW ms, MoveFacts(lib, n, ms), UNCHANGED <<before, unread>>,
           ms.row.lib \notin unread
    PROVE  BeforeInv' /\ \A i \in Ids : Gone(i) => Gone(i)'
<1> USE DEF MoveFacts
<1>1. \A i \in Ids : rows'[i] = rows[i] \/ (i = ms.id /\ ~rows'[i].missing) \/ (i = n.id /\ rows'[i] = NoTrack) OBVIOUS
<1>2. \A i \in Ids : Gone(i) => Gone(i)' BY <1>1 DEF Gone
<1>3. \A i \in Ids : rows'[i] # NoTrack /\ rows'[i].missing => i \notin Fresh /\ rows'[i] = before'[i] BY <1>1 DEF BeforeInv
<1>4. ASSUME NEW i \in Ids, before[i] # NoTrack, before[i].missing, before[i].lib \in unread PROVE rows'[i] = before[i]
    <2>1. rows[i] = before[i] BY <1>4 DEF BeforeInv
    <2>2. i # ms.id BY <1>4, <2>1
    <2>3. i # n.id BY <1>4, <2>1 DEF NewCopy, Gone
    <2>4. QED BY <2>1, <2>2, <2>3
<1>5. QED BY <1>2, <1>3, <1>4 DEF BeforeInv

\* Stars go where the songs go.
LEMMA Move_Star ==
    ASSUME MovedTypeOK, BeforeInv, StarInv, NEW lib, NEW n \in TrackCopy, NEW ms \in TrackCopy, MoveFacts(lib, n, ms), moveMatched(lib, n, ms)
    PROVE  StarInv'
<1> DEFINE o == ms.row.album
           w == n.row.album
<1>1. ms.id \in Ids \ Fresh /\ o = AlbumOf[ms.id] /\ o \in OldAlbums /\ w \in TrackAlbums
    <2>1. ms.id \in Ids \ Fresh /\ rows[ms.id] = ms.row /\ ms.row.missing BY DEF MoveFacts
    <2>2. ms.row = before[ms.id]
        <3>1. ms.row # NoTrack BY MovedAssumption DEF MovedAssumption, TrackCopy
        <3>2. QED BY <2>1, <3>1 DEF BeforeInv
    <2>3. o = AlbumOf[ms.id] BY <2>1, <2>2 DEF BeforeInv
    <2>4. QED BY <2>1, <2>3 DEF OldAlbums, TrackCopy, TrackRow
<1>2. movedAlbums' = movedAlbums \cup {<<o, w>>} BY DEF moveMatched
<1>3. ReassignAlbum(o, w) BY DEF moveMatched
<1> HIDE DEF o, w
<1>4. OldAlbums \subseteq TrackAlbums BY DEF OldAlbums, TrackAlbums
<1>5. processed \subseteq processed' /\ (o # w => w \in processed') /\ \A z : z \in processed' => z \in processed \/ (z = w /\ o # w /\ w \notin processed)
    BY <1>3 DEF ReassignAlbum
<1>6. \A x : x \in starred /\ x # o => x \in starred' BY <1>3 DEF ReassignAlbum
<1>7. ~(o \in starred' \/ o \notin starred) => o # w BY <1>3 DEF ReassignAlbum
<1>8. o # w /\ w \notin processed /\ o \in starred => w \in starred' BY <1>3 DEF ReassignAlbum
<1>9. \A x \in OldAlbums : x \in starred' \/ \E z \in TrackAlbums : z # x /\ <<x, z>> \in movedAlbums'
    <2> TAKE x \in OldAlbums
    <2>1. CASE x = o BY <1>1, <1>2, <1>7, <2>1 DEF StarInv
    <2>2. CASE x # o BY <1>2, <1>6, <2>2 DEF StarInv
    <2>3. QED BY <2>1, <2>2
<1>10. \A q \in OldAlbums, z \in TrackAlbums : <<q, z>> \in movedAlbums' /\ q # z => z \in processed'
    <2> TAKE q \in OldAlbums, z \in TrackAlbums
    <2>1. CASE <<q, z>> \in movedAlbums BY <1>5, <2>1 DEF StarInv
    <2>2. CASE <<q, z>> = <<o, w>> BY <1>5, <2>2
    <2>3. QED BY <1>2, <2>1, <2>2
<1>11. ASSUME NEW y \in TrackAlbums \ OldAlbums, y \in processed'
       PROVE  \E q \in OldAlbums : <<q, y>> \in movedAlbums' /\ (y \in starred' \/ \E z \in TrackAlbums : z # y /\ <<q, z>> \in movedAlbums')
    <2>1. y # o BY <1>1
    <2>2. CASE y \in processed BY <1>2, <1>6, <2>1, <2>2 DEF StarInv
    <2>3. CASE y \notin processed
        <3>1. y = w /\ o # w /\ w \notin processed BY <1>5, <1>11, <2>3
        <3>2. CASE o \in starred BY <1>1, <1>2, <1>8, <3>1, <3>2
        <3>3. CASE o \notin starred
            <4>1. PICK z \in TrackAlbums : z # o /\ <<o, z>> \in movedAlbums BY <1>1, <3>3 DEF StarInv
            <4>2. z \in processed BY <1>1, <4>1 DEF StarInv
            <4>3. QED BY <1>1, <1>2, <3>1, <4>1, <4>2
        <3>4. QED BY <3>2, <3>3
    <2>4. QED BY <2>2, <2>3
<1>12. ASSUME NEW q \in OldAlbums, NEW z \in TrackAlbums, <<q, z>> \in movedAlbums'
       PROVE  \E i \in Ids \ Fresh : AlbumOf[i] = q /\ (rows'[i] = NoTrack \/ (~rows'[i].missing /\ rows'[i].album = z))
    <2>1. CASE <<q, z>> \in movedAlbums
        <3>1. PICK i \in Ids \ Fresh : AlbumOf[i] = q /\ (rows[i] = NoTrack \/ (~rows[i].missing /\ rows[i].album = z)) BY <2>1 DEF StarInv
        <3>2. i # ms.id
            <4>1. ms.row # NoTrack BY MovedAssumption DEF MovedAssumption, TrackCopy
            <4>2. QED BY <3>1, <4>1 DEF MoveFacts
        <3>3. CASE i = n.id BY <3>1, <3>3 DEF MoveFacts
        <3>4. CASE i # n.id BY <3>1, <3>2, <3>4 DEF MoveFacts
        <3>5. QED BY <3>3, <3>4
    <2>2. CASE <<q, z>> = <<o, w>>
        <3>1. rows'[ms.id].album = w /\ ~rows'[ms.id].missing BY DEF MoveFacts, w
        <3>2. QED BY <1>1, <2>2, <3>1
    <2>3. QED BY <1>2, <1>12, <2>1, <2>2
<1>13. QED BY <1>9, <1>10, <1>11, <1>12 DEF StarInv

LEMMA StarInv_Kept == ASSUME StarInv PROVE AlbumsKeepTheirStars
<1> SUFFICES ASSUME NEW x \in OldAlbums, NEW y \in TrackAlbums \ OldAlbums,
                    \A i \in Ids \ Fresh : AlbumOf[i] = x => i \in Existing /\ rows[i].album = y,
                    {o \in OldAlbums : <<o, y>> \in movedAlbums} = {x}
             PROVE  y \in starred
    BY DEF AlbumsKeepTheirStars
<1>1. <<x, y>> \in movedAlbums /\ y # x OBVIOUS
<1>2. y \in processed BY <1>1 DEF StarInv
<1>3. PICK o \in OldAlbums : <<o, y>> \in movedAlbums /\ (y \in starred \/ \E z \in TrackAlbums : z # y /\ <<o, z>> \in movedAlbums)
    BY <1>2 DEF StarInv
<1>4. o = x BY <1>3
<1>5. ASSUME NEW z \in TrackAlbums, z # y, <<x, z>> \in movedAlbums PROVE FALSE
    <2>1. PICK i \in Ids \ Fresh : AlbumOf[i] = x /\ (rows[i] = NoTrack \/ (~rows[i].missing /\ rows[i].album = z)) BY <1>5 DEF StarInv
    <2>2. QED BY <1>5, <2>1 DEF Existing
<1>6. QED BY <1>3, <1>4, <1>5

LEMMA Places ==
    /\ GroupsAt("waiting") = waiting /\ GroupsAt("within") = within /\ GroupsAt("passedOn") = passedOn
    /\ GroupsAt("across") = {a.group : a \in across}
    /\ MovePlaces = {"waiting", "within", "passedOn", "across"}
BY DEF GroupsAt, MovePlaces

LEMMA PlacesNext ==
    /\ GroupsAt("waiting")' = waiting' /\ GroupsAt("within")' = within' /\ GroupsAt("passedOn")' = passedOn'
    /\ GroupsAt("across")' = {a.group : a \in across'}
BY DEF GroupsAt

\* One group changes, or goes from one place to another, or ends.
Relocates(src, dst, g, h) ==
    /\ src \in MovePlaces /\ dst \in MovePlaces /\ g \in GroupsAt(src)
    /\ h.lib = g.lib /\ h.missing = g.missing /\ h.matched = g.matched
    /\ \A p \in MovePlaces : \A k \in GroupsAt(p)' : (k \in GroupsAt(p) /\ k # g) \/ (p = dst /\ k = h)

LEMMA Relocated ==
    ASSUME PlaceInv, NEW src, NEW dst, NEW g, NEW h, Relocates(src, dst, g, h), UNCHANGED <<unread, finalized>>,
           \A a, b \in across' : a = b, \A k, l \in within' : k = l
    PROVE  /\ PlaceInv' /\ \A p \in MovePlaces : \A k \in GroupsAt(p)' : k = h \/ (k \in GroupsAt(p) /\ k.lib # g.lib)
           /\ g.lib \notin unread
<1> USE DEF Relocates
<1>1. \A p \in MovePlaces : \A k \in GroupsAt(p) : k # g => k.lib # g.lib BY DEF PlaceInv
<1>2. \A p \in MovePlaces : \A k \in GroupsAt(p)' : k.lib \notin unread BY DEF PlaceInv
<1>3. ASSUME NEW p \in MovePlaces, NEW q \in MovePlaces, NEW k \in GroupsAt(p)', NEW l \in GroupsAt(q)', k.lib = l.lib
      PROVE  p = q /\ k = l
    <2>1. CASE k \in GroupsAt(p) /\ k # g /\ l \in GroupsAt(q) /\ l # g BY <1>3, <2>1 DEF PlaceInv
    <2>2. CASE p = dst /\ k = h /\ q = dst /\ l = h BY <2>2
    <2>3. QED BY <1>1, <1>3, <2>1, <2>2
<1>4. ~finalized
    <2>1. ~PipelineEmpty BY Places DEF PipelineEmpty
    <2>2. QED BY <2>1 DEF PlaceInv
<1>5. \A p \in MovePlaces : \A k \in GroupsAt(p)' : k = h \/ (k \in GroupsAt(p) /\ k.lib # g.lib) BY <1>1
<1>6. PlaceInv' BY <1>2, <1>3, <1>4 DEF PlaceInv
<1>7. QED BY <1>5, <1>6 DEF PlaceInv

\* Steps that leave the rows.
Still == UNCHANGED <<rows, processed, starred, takenBy, movedAlbums, movesCrossed, before>>

LEMMA Still_Facts ==
    ASSUME BeforeInv, StarInv, FileInv, Still, unread' \subseteq unread PROVE BeforeInv' /\ StarInv' /\ OneRowPerFile'
<1> USE DEF Still
<1>1. BeforeInv' BY DEF BeforeInv
<1>2. StarInv'
    <2>1. rows' = rows /\ starred' = starred /\ processed' = processed /\ movedAlbums' = movedAlbums OBVIOUS
    <2>2. \A x \in OldAlbums : x \in starred' \/ \E z \in TrackAlbums : z # x /\ <<x, z>> \in movedAlbums'
        BY <2>1, Zenon DEF StarInv
    <2>3. \A y \in TrackAlbums \ OldAlbums : y \in processed' =>
            \E o \in OldAlbums : <<o, y>> \in movedAlbums' /\ (y \in starred' \/ \E z \in TrackAlbums : z # y /\ <<o, z>> \in movedAlbums')
        BY <2>1, Zenon DEF StarInv
    <2>4. \A o \in OldAlbums, z \in TrackAlbums : <<o, z>> \in movedAlbums' /\ o # z => z \in processed'
        BY <2>1 DEF StarInv
    <2>5. \A o \in OldAlbums, z \in TrackAlbums : <<o, z>> \in movedAlbums' =>
            \E i \in Ids \ Fresh : AlbumOf[i] = o /\ (rows'[i] = NoTrack \/ (~rows'[i].missing /\ rows'[i].album = z))
        <3> TAKE o \in OldAlbums, z \in TrackAlbums
        <3>1. <<o, z>> \in movedAlbums =>
                \E i \in Ids \ Fresh : AlbumOf[i] = o /\ (rows[i] = NoTrack \/ (~rows[i].missing /\ rows[i].album = z))
            BY DEF StarInv
        <3>2. QED BY <2>1, <3>1
    <2>6. QED BY <2>2, <2>3, <2>4, <2>5, Zenon DEF StarInv
<1>3. OneRowPerFile' BY DEF FileInv, OneRowPerFile, Existing
<1>4. QED BY <1>1, <1>2, <1>3

\* A group goes on and the rows stay.
LEMMA Quiet ==
    ASSUME MovedInv, Still, UNCHANGED <<unread, finalized>>, NEW src, NEW dst, NEW g, NEW h, Relocates(src, dst, g, h),
           waiting' \subseteq MoveGroup, within' \subseteq MoveGroup, passedOn' \subseteq MoveGroup, across' \subseteq MoveSearch,
           \A a, b \in across' : a = b, \A k, l \in within' : k = l,
           \A ms \in h.missing : ms.id \in h.todo => rows[ms.id] = ms.row,
           dst \in {"waiting", "within"} => src \in {"waiting", "within"} /\ h.used = g.used,
           \A a \in across' : /\ \A n \in a.found : NewCopy(n) /\ Own(a.group, n)
                              /\ \A ms \in a.of : ms \in a.group.missing /\ rows[ms.id] = ms.row /\ ms.id \notin a.group.todo
    PROVE  MovedTypeOK' /\ BeforeInv' /\ PlaceInv' /\ CopyInv' /\ FileInv' /\ StarInv'
<1> USE DEF MovedInv
<1>1. MovedTypeOK' BY DEF MovedTypeOK, Still
<1>2. BeforeInv' /\ StarInv' /\ OneRowPerFile' BY Still_Facts
<1>3. PlaceInv' /\ \A p \in MovePlaces : \A k \in GroupsAt(p)' : k = h \/ (k \in GroupsAt(p) /\ k.lib # g.lib) BY Relocated
<1>4. g \in GroupsAt(src) /\ src \in MovePlaces /\ dst \in MovePlaces /\ h.lib = g.lib /\ h.missing = g.missing /\ h.matched = g.matched
    BY DEF Relocates
<1>5. \A k \in waiting' \cup within' : k \in waiting \cup within \/ (k = h /\ g \in waiting \cup within /\ h.used = g.used)
    <2>1. \A p \in {"waiting", "within"} : \A k \in GroupsAt(p)' : k \in GroupsAt(p) \/ (p = dst /\ k = h)
        BY Places DEF Relocates
    <2>2. \A p \in {"waiting", "within"} : \A k \in GroupsAt(p)' : k \in GroupsAt(p) \/ (k = h /\ g \in waiting \cup within /\ h.used = g.used)
        BY <1>4, <2>1, Places
    <2>3. QED BY <2>2, Places, PlacesNext
<1>6. rows' = rows /\ takenBy' = takenBy BY DEF Still
<1>7. \A p \in MovePlaces : \A k \in GroupsAt(p)' : \A ms \in k.missing : OldCopy(k, ms) /\ (ms.id \in k.todo => rows[ms.id] = ms.row)
    <2>1. \A ms \in h.missing : OldCopy(h, ms) BY <1>4 DEF CopyInv, OldCopy
    <2>2. QED BY <1>3, <2>1 DEF CopyInv
<1>8. \A k \in waiting' \cup within' :
          /\ \A n \in k.matched : NewCopy(n) /\ \A ms \in k.missing : ms.id # n.id
          /\ k.used = {} => \A ms \in k.missing : rows[ms.id] = ms.row
    BY <1>4, <1>5 DEF CopyInv
<1>9. CopyInv'
    <2>1. \A n : NewCopy(n) => NewCopy(n)' BY <1>6 DEF NewCopy, Gone
    <2>2. \A k, ms : OldCopy(k, ms) => OldCopy(k, ms)' BY DEF OldCopy
    <2>3. MovePlaces' = MovePlaces BY DEF MovePlaces
    <2>4. QED BY <1>6, <1>7, <1>8, <2>1, <2>2, <2>3 DEF CopyInv
<1>10. \A k, n : Own(k, n) => Own(k, n)' BY <1>6 DEF Own
<1>11. \A k \in waiting' \cup within' : \A n \in k.matched : n.id \notin k.used => Own(k, n)
    <2>1. \A n : Own(g, n) => Own(h, n) BY <1>4 DEF Own
    <2>2. QED BY <1>4, <1>5, <2>1 DEF FileInv
<1>12. FileInv' BY <1>2, <1>10, <1>11 DEF FileInv
<1>13. QED BY <1>1, <1>2, <1>3, <1>9, <1>12

\* The pairs that the step leaves to be followed.
LEMMA Still_Moves ==
    ASSUME Still, NEW m, NEW n
    PROVE  /\ Moves(m, n)' = Moves(m, n) /\ Followed(m)' = Followed(m) /\ before'[m] = before[m]
           /\ \A g : ToFollow(g, m, n)' = ToFollow(g, m, n)
BY DEF Still, Moves, Followed, ToFollow

\* Nothing changes before the second stage.
LEMMA Later_Miss ==
    ASSUME MissInv, Still, UNCHANGED <<unread, waiting, within>>,
           \A p \in {"passedOn", "across"} : \A k \in GroupsAt(p)' : \E q \in {"passedOn", "across"} : \E l \in GroupsAt(q) : l.lib = k.lib
    PROVE  MissInv'
BY Still_Moves DEF MissInv

LEMMA MovedInit_Inv == ASSUME MovedInit PROVE MovedInv
<1> USE DEF MovedInit
<1>1. PICK lib \in [Ids -> Libs], content \in [Ids -> {"a", "b"}], base \in [Ids -> Bases], vanished \in SUBSET (Ids \ Fresh), absent \in SUBSET Fresh :
          /\ vanished # {}
          /\ rows = [i \in Ids |-> IF i \in absent THEN NoTrack
                                   ELSE [lib |-> lib[i], file |-> i, content |-> content[i], base |-> base[i], album |-> AlbumOf[i],
                                         created |-> CreatedAt[i], missing |-> i \in vanished]]
    <2> HIDE DEF MovedInit
    <2>1. QED BY Zenon DEF MovedInit
<1>2. ASSUME NEW i \in Ids
      PROVE  /\ rows[i] \in TrackRow \cup {NoTrack} /\ (i \notin Fresh => rows[i] # NoTrack)
             /\ rows[i] # NoTrack => /\ rows[i].file = i /\ rows[i].album = AlbumOf[i]
                                     /\ rows[i].missing => i \notin Fresh
                                     /\ i \in Fresh => rows[i].created > 3
    <2> DEFINE r == [lib |-> lib[i], file |-> i, content |-> content[i], base |-> base[i], album |-> AlbumOf[i],
                     created |-> CreatedAt[i], missing |-> i \in vanished]
    <2>1. rows[i] = IF i \in absent THEN NoTrack ELSE r BY <1>1
    <2>2. r \in TrackRow BY MovedAssumption DEF MovedAssumption, TrackRow, TrackAlbums
    <2>3. r.file = i /\ r.album = AlbumOf[i] /\ r.created = CreatedAt[i] /\ r.missing = (i \in vanished) OBVIOUS
    <2> HIDE DEF r
    <2>4. r # NoTrack BY <2>2, MovedAssumption DEF MovedAssumption
    <2>5. i \in Fresh => CreatedAt[i] > 3 BY MovedAssumption DEF MovedAssumption
    <2>6. QED BY <2>1, <2>2, <2>3, <2>4, <2>5
<1>3. rows \in [Ids -> TrackRow \cup {NoTrack}] BY <1>1, <1>2
<1>4. before = rows OBVIOUS
<1>5. MovedTypeOK BY <1>3, <1>4 DEF MovedTypeOK
<1>6. BeforeInv BY <1>2, <1>4, MovedAssumption DEF BeforeInv, MovedAssumption
<1>7. PlaceInv
    <2>1. \A p \in MovePlaces : GroupsAt(p) = {} BY Places
    <2>2. QED BY <2>1 DEF PlaceInv
<1>8. CopyInv
    <2>1. \A p \in MovePlaces : GroupsAt(p) = {} BY Places
    <2>2. QED BY <2>1 DEF CopyInv
<1>9. FileInv BY <1>2 DEF FileInv, OneRowPerFile, Existing
<1>10. MissInv
    <2>1. ASSUME NEW m \in Ids \ Fresh, NEW n \in Fresh, Moves(m, n) PROVE before[m].lib \in unread
        <3>1. before[m] \in TrackRow BY <1>2, <1>4
        <3>2. QED BY <3>1 DEF TrackRow
    <2>2. QED BY <2>1 DEF MissInv
<1>11. StarInv BY DEF StarInv
<1>12. QED BY <1>5, <1>6, <1>7, <1>8, <1>9, <1>10, <1>11 DEF MovedInv

LEMMA produceMissing_Inv == ASSUME MovedInv, NEW l \in Libs, produceMissing(l) PROVE MovedInv'
<1> USE DEF MovedInv
<1> DEFINE new == {i \in Existing : rows[i].lib = l /\ ~rows[i].missing /\ rows[i].created > 3}
           g == [lib |-> l, missing |-> CopyOf(MissingIn(l)), matched |-> CopyOf(new), todo |-> MissingIn(l), used |-> {}]
<1>1. /\ l \in unread /\ unread' = unread \ {l} /\ UNCHANGED <<within, passedOn, across, finalized>> /\ Still
      /\ (MissingIn(l) = {} /\ waiting' = waiting) \/ (MissingIn(l) # {} /\ waiting' = waiting \cup {g})
    BY DEF produceMissing, Still
<1>2. ~finalized BY <1>1 DEF PlaceInv, PipelineEmpty
<1>3. BeforeInv' /\ StarInv' /\ OneRowPerFile' BY <1>1, Still_Facts
<1>4. Existing \subseteq Ids /\ (\A i \in Existing : rows[i] \in TrackRow) BY DEF Existing, MovedTypeOK
<1>5. \A i \in Existing : [id |-> i, row |-> rows[i]] \in TrackCopy BY <1>4 DEF TrackCopy
<1>6. MissingIn(l) \subseteq Existing /\ new \subseteq Existing BY DEF MissingIn
<1>7. g \in MoveGroup /\ g.lib = l /\ g.missing = CopyOf(MissingIn(l)) /\ g.matched = CopyOf(new) /\ g.todo = MissingIn(l) /\ g.used = {}
    <2>1. CopyOf(MissingIn(l)) \subseteq TrackCopy /\ CopyOf(new) \subseteq TrackCopy BY <1>5, <1>6 DEF CopyOf
    <2>2. MissingIn(l) \subseteq Ids BY <1>4, <1>6
    <2> HIDE DEF new
    <2>3. QED BY <2>1, <2>2 DEF MoveGroup
<1>8. /\ \A ms \in CopyOf(MissingIn(l)) : ms.row = rows[ms.id] /\ ms.row.missing /\ ms.row.lib = l
      /\ \A n \in CopyOf(new) : n.row = rows[n.id] /\ ~n.row.missing
    BY DEF CopyOf, MissingIn
<1> HIDE DEF new, g
<1>9. /\ \A ms \in g.missing : OldCopy(g, ms) /\ rows[ms.id] = ms.row
      /\ \A n \in g.matched : NewCopy(n) /\ Own(g, n) /\ \A ms \in g.missing : ms.id # n.id
    <2>1. \A ms \in g.missing : OldCopy(g, ms) /\ rows[ms.id] = ms.row BY <1>7, <1>8 DEF OldCopy
    <2>2. \A n \in g.matched : NewCopy(n) BY <1>7, <1>8 DEF NewCopy, Gone
    <2>3. \A n \in g.matched : Own(g, n) BY <1>7, <1>8 DEF Own
    <2>4. \A n \in g.matched, ms \in g.missing : ms.id # n.id BY <1>7, <1>8
    <2>5. QED BY <2>1, <2>2, <2>3, <2>4
<1>10. waiting' = waiting \/ waiting' = waiting \cup {g} BY <1>1
<1>11. MovedTypeOK'
    <2>1. waiting' \subseteq MoveGroup BY <1>7, <1>10 DEF MovedTypeOK
    <2>2. QED BY <1>1, <2>1 DEF MovedTypeOK, Still
<1>12. \A p \in MovePlaces : \A k \in GroupsAt(p)' : k \in GroupsAt(p) \/ (p = "waiting" /\ k = g)
    <2>1. GroupsAt("across")' = GroupsAt("across") BY <1>1 DEF GroupsAt
    <2>2. QED BY <1>1, <1>10, <2>1, Places, PlacesNext
<1>13. \A p \in MovePlaces : \A k \in GroupsAt(p) : k.lib # l BY <1>1 DEF PlaceInv
<1>14. PlaceInv'
    <2>1. \A p \in MovePlaces : \A k \in GroupsAt(p)' : k.lib \notin unread' BY <1>1, <1>7, <1>12 DEF PlaceInv
    <2>2. \A p, q \in MovePlaces : \A k \in GroupsAt(p)', h \in GroupsAt(q)' : k.lib = h.lib => p = q /\ k = h
        BY <1>7, <1>12, <1>13 DEF PlaceInv
    <2>3. MovePlaces' = MovePlaces BY DEF MovePlaces
    <2>4. QED BY <1>1, <1>2, <2>1, <2>2, <2>3 DEF PlaceInv
<1>15. rows' = rows /\ takenBy' = takenBy /\ across' = across /\ within' = within BY <1>1 DEF Still
<1>16. CopyInv'
    <2>1. \A p \in MovePlaces : \A k \in GroupsAt(p)' : \A ms \in k.missing : OldCopy(k, ms) /\ (ms.id \in k.todo => rows[ms.id] = ms.row)
        BY <1>9, <1>12 DEF CopyInv
    <2>2. \A k \in waiting' \cup within' :
              /\ \A n \in k.matched : NewCopy(n) /\ \A ms \in k.missing : ms.id # n.id
              /\ k.used = {} => \A ms \in k.missing : rows[ms.id] = ms.row
        BY <1>9, <1>10, <1>15 DEF CopyInv
    <2>3. \A n : NewCopy(n) => NewCopy(n)' BY <1>15 DEF NewCopy, Gone
    <2>4. \A k, ms : OldCopy(k, ms) => OldCopy(k, ms)' BY DEF OldCopy
    <2>5. MovePlaces' = MovePlaces BY DEF MovePlaces
    <2>6. QED BY <1>15, <2>1, <2>2, <2>3, <2>4, <2>5 DEF CopyInv
<1>17. FileInv'
    <2>1. \A k, n : Own(k, n) => Own(k, n)' BY <1>15 DEF Own
    <2>2. \A k \in waiting' \cup within' : \A n \in k.matched : n.id \notin k.used => Own(k, n) BY <1>9, <1>10, <1>15 DEF FileInv
    <2>3. QED BY <1>3, <1>15, <2>1, <2>2 DEF FileInv
<1>18. MissInv'
    <2>1. ASSUME NEW m \in Ids \ Fresh, NEW n \in Fresh, Moves(m, n), before[m].lib = l PROVE m \in MissingIn(l) /\ n \in new /\ MissingIn(l) # {}
        <3>1. rows[m] = before[m] /\ m \in Ids BY <1>1, <2>1 DEF Moves, BeforeInv
        <3>2. m \in MissingIn(l) BY <2>1, <3>1 DEF Moves, MissingIn, Existing
        <3>3. n \in Ids BY MovedAssumption DEF MovedAssumption
        <3>4. rows[n] = before[n] /\ rows[n] # NoTrack /\ ~rows[n].missing /\ rows[n].created > 3 /\ rows[n].lib = l BY <2>1, <3>3 DEF Moves, BeforeInv
        <3>5. n \in new BY <3>3, <3>4 DEF new, Existing
        <3>6. QED BY <3>2, <3>5
    <2>2. ASSUME NEW m \in Ids \ Fresh, NEW n \in Fresh, Moves(m, n), before[m].lib = l PROVE ToFollow(g, m, n) /\ g \in waiting'
        <3>1. m \in MissingIn(l) /\ n \in new /\ MissingIn(l) # {} BY <2>1, <2>2
        <3>2. g \in waiting' BY <1>1, <3>1
        <3>3. rows[m] = before[m] /\ rows[n] = before[n] BY <1>1, <2>2 DEF Moves, BeforeInv
        <3>4. [id |-> m, row |-> before[m]] \in g.missing /\ [id |-> n, row |-> before[n]] \in g.matched BY <1>7, <3>1, <3>3 DEF CopyOf
        <3>5. QED BY <1>7, <3>1, <3>2, <3>4 DEF ToFollow
    <2>3. \A m \in Ids \ Fresh, n \in Fresh : Moves(m, n) /\ before[m].lib # l =>
            /\ \A k \in waiting' \cup within' : k.lib = before[m].lib => ToFollow(k, m, n)
            /\ before[m].lib \notin unread' /\ (\A k \in waiting' \cup within' : k.lib # before[m].lib) =>
                  Followed(m) /\ \A p \in {"passedOn", "across"} : \A k \in GroupsAt(p)' : k.lib # before[m].lib
        <3>1. \A p \in {"passedOn", "across"} : \A k \in GroupsAt(p)' : k \in GroupsAt(p) BY <1>12, Places
        <3>2. QED BY <1>1, <1>7, <1>10, <3>1 DEF MissInv
    <2>4. \A m \in Ids \ Fresh, n \in Fresh : Moves(m, n) /\ before[m].lib = l =>
            /\ \A k \in waiting' \cup within' : k.lib = before[m].lib => ToFollow(k, m, n)
            /\ ~(\A k \in waiting' \cup within' : k.lib # before[m].lib)
        <3>1. \A k \in waiting' \cup within' : k.lib = l => k = g BY <1>10, <1>13, <1>15, Places
        <3>2. QED BY <1>7, <2>2, <3>1
    <2>5. QED BY <1>1, <2>3, <2>4, Still_Moves DEF MissInv
<1>19. QED BY <1>3, <1>11, <1>14, <1>16, <1>17, <1>18

LEMMA TakeGroup_Inv == ASSUME MovedInv, TakeGroup PROVE MovedInv'
<1> USE DEF MovedInv
<1>1. Still /\ UNCHANGED <<unread, passedOn, across, finalized>> /\ within = {} BY DEF TakeGroup, Still
<1>2. PICK g \in waiting : within' = {g} /\ waiting' = waiting \ {g} BY DEF TakeGroup
<1>3. Relocates("waiting", "within", g, g)
    <2>1. \A p \in MovePlaces : \A k \in GroupsAt(p)' : (k \in GroupsAt(p) /\ k # g) \/ (p = "within" /\ k = g)
        <3>1. \A k \in GroupsAt("across")' : k \in GroupsAt("across") BY <1>1, Places, PlacesNext
        <3>2. \A p \in {"passedOn", "across"} : \A k \in GroupsAt(p) : k # g BY Places DEF PlaceInv
        <3>3. QED BY <1>1, <1>2, <3>1, <3>2, Places, PlacesNext
    <2>2. QED BY <2>1, Places DEF Relocates
<1>4. \A ms \in g.missing : ms.id \in g.todo => rows[ms.id] = ms.row BY Places DEF CopyInv
<1>5. \A a \in across' : /\ \A n \in a.found : NewCopy(n) /\ Own(a.group, n)
                         /\ \A ms \in a.of : ms \in a.group.missing /\ rows[ms.id] = ms.row /\ ms.id \notin a.group.todo
    BY <1>1 DEF CopyInv, FileInv
<1>6. waiting' \subseteq MoveGroup /\ within' \subseteq MoveGroup /\ passedOn' \subseteq MoveGroup /\ across' \subseteq MoveSearch
      /\ (\A a, b \in across' : a = b) /\ \A k, l \in within' : k = l
    BY <1>1, <1>2 DEF MovedTypeOK, PlaceInv
<1>7. MovedTypeOK' /\ BeforeInv' /\ PlaceInv' /\ CopyInv' /\ FileInv' /\ StarInv' BY <1>1, <1>3, <1>4, <1>5, <1>6, Quiet
<1>8. MissInv'
    <2>1. waiting' \cup within' = waiting \cup within BY <1>1, <1>2
    <2>2. \A p \in {"passedOn", "across"} : GroupsAt(p)' = GroupsAt(p) BY <1>1, Places, PlacesNext
    <2>3. QED BY <1>1, <2>1, <2>2, Still_Moves DEF MissInv
<1>9. QED BY <1>7, <1>8

\* The group at the second stage, and what follows of one that is only passed.
LEMMA TakePassed_Inv == ASSUME MovedInv, TakePassed PROVE MovedInv'
<1> USE DEF MovedInv
<1>1. Still /\ UNCHANGED <<unread, waiting, within, finalized>> /\ across = {} BY DEF TakePassed, Still
<1>2. PICK g \in passedOn : passedOn' = passedOn \ {g} /\ across' \subseteq {[group |-> g, of |-> {}, found |-> {}]} BY DEF TakePassed
<1> DEFINE a0 == [group |-> g, of |-> {}, found |-> {}]
<1>3. a0 \in MoveSearch /\ a0.group = g /\ a0.of = {} /\ a0.found = {} BY DEF MoveSearch, MovedTypeOK
<1> HIDE DEF a0
<1>4. across' \subseteq {a0} BY <1>2 DEF a0
<1>5. Relocates("passedOn", "across", g, g)
    <2>1. \A p \in MovePlaces : \A k \in GroupsAt(p)' : (k \in GroupsAt(p) /\ k # g) \/ (p = "across" /\ k = g)
        <3>1. \A k \in GroupsAt("across")' : k = g BY <1>3, <1>4, PlacesNext
        <3>2. \A p \in {"waiting", "within"} : \A k \in GroupsAt(p) : k # g BY Places DEF PlaceInv
        <3>3. QED BY <1>1, <1>2, <3>1, <3>2, Places, PlacesNext
    <2>2. QED BY <2>1, Places DEF Relocates
<1>6. \A ms \in g.missing : ms.id \in g.todo => rows[ms.id] = ms.row BY Places DEF CopyInv
<1>7. \A a \in across' : a = a0 BY <1>4
<1>8. waiting' \subseteq MoveGroup /\ within' \subseteq MoveGroup /\ passedOn' \subseteq MoveGroup /\ across' \subseteq MoveSearch
      /\ (\A a, b \in across' : a = b) /\ \A k, l \in within' : k = l
    BY <1>1, <1>2, <1>3, <1>4 DEF MovedTypeOK, PlaceInv
<1>9. MovedTypeOK' /\ BeforeInv' /\ PlaceInv' /\ CopyInv' /\ FileInv' /\ StarInv' BY <1>1, <1>3, <1>5, <1>6, <1>7, <1>8, Quiet
<1>10. \A p \in {"passedOn", "across"} : \A k \in GroupsAt(p)' : \E q \in {"passedOn", "across"} : \E l \in GroupsAt(q) : l.lib = k.lib
    <2>1. \A k \in GroupsAt("across")' : k = g BY <1>3, <1>4, PlacesNext
    <2>2. \A k \in GroupsAt("passedOn")' : k \in GroupsAt("passedOn") BY <1>2, Places, PlacesNext
    <2>3. g \in GroupsAt("passedOn") BY Places
    <2>4. QED BY <2>1, <2>2, <2>3
<1>11. QED BY <1>1, <1>9, <1>10, Later_Miss

LEMMA findCrossLibraryMatch_Inv == ASSUME MovedInv, findCrossLibraryMatch PROVE MovedInv'
<1> USE DEF MovedInv
<1>1. Still /\ UNCHANGED <<unread, waiting, within, passedOn, finalized>> BY DEF findCrossLibraryMatch, Still
<1>0. PICK a \in across : \E ms \in a.group.missing :
        /\ a.of = {} /\ ms.id \in a.group.todo
        /\ LET recent == FindRecentFiles(ms)
               exact  == {n \in recent : Equals(ms, n)}
               newest == {n \in exact : \A o \in exact : o.row.created <= n.row.created}
               only   == {n \in recent : Cardinality(recent) = 1 /\ IsEquivalent(ms, n)}
           IN  \E n \in IF exact # {} THEN newest ELSE IF only # {} THEN only ELSE {ms} :
                  across' = {[group |-> [a.group EXCEPT !.todo = @ \ {ms.id}],
                              of    |-> IF n = ms THEN {} ELSE {ms},
                              found |-> IF n = ms THEN {} ELSE {n}]}
    BY DEF findCrossLibraryMatch
<1>2. PICK ms \in a.group.missing :
        /\ a.of = {} /\ ms.id \in a.group.todo
        /\ LET recent == FindRecentFiles(ms)
               exact  == {n \in recent : Equals(ms, n)}
               newest == {n \in exact : \A o \in exact : o.row.created <= n.row.created}
               only   == {n \in recent : Cardinality(recent) = 1 /\ IsEquivalent(ms, n)}
           IN  \E n \in IF exact # {} THEN newest ELSE IF only # {} THEN only ELSE {ms} :
                  across' = {[group |-> [a.group EXCEPT !.todo = @ \ {ms.id}],
                              of    |-> IF n = ms THEN {} ELSE {ms},
                              found |-> IF n = ms THEN {} ELSE {n}]}
    BY <1>0
<1> DEFINE g == a.group
           h == [g EXCEPT !.todo = @ \ {ms.id}]
           next(n) == [group |-> h, of |-> IF n = ms THEN {} ELSE {ms}, found |-> IF n = ms THEN {} ELSE {n}]
<1>3. PICK n \in FindRecentFiles(ms) \cup {ms} : across' = {next(n)} BY <1>2
<1>4. g \in MoveGroup /\ g \in GroupsAt("across") /\ a \in MoveSearch BY Places DEF MovedTypeOK, MoveSearch
<1> HIDE DEF g
<1>5. h \in MoveGroup /\ h.lib = g.lib /\ h.missing = g.missing /\ h.matched = g.matched /\ h.used = g.used /\ h.todo = g.todo \ {ms.id}
    BY <1>4 DEF MoveGroup
<1>6. ms \in g.missing /\ ms \in TrackCopy BY <1>4 DEF g, MoveGroup
<1>7. rows[ms.id] = ms.row BY <1>2, <1>4, Places DEF CopyInv, g
<1>8. n # ms => n \in TrackCopy /\ NewCopy(n) /\ n.row = rows[n.id]
    <2> SUFFICES ASSUME n # ms PROVE n \in TrackCopy /\ NewCopy(n) /\ n.row = rows[n.id] OBVIOUS
    <2>1. n \in CopyOf({i \in Existing : ~rows[i].missing}) BY <1>3 DEF FindRecentFiles
    <2>2. PICK i \in Existing : n = [id |-> i, row |-> rows[i]] /\ ~rows[i].missing BY <2>1 DEF CopyOf
    <2>3. i \in Ids /\ rows[i] \in TrackRow BY DEF Existing, MovedTypeOK
    <2>4. QED BY <2>2, <2>3 DEF TrackCopy, NewCopy, Gone
<1> DEFINE b == next(n)
<1> HIDE DEF h
<1>9. b.group = h /\ (b.of = {} \/ b.of = {ms}) /\ (\A k \in b.found : k = n /\ n # ms) /\ b \in MoveSearch
    <2>1. b = [group |-> h, of |-> IF n = ms THEN {} ELSE {ms}, found |-> IF n = ms THEN {} ELSE {n}] OBVIOUS
    <2>2. QED BY <1>5, <1>6, <1>8, <2>1 DEF MoveSearch
<1>10. across' = {b} BY <1>3 DEF h
<1> HIDE DEF b, next
<1>11. Relocates("across", "across", g, h)
    <2>1. \A p \in MovePlaces : \A k \in GroupsAt(p)' : (k \in GroupsAt(p) /\ k # g) \/ (p = "across" /\ k = h)
        <3>1. \A k \in GroupsAt("across")' : k = h BY <1>9, <1>10, PlacesNext
        <3>2. \A p \in {"waiting", "within", "passedOn"} : \A k \in GroupsAt(p) : k # g BY <1>4, Places DEF PlaceInv
        <3>3. QED BY <1>1, <3>1, <3>2, Places, PlacesNext
    <2>2. QED BY <1>4, <1>5, <2>1, Places DEF Relocates
<1>12. \A k \in h.missing : k.id \in h.todo => rows[k.id] = k.row BY <1>4, <1>5, Places DEF CopyInv
<1>13. \A c \in across' : /\ \A k \in c.found : NewCopy(k) /\ Own(c.group, k)
                          /\ \A k \in c.of : k \in c.group.missing /\ rows[k.id] = k.row /\ k.id \notin c.group.todo
    <2>1. \A k \in b.found : NewCopy(k) /\ Own(h, k) BY <1>8, <1>9 DEF Own
    <2>2. \A k \in b.of : k \in h.missing /\ rows[k.id] = k.row /\ k.id \notin h.todo BY <1>5, <1>6, <1>7, <1>9
    <2>3. QED BY <1>9, <1>10, <2>1, <2>2
<1>14. waiting' \subseteq MoveGroup /\ within' \subseteq MoveGroup /\ passedOn' \subseteq MoveGroup /\ across' \subseteq MoveSearch
       /\ (\A c, d \in across' : c = d) /\ \A k, l \in within' : k = l
    BY <1>1, <1>9, <1>10 DEF MovedTypeOK, PlaceInv
<1>15. MovedTypeOK' /\ BeforeInv' /\ PlaceInv' /\ CopyInv' /\ FileInv' /\ StarInv' BY <1>1, <1>11, <1>12, <1>13, <1>14, Quiet
<1>16. \A p \in {"passedOn", "across"} : \A k \in GroupsAt(p)' : \E q \in {"passedOn", "across"} : \E l \in GroupsAt(q) : l.lib = k.lib
    <2>1. \A k \in GroupsAt("across")' : k = h BY <1>9, <1>10, PlacesNext
    <2>2. GroupsAt("passedOn")' = GroupsAt("passedOn") BY <1>1, Places, PlacesNext
    <2>3. QED BY <1>4, <1>5, <2>1, <2>2
<1>17. QED BY <1>1, <1>15, <1>16, Later_Miss

LEMMA AcrossDone_Inv ==
    ASSUME MovedInv, NEW a \in across, across' = {}, UNCHANGED <<rows, processed, starred, takenBy, movedAlbums, movesCrossed>>,
           UNCHANGED <<unread, waiting, within, passedOn, finalized, before>>
    PROVE  MovedInv'
<1> USE DEF MovedInv
<1> DEFINE g == a.group
<1>1. Still BY DEF Still
<1>2. g \in GroupsAt("across") BY Places
<1> HIDE DEF g
<1>3. Relocates("across", "across", g, g)
    <2>1. \A p \in MovePlaces : \A k \in GroupsAt(p)' : (k \in GroupsAt(p) /\ k # g) \/ (p = "across" /\ k = g)
        <3>1. GroupsAt("across")' = {} BY PlacesNext
        <3>2. \A p \in {"waiting", "within", "passedOn"} : \A k \in GroupsAt(p) : k # g BY <1>2, Places DEF PlaceInv
        <3>3. QED BY <3>1, <3>2, Places, PlacesNext
    <2>2. QED BY <1>2, <2>1, Places DEF Relocates
<1>4. \A k \in g.missing : k.id \in g.todo => rows[k.id] = k.row BY <1>2, Places DEF CopyInv
<1>5. waiting' \subseteq MoveGroup /\ within' \subseteq MoveGroup /\ passedOn' \subseteq MoveGroup /\ across' \subseteq MoveSearch
      /\ (\A c, d \in across' : c = d) /\ \A k, l \in within' : k = l
    BY DEF MovedTypeOK, PlaceInv
<1>6. MovedTypeOK' /\ BeforeInv' /\ PlaceInv' /\ CopyInv' /\ FileInv' /\ StarInv' BY <1>1, <1>3, <1>4, <1>5, Quiet
<1>7. \A p \in {"passedOn", "across"} : \A k \in GroupsAt(p)' : \E q \in {"passedOn", "across"} : \E l \in GroupsAt(q) : l.lib = k.lib
    BY Places, PlacesNext
<1>8. QED BY <1>1, <1>6, <1>7, Later_Miss

\* A group in which nothing was found is passed on with all its songs.
LEMMA GroupDone_Inv == ASSUME MovedInv, GroupDone PROVE MovedInv'
<1> USE DEF MovedInv
<1>1. Still /\ UNCHANGED <<unread, waiting, across, finalized>> /\ within' = {} BY DEF GroupDone, Still
<1>2. PICK g \in within :
          /\ g.todo = {}
          /\ passedOn' = IF g.used = {} THEN passedOn \cup {[g EXCEPT !.todo = {ms.id : ms \in g.missing}]} ELSE passedOn
    BY DEF GroupDone
<1> DEFINE h == [g EXCEPT !.todo = {ms.id : ms \in g.missing}]
<1>3. g \in MoveGroup /\ g \in GroupsAt("within") BY Places DEF MovedTypeOK
<1>4. h \in MoveGroup /\ h.lib = g.lib /\ h.missing = g.missing /\ h.matched = g.matched
    <2>1. {ms.id : ms \in g.missing} \subseteq Ids BY <1>3 DEF MoveGroup, TrackCopy
    <2>2. QED BY <1>3, <2>1 DEF MoveGroup
<1>5. (g.used = {} /\ passedOn' = passedOn \cup {h}) \/ (g.used # {} /\ passedOn' = passedOn) BY <1>2
<1> HIDE DEF h
<1>6. \A k \in passedOn' : k \in passedOn \/ (k = h /\ g.used = {}) BY <1>5
<1>7. \A k \in within : k = g BY DEF PlaceInv
<1>8. ASSUME NEW j, j.lib = g.lib, j.missing = g.missing, j.matched = g.matched, \A k \in passedOn' : k \in passedOn \/ k = j
      PROVE  Relocates("within", "passedOn", g, j)
    <2>1. \A p \in MovePlaces : \A k \in GroupsAt(p)' : (k \in GroupsAt(p) /\ k # g) \/ (p = "passedOn" /\ k = j)
        <3>1. \A k \in GroupsAt("across")' : k \in GroupsAt("across") BY <1>1, Places, PlacesNext
        <3>2. \A p \in {"waiting", "passedOn", "across"} : \A k \in GroupsAt(p) : k # g BY <1>3, Places DEF PlaceInv
        <3>3. QED BY <1>1, <1>8, <3>1, <3>2, Places, PlacesNext
    <2>2. QED BY <1>3, <1>8, <2>1, Places DEF Relocates
<1>9. waiting' \subseteq MoveGroup /\ within' \subseteq MoveGroup /\ passedOn' \subseteq MoveGroup /\ across' \subseteq MoveSearch
      /\ (\A c, d \in across' : c = d) /\ \A k, l \in within' : k = l
    BY <1>1, <1>4, <1>6 DEF MovedTypeOK, PlaceInv
<1>10. \A a \in across' : /\ \A n \in a.found : NewCopy(n) /\ Own(a.group, n)
                          /\ \A ms \in a.of : ms \in a.group.missing /\ rows[ms.id] = ms.row /\ ms.id \notin a.group.todo
    BY <1>1 DEF CopyInv, FileInv
<1>11. MovedTypeOK' /\ BeforeInv' /\ PlaceInv' /\ CopyInv' /\ FileInv' /\ StarInv'
    <2>1. CASE g.used = {}
        <3>1. \A ms \in h.missing : rows[ms.id] = ms.row BY <1>4, <2>1 DEF CopyInv
        <3>2. Relocates("within", "passedOn", g, h) BY <1>4, <1>6, <1>8
        <3>3. QED BY <1>1, <1>9, <1>10, <3>1, <3>2, Quiet
    <2>2. CASE g.used # {}
        <3>1. Relocates("within", "passedOn", g, g) BY <1>6, <1>8, <2>2
        <3>2. \A ms \in g.missing : ms.id \in g.todo => rows[ms.id] = ms.row BY <1>3, Places DEF CopyInv
        <3>3. QED BY <1>1, <1>9, <1>10, <3>1, <3>2, Quiet
    <2>3. QED BY <2>1, <2>2
<1>12. MissInv'
    <2>1. \A k \in waiting' \cup within' : k \in waiting BY <1>1
    <2>2. \A p \in {"passedOn", "across"} : \A k \in GroupsAt(p)' : k \in GroupsAt(p) \/ (k = h /\ g.used = {})
        BY <1>1, <1>6, Places, PlacesNext
    <2>3. \A k \in waiting : k.lib # g.lib BY <1>3, Places DEF PlaceInv
    <2>4. \A p \in {"passedOn", "across"} : \A k \in GroupsAt(p) : k.lib # g.lib BY <1>3, Places DEF PlaceInv
    <2>5. ASSUME NEW m \in Ids \ Fresh, NEW n \in Fresh, Moves(m, n)
          PROVE  /\ \A k \in waiting' \cup within' : k.lib = before[m].lib => ToFollow(k, m, n)
                 /\ before[m].lib \notin unread' /\ (\A k \in waiting' \cup within' : k.lib # before[m].lib) =>
                       Followed(m) /\ \A p \in {"passedOn", "across"} : \A k \in GroupsAt(p)' : k.lib # before[m].lib
        <3>1. \A k \in waiting' \cup within' : k.lib = before[m].lib => ToFollow(k, m, n) BY <2>1, <2>5 DEF MissInv
        <3>2. CASE g.lib = before[m].lib
            <4>1. ToFollow(g, m, n) BY <2>5, <3>2 DEF MissInv
            <4>2. g.used # {} /\ Followed(m) BY <1>2, <4>1 DEF ToFollow
            <4>3. QED BY <2>2, <2>4, <3>1, <3>2, <4>2
        <3>3. CASE g.lib # before[m].lib
            <4>1. (\A k \in waiting' \cup within' : k.lib # before[m].lib) => \A k \in waiting \cup within : k.lib # before[m].lib
                BY <1>1, <1>7, <3>3
            <4>2. QED BY <1>1, <1>4, <2>2, <2>5, <3>1, <3>3, <4>1 DEF MissInv
        <3>4. QED BY <3>2, <3>3
    <2>6. \A m, n : /\ Moves(m, n)' = Moves(m, n) /\ Followed(m)' = Followed(m) /\ before'[m] = before[m]
                    /\ \A k : ToFollow(k, m, n)' = ToFollow(k, m, n)
        BY <1>1, Still_Moves
    <2>7. QED BY <2>5, <2>6 DEF MissInv
<1>13. QED BY <1>11, <1>12

\* Two rows never get the same file from a copy that is still the row.
LEMMA Move_Files ==
    ASSUME OneRowPerFile, NEW lib, NEW n, NEW ms, MoveFacts(lib, n, ms), takenBy[n.id] \subseteq {lib} => rows[n.id] = n.row,
           n.row # NoTrack
    PROVE  OneRowPerFile'
<1> USE DEF MoveFacts
<1>1. ASSUME ~movesCrossed', NEW i \in Ids, NEW j \in Ids, rows'[i] # NoTrack, rows'[j] # NoTrack, rows'[i].file = rows'[j].file PROVE i = j
    <2>1. ~movesCrossed /\ rows[n.id] = n.row BY <1>1
    <2>2. \A p, q \in Ids : rows[p] # NoTrack /\ rows[q] # NoTrack /\ rows[p].file = rows[q].file => p = q
        BY <2>1 DEF OneRowPerFile, Existing
    <2>3. i # n.id /\ j # n.id BY <1>1
    <2>4. \A k \in Ids : k # ms.id /\ rows'[k] # NoTrack /\ k # n.id => rows'[k] = rows[k] /\ rows[k].file # n.row.file
        <3>1. TAKE k \in Ids
        <3>2. HAVE k # ms.id /\ rows'[k] # NoTrack /\ k # n.id
        <3>3. rows'[k] = rows[k] BY <3>2
        <3>4. QED BY <2>1, <2>2, <3>2, <3>3
    <2>5. CASE i = ms.id /\ j # ms.id BY <1>1, <2>3, <2>4, <2>5
    <2>6. CASE j = ms.id /\ i # ms.id BY <1>1, <2>3, <2>4, <2>6
    <2>7. CASE i # ms.id /\ j # ms.id BY <1>1, <2>2, <2>3, <2>4, <2>7
    <2>8. QED BY <2>5, <2>6, <2>7
<1>2. QED BY <1>1 DEF OneRowPerFile, Existing

\* A song that was followed stays so, or groups have crossed.
LEMMA Followed_Kept ==
    ASSUME NEW m \in Ids, Followed(m), NEW lib, NEW n, NEW ms, MoveFacts(lib, n, ms), UNCHANGED before,
           m = n.id => lib # before[m].lib
    PROVE  Followed(m)'
<1> USE DEF MoveFacts, Followed
<1>1. before'[m].lib \in takenBy'[m] OBVIOUS
<1>2. CASE movesCrossed BY <1>1, <1>2
<1>3. CASE m = n.id
    <2>1. takenBy[n.id] \ {lib} # {} BY <1>3
    <2>2. QED BY <1>1, <2>1
<1>4. CASE m = ms.id
    <2>1. rows'[m] # NoTrack BY <1>4, MovedAssumption DEF MovedAssumption
    <2>2. QED BY <1>1, <1>4, <2>1
<1>5. CASE m # n.id /\ m # ms.id BY <1>1, <1>5
<1>6. QED BY <1>2, <1>3, <1>4, <1>5

\* A group moves a song; g is the group before, h the group after.
GroupMoves(p0, g, h, n, ms) ==
    /\ p0 \in {"within", "across"} /\ Relocates(p0, p0, g, h) /\ ms \in g.missing
    /\ MoveFacts(g.lib, n, ms) /\ Own(g, n) /\ n.row # NoTrack
    /\ h.todo \subseteq g.todo \ {ms.id}
    /\ UNCHANGED <<unread, waiting, passedOn, finalized, before>>
    /\ p0 = "within" => /\ across' = across /\ within' = {h} /\ n \in g.matched
                        /\ h.used = g.used \cup {n.id} /\ h.todo = g.todo \ {ms.id}
    /\ p0 = "across" => within' = within /\ \A a \in across' : a.of = {} /\ a.found = {}

LEMMA GroupMoves_Copies ==
    ASSUME MovedInv, NEW p0, NEW g, NEW h, NEW n, NEW ms, GroupMoves(p0, g, h, n, ms),
           \A a, b \in across' : a = b, \A k, l \in within' : k = l
    PROVE  PlaceInv' /\ BeforeInv' /\ CopyInv' /\ FileInv'
<1> USE DEF MovedInv
<1>1. /\ Relocates(p0, p0, g, h) /\ ms \in g.missing /\ MoveFacts(g.lib, n, ms) /\ Own(g, n) /\ n.row # NoTrack
      /\ UNCHANGED <<unread, waiting, passedOn, finalized, before>> /\ h.todo \subseteq g.todo \ {ms.id} /\ p0 \in {"within", "across"}
    BY DEF GroupMoves
<1>2. PlaceInv' /\ g.lib \notin unread /\ \A p \in MovePlaces : \A k \in GroupsAt(p)' : k = h \/ (k \in GroupsAt(p) /\ k.lib # g.lib)
    BY <1>1, Relocated
<1>3. g \in GroupsAt(p0) /\ p0 \in MovePlaces /\ h.lib = g.lib /\ h.missing = g.missing /\ h.matched = g.matched BY <1>1 DEF Relocates
<1>4. ms.row.lib = g.lib BY <1>1, <1>3 DEF CopyInv, OldCopy
<1>5. BeforeInv' /\ \A i \in Ids : Gone(i) => Gone(i)' BY <1>1, <1>2, <1>4, Move_Before
<1> USE DEF MoveFacts
<1>6. n.id \in Ids /\ ms.id \in Ids /\ n.id # ms.id /\ rows[ms.id] = ms.row /\ ms.row.missing /\ NewCopy(n)
      /\ \A i \in Ids \ {ms.id, n.id} : rows'[i] = rows[i] /\ takenBy'[i] = takenBy[i]
    BY <1>1
<1>7. ASSUME NEW k, NEW o \in TrackCopy, OldCopy(k, o), rows[o.id] = o.row, o.id # ms.id \/ k.lib # g.lib PROVE rows'[o.id] = o.row
    <2>1. o.id # ms.id BY <1>4, <1>6, <1>7 DEF OldCopy
    <2>2. o.row # NoTrack BY MovedAssumption DEF MovedAssumption, TrackCopy
    <2>3. o.id # n.id BY <1>6, <1>7, <2>2 DEF OldCopy, NewCopy, Gone
    <2>4. o.id \in Ids BY DEF TrackCopy
    <2>5. QED BY <1>6, <1>7, <2>1, <2>3, <2>4
<1>8. \A p \in MovePlaces : \A k \in GroupsAt(p) : k.missing \subseteq TrackCopy /\ k.matched \subseteq TrackCopy
    <2>1. \A p \in MovePlaces : GroupsAt(p) \subseteq MoveGroup BY Places DEF MovedTypeOK, MoveSearch
    <2>2. QED BY <2>1 DEF MoveGroup
<1>9. \A o \in TrackCopy : NewCopy(o) => NewCopy(o)' BY <1>5 DEF NewCopy, TrackCopy
<1>10. \A p \in MovePlaces : \A k \in GroupsAt(p)' : \A o \in k.missing : OldCopy(k, o) /\ (o.id \in k.todo => rows'[o.id] = o.row)
    <2> TAKE p \in MovePlaces
    <2> TAKE k \in GroupsAt(p)'
    <2> TAKE o \in k.missing
    <2>1. CASE k = h
        <3>1. o \in g.missing /\ o \in TrackCopy /\ OldCopy(g, o) /\ (o.id \in g.todo => rows[o.id] = o.row) BY <1>3, <1>8, <2>1 DEF CopyInv
        <3>2. OldCopy(h, o) BY <1>3, <3>1 DEF OldCopy
        <3>3. o.id \in h.todo => o.id \in g.todo /\ o.id # ms.id BY <1>1
        <3>4. QED BY <1>7, <2>1, <3>1, <3>2, <3>3
    <2>2. CASE k \in GroupsAt(p) /\ k.lib # g.lib
        <3>1. o \in TrackCopy /\ OldCopy(k, o) /\ (o.id \in k.todo => rows[o.id] = o.row) BY <1>8, <2>2 DEF CopyInv
        <3>2. QED BY <1>7, <2>2, <3>1
    <2>3. QED BY <1>2, <2>1, <2>2
<1>11. \A k \in waiting' \cup within' : (k = h /\ p0 = "within") \/ (k \in waiting \cup within /\ k.lib # g.lib)
    <2>1. \A p \in {"waiting", "within"} : \A k \in GroupsAt(p)' : (k = h /\ p = p0) \/ (k \in GroupsAt(p) /\ k.lib # g.lib)
        <3>1. \A p \in MovePlaces : \A k \in GroupsAt(p) : k # g => k.lib # g.lib BY <1>3 DEF PlaceInv
        <3>2. QED BY <1>1, <3>1, Places DEF Relocates
    <2>2. QED BY <1>1, <2>1, Places, PlacesNext
<1>12. p0 = "within" => g \in within /\ h.used = g.used \cup {n.id} /\ n \in g.matched /\ across' = across BY <1>3, Places DEF GroupMoves
<1>13. \A a \in across' : (a.of = {} /\ a.found = {}) \/ (a \in across /\ a.group.lib # g.lib)
    <2>1. CASE p0 = "across" BY <2>1 DEF GroupMoves
    <2>2. CASE p0 = "within"
        <3>1. \A a \in across : a.group \in GroupsAt("across") BY Places
        <3>2. QED BY <1>3, <1>12, <2>2, <3>1, Places DEF PlaceInv
    <2>3. QED BY <1>1, <2>1, <2>2
<1>14. \A k \in waiting' \cup within' :
          /\ \A o \in k.matched : NewCopy(o)' /\ \A x \in k.missing : x.id # o.id
          /\ k.used = {} => \A x \in k.missing : rows'[x.id] = x.row
    <2> TAKE k \in waiting' \cup within'
    <2>1. CASE k = h /\ p0 = "within"
        <3>1. \A o \in g.matched : NewCopy(o) /\ o \in TrackCopy /\ \A x \in g.missing : x.id # o.id BY <1>3, <1>8, <1>12, <2>1 DEF CopyInv
        <3>2. QED BY <1>3, <1>9, <1>12, <2>1, <3>1
    <2>2. CASE k \in waiting \cup within /\ k.lib # g.lib
        <3>1. k.missing \subseteq TrackCopy /\ k.matched \subseteq TrackCopy BY <1>8, <2>2, Places
        <3>2. /\ \A o \in k.matched : NewCopy(o) /\ \A x \in k.missing : x.id # o.id
              /\ k.used = {} => \A x \in k.missing : rows[x.id] = x.row
            BY <2>2 DEF CopyInv
        <3>3. \A x \in k.missing : OldCopy(k, x) BY <2>2, Places DEF CopyInv
        <3>4. QED BY <1>7, <1>9, <2>2, <3>1, <3>2, <3>3
    <2>3. QED BY <1>11, <2>1, <2>2
<1>15. \A a \in across' :
          /\ \A o \in a.found : NewCopy(o)'
          /\ \A x \in a.of : x \in a.group.missing /\ rows'[x.id] = x.row /\ x.id \notin a.group.todo
    <2> TAKE a \in across'
    <2>1. CASE a.of = {} /\ a.found = {} BY <2>1
    <2>2. CASE a \in across /\ a.group.lib # g.lib
        <3>1. a.found \subseteq TrackCopy /\ a.of \subseteq TrackCopy BY <2>2 DEF MovedTypeOK, MoveSearch
        <3>2. /\ \A o \in a.found : NewCopy(o)
              /\ \A x \in a.of : x \in a.group.missing /\ rows[x.id] = x.row /\ x.id \notin a.group.todo
            BY <2>2 DEF CopyInv
        <3>3. \A x \in a.of : OldCopy(a.group, x) BY <2>2, <3>2, Places DEF CopyInv
        <3>4. QED BY <1>7, <1>9, <2>2, <3>1, <3>2, <3>3
    <2>3. QED BY <1>13, <2>1, <2>2
<1>16. CopyInv'
    <2>1. \A k, o : OldCopy(k, o) => OldCopy(k, o)' BY DEF OldCopy
    <2>2. MovePlaces' = MovePlaces BY DEF MovePlaces
    <2>3. QED BY <1>10, <1>14, <1>15, <2>1, <2>2 DEF CopyInv
<1>17. OneRowPerFile' BY <1>1, Move_Files DEF FileInv, Own
<1>18. ASSUME NEW k, NEW o \in TrackCopy, Own(k, o), k.lib # g.lib PROVE Own(k, o)'
    <2>1. o.id \in Ids BY DEF TrackCopy
    <2>2. CASE o.id \in {ms.id, n.id}
        <3>1. g.lib \in takenBy'[o.id] BY <1>1, <2>2
        <3>2. QED BY <1>18, <3>1 DEF Own
    <2>3. CASE o.id \notin {ms.id, n.id} BY <1>6, <1>18, <2>1, <2>3 DEF Own
    <2>4. QED BY <2>2, <2>3
<1>19. \A k \in waiting' \cup within' : \A o \in k.matched : o.id \notin k.used => Own(k, o)'
    <2> TAKE k \in waiting' \cup within'
    <2> TAKE o \in k.matched
    <2>1. CASE k = h /\ p0 = "within"
        <3>1. o \in g.matched /\ o \in TrackCopy /\ NewCopy(o) BY <1>3, <1>8, <1>12, <2>1 DEF CopyInv
        <3>2. o.id # ms.id
            <4>1. ms.row # NoTrack BY <1>1, <1>3, <1>8, MovedAssumption DEF MovedAssumption, TrackCopy
            <4>2. QED BY <1>6, <3>1, <4>1 DEF NewCopy, Gone
        <3>3. ASSUME o.id \notin h.used PROVE Own(h, o)'
            <4>1. o.id # n.id /\ o.id \notin g.used BY <1>12, <2>1, <3>3
            <4>2. Own(g, o) BY <1>12, <2>1, <3>1, <4>1 DEF FileInv
            <4>3. rows'[o.id] = rows[o.id] /\ takenBy'[o.id] = takenBy[o.id] BY <1>6, <3>1, <3>2, <4>1 DEF TrackCopy
            <4>4. QED BY <1>3, <4>2, <4>3 DEF Own
        <3>4. QED BY <2>1, <3>3
    <2>2. CASE k \in waiting \cup within /\ k.lib # g.lib
        <3>1. k.matched \subseteq TrackCopy BY <1>8, <2>2, Places
        <3>2. QED BY <1>18, <2>2, <3>1 DEF FileInv
    <2>3. QED BY <1>11, <2>1, <2>2
<1>20. \A a \in across' : \A o \in a.found : Own(a.group, o)'
    <2> TAKE a \in across'
    <2>1. CASE a.of = {} /\ a.found = {} BY <2>1
    <2>2. CASE a \in across /\ a.group.lib # g.lib
        <3>1. a.found \subseteq TrackCopy BY <2>2 DEF MovedTypeOK, MoveSearch
        <3>2. QED BY <1>18, <2>2, <3>1 DEF FileInv
    <2>3. QED BY <1>13, <2>1, <2>2
<1>21. FileInv' BY <1>17, <1>19, <1>20 DEF FileInv
<1>22. QED BY <1>2, <1>5, <1>16, <1>21

LEMMA GroupMoves_Miss ==
    ASSUME MovedInv, NEW p0, NEW g, NEW h, NEW n, NEW ms, GroupMoves(p0, g, h, n, ms),
           \A a, b \in across' : a = b, \A k, l \in within' : k = l
    PROVE  MissInv'
<1> USE DEF MovedInv
<1>1. /\ Relocates(p0, p0, g, h) /\ ms \in g.missing /\ MoveFacts(g.lib, n, ms)
      /\ UNCHANGED <<unread, waiting, passedOn, finalized, before>> /\ p0 \in {"within", "across"}
    BY DEF GroupMoves
<1>2. \A p \in MovePlaces : \A k \in GroupsAt(p)' : k = h \/ (k \in GroupsAt(p) /\ k.lib # g.lib) BY <1>1, Relocated
<1>3. g \in GroupsAt(p0) /\ h.lib = g.lib /\ h.missing = g.missing /\ h.matched = g.matched BY <1>1 DEF Relocates
<1>4. n.id \in Ids /\ ms.id \in Ids \ Fresh /\ rows'[n.id] = NoTrack /\ g.lib \in takenBy'[ms.id]
      /\ rows'[ms.id] # NoTrack /\ ~rows'[ms.id].missing /\ \A i \in Ids \ {ms.id, n.id} : rows'[i] = rows[i]
    BY <1>1, MovedAssumption DEF MoveFacts, MovedAssumption
<1>5. p0 = "within" => /\ g \in within /\ across' = across /\ within' = {h} /\ n \in g.matched
                       /\ h.used = g.used \cup {n.id} /\ h.todo = g.todo \ {ms.id}
    BY <1>3, Places DEF GroupMoves
<1>6. p0 = "across" => within' = within BY DEF GroupMoves
<1>7. ASSUME NEW m \in Ids \ Fresh, NEW n2 \in Fresh, Moves(m, n2)'
      PROVE  /\ \A k \in waiting' \cup within' : k.lib = before'[m].lib => ToFollow(k, m, n2)'
             /\ before'[m].lib \notin unread' /\ (\A k \in waiting' \cup within' : k.lib # before'[m].lib) =>
                   Followed(m)' /\ \A p \in {"passedOn", "across"} : \A k \in GroupsAt(p)' : k.lib # before'[m].lib
    <2> DEFINE L == before[m].lib
    <2>1. before'[m] = before[m] /\ before' = before BY <1>1
    <2>2. n2 # n.id /\ n2 # ms.id /\ n2 \in Ids BY <1>4, <1>7, MovedAssumption DEF Moves, MovedAssumption
    <2>3. Moves(m, n2) BY <1>4, <1>7, <2>1, <2>2 DEF Moves
    <2>4. Followed(m) /\ (m = n.id => g.lib # L) => Followed(m)' BY <1>1, Followed_Kept
    <2>5. \A k \in waiting' \cup within' : k.lib = L => ToFollow(k, m, n2)'
        <3> TAKE k \in waiting' \cup within'
        <3> HAVE k.lib = L
        <3>1. CASE k \in waiting \cup within /\ k.lib # g.lib
            <4>1. ToFollow(k, m, n2) BY <2>3, <3>1 DEF MissInv
            <4>2. QED BY <2>1, <2>4, <3>1, <4>1 DEF ToFollow
        <3>2. CASE k = h /\ p0 = "within"
            <4>1. g.lib = L /\ g \in within BY <1>3, <1>5, <3>2
            <4>2. ToFollow(g, m, n2) BY <2>3, <4>1 DEF MissInv
            <4>3. m # n.id
                <5>1. [id |-> m, row |-> before[m]] \in g.missing BY <4>2 DEF ToFollow
                <5>2. \A x \in g.missing : x.id # n.id BY <1>5, <3>2, <4>1 DEF CopyInv
                <5>3. QED BY <5>1, <5>2
            <4>4. m = ms.id => Followed(m)' BY <1>4, <2>1, <4>1 DEF Followed
            <4>5. m \in h.todo \/ (h.used # {} /\ Followed(m)') BY <1>5, <2>4, <3>2, <4>2, <4>3, <4>4 DEF ToFollow
            <4>6. n2 \notin h.used BY <1>5, <2>2, <3>2, <4>2 DEF ToFollow
            <4>7. QED BY <1>3, <2>1, <3>2, <4>2, <4>5, <4>6 DEF ToFollow
        <3>3. CASE p0 = "across"
            <4>1. k \in waiting \cup within BY <1>1, <1>6, <3>3
            <4>2. k.lib # g.lib BY <1>3, <3>3, <4>1, Places DEF PlaceInv
            <4>3. QED BY <3>1, <4>1, <4>2
        <3>4. CASE p0 = "within" /\ k # h
            <4>1. k \in waiting BY <1>1, <1>5, <3>4
            <4>2. k.lib # g.lib BY <1>3, <3>4, <4>1, Places DEF PlaceInv
            <4>3. QED BY <3>1, <4>1, <4>2
        <3>5. QED BY <1>1, <3>2, <3>3, <3>4
    <2>6. ASSUME L \notin unread, \A k \in waiting' \cup within' : k.lib # L
          PROVE  Followed(m)' /\ \A p \in {"passedOn", "across"} : \A k \in GroupsAt(p)' : k.lib # L
        <3>1. \A k \in waiting \cup within : k.lib # L
            <4>1. CASE p0 = "across" BY <1>1, <1>6, <2>6, <4>1
            <4>2. CASE p0 = "within"
                <5>1. \A k \in within : k = g BY <1>5, <4>2 DEF PlaceInv
                <5>2. h.lib # L BY <1>5, <2>6, <4>2
                <5>3. QED BY <1>1, <1>3, <2>6, <5>1, <5>2
            <4>3. QED BY <1>1, <4>1, <4>2
        <3>2. Followed(m) /\ \A p \in {"passedOn", "across"} : \A k \in GroupsAt(p) : k.lib # L BY <2>3, <2>6, <3>1 DEF MissInv
        <3>3. g.lib # L
            <4>1. CASE p0 = "across" BY <1>3, <3>2, <4>1
            <4>2. CASE p0 = "within" BY <1>5, <3>1, <4>2
            <4>3. QED BY <1>1, <4>1, <4>2
        <3>4. \A p \in {"passedOn", "across"} : \A k \in GroupsAt(p)' : k.lib # L BY <1>2, <1>3, <3>2, <3>3, Places
        <3>5. QED BY <2>4, <3>2, <3>3, <3>4
    <2>7. QED BY <1>1, <2>1, <2>5, <2>6
<1>8. QED BY <1>7 DEF MissInv

\* A move of one group keeps everything.
LEMMA GroupMoves_Inv ==
    ASSUME MovedInv, NEW p0, NEW g, NEW h, NEW n \in TrackCopy, NEW ms \in TrackCopy, GroupMoves(p0, g, h, n, ms), moveMatched(g.lib, n, ms),
           \A a, b \in across' : a = b, \A k, l \in within' : k = l, within' \subseteq MoveGroup, across' \subseteq MoveSearch
    PROVE  MovedInv'
<1>1. PlaceInv' /\ BeforeInv' /\ CopyInv' /\ FileInv' BY GroupMoves_Copies
<1>2. MissInv' BY GroupMoves_Miss
<1>3. MoveFacts(g.lib, n, ms) /\ UNCHANGED <<unread, waiting, passedOn, finalized, before>> BY DEF GroupMoves
<1>4. StarInv' BY <1>3, Move_Star DEF MovedInv
<1>5. MovedTypeOK' BY <1>3 DEF MovedInv, MovedTypeOK, MoveFacts
<1>6. QED BY <1>1, <1>2, <1>4, <1>5 DEF MovedInv

LEMMA processMissingTracks_Inv == ASSUME MovedInv, processMissingTracks PROVE MovedInv'
<1> USE DEF MovedInv
<1>1. UNCHANGED <<unread, waiting, across, passedOn, finalized, before>> BY DEF processMissingTracks
<1>0. PICK g \in within : \E ms \in g.missing :
        /\ ms.id \in g.todo
        /\ IF Candidates(g, ms) = {}
           THEN /\ within' = {[g EXCEPT !.todo = @ \ {ms.id}]}
                /\ UNCHANGED <<rows, processed, starred, takenBy, movedAlbums, movesCrossed>>
           ELSE \E n \in Candidates(g, ms) :
                    /\ moveMatched(g.lib, n, ms)
                    /\ within' = {[g EXCEPT !.todo = @ \ {ms.id}, !.used = @ \cup {n.id}]}
    BY DEF processMissingTracks
<1>2. PICK ms \in g.missing :
        /\ ms.id \in g.todo
        /\ IF Candidates(g, ms) = {}
           THEN /\ within' = {[g EXCEPT !.todo = @ \ {ms.id}]}
                /\ UNCHANGED <<rows, processed, starred, takenBy, movedAlbums, movesCrossed>>
           ELSE \E n \in Candidates(g, ms) :
                    /\ moveMatched(g.lib, n, ms)
                    /\ within' = {[g EXCEPT !.todo = @ \ {ms.id}, !.used = @ \cup {n.id}]}
    BY <1>0
<1>3. g \in MoveGroup /\ g \in GroupsAt("within") BY Places DEF MovedTypeOK
<1>4. ms \in TrackCopy /\ g.lib \in Libs BY <1>3 DEF MoveGroup
<1>5. rows[ms.id] = ms.row /\ OldCopy(g, ms) BY <1>2, <1>3, Places DEF CopyInv
<1>6. ms.row # NoTrack /\ ms.id \in Ids BY <1>4, MovedAssumption DEF MovedAssumption, TrackCopy
<1>7. \A k \in within : k = g BY DEF PlaceInv
<1>8. ASSUME NEW h, within' = {h}, h.lib = g.lib, h.missing = g.missing, h.matched = g.matched PROVE Relocates("within", "within", g, h)
    <2>1. \A p \in MovePlaces : \A k \in GroupsAt(p)' : (k \in GroupsAt(p) /\ k # g) \/ (p = "within" /\ k = h)
        <3>1. \A k \in GroupsAt("across")' : k \in GroupsAt("across") BY <1>1, Places, PlacesNext
        <3>2. \A p \in {"waiting", "passedOn", "across"} : \A k \in GroupsAt(p) : k # g BY <1>3, Places DEF PlaceInv
        <3>3. QED BY <1>1, <1>8, <3>1, <3>2, Places, PlacesNext
    <2>2. QED BY <1>3, <1>8, <2>1, Places DEF Relocates
<1>9. CASE Candidates(g, ms) = {}
    <2> DEFINE h == [g EXCEPT !.todo = @ \ {ms.id}]
    <2>1. within' = {h} /\ Still BY <1>1, <1>2, <1>9 DEF Still
    <2>2. h \in MoveGroup /\ h.lib = g.lib /\ h.missing = g.missing /\ h.matched = g.matched /\ h.used = g.used /\ h.todo = g.todo \ {ms.id}
        BY <1>3 DEF MoveGroup
    <2> HIDE DEF h
    <2>3. Relocates("within", "within", g, h) BY <1>8, <2>1, <2>2
    <2>4. \A k \in h.missing : k.id \in h.todo => rows[k.id] = k.row BY <1>3, <2>2, Places DEF CopyInv
    <2>5. \A a \in across' : /\ \A n \in a.found : NewCopy(n) /\ Own(a.group, n)
                             /\ \A x \in a.of : x \in a.group.missing /\ rows[x.id] = x.row /\ x.id \notin a.group.todo
        BY <1>1 DEF CopyInv, FileInv
    <2>6. waiting' \subseteq MoveGroup /\ within' \subseteq MoveGroup /\ passedOn' \subseteq MoveGroup /\ across' \subseteq MoveSearch
          /\ (\A c, d \in across' : c = d) /\ \A k, l \in within' : k = l
        BY <1>1, <2>1, <2>2 DEF MovedTypeOK, PlaceInv
    <2>7. MovedTypeOK' /\ BeforeInv' /\ PlaceInv' /\ CopyInv' /\ FileInv' /\ StarInv'
        BY <1>1, <2>1, <2>2, <2>3, <2>4, <2>5, <2>6, Quiet
    <2>8. ASSUME NEW m \in Ids \ Fresh, NEW n \in Fresh, Moves(m, n), before[m].lib = g.lib PROVE m # ms.id
        <3> SUFFICES ASSUME m = ms.id PROVE FALSE OBVIOUS
        <3>1. ToFollow(g, m, n) BY <2>8 DEF MissInv
        <3>2. ms.row = before[m] BY <1>5, <1>6 DEF BeforeInv, OldCopy
        <3> DEFINE c == [id |-> n, row |-> before[n]]
        <3>3. c.id = n /\ c.row = before[n] /\ c \in g.matched /\ n \notin g.used BY <3>1 DEF ToFollow
        <3>4. before[n].content = before[m].content BY <2>8 DEF Moves
        <3> HIDE DEF c
        <3>5. c \in Unused(g) /\ Equals(ms, c) BY <3>2, <3>3, <3>4 DEF Unused, Equals
        <3>6. {x \in Unused(g) : Equals(ms, x)} # {} BY <3>5
        <3>7. Candidates(g, ms) = {x \in Unused(g) : Equals(ms, x)} BY <3>6 DEF Candidates
        <3>8. QED BY <1>9, <3>6, <3>7
    <2>9. MissInv'
        <3>1. \A p \in {"passedOn", "across"} : GroupsAt(p)' = GroupsAt(p) BY <1>1, Places, PlacesNext
        <3>2. waiting' \cup within' = waiting \cup {h} /\ waiting \cup within = waiting \cup {g} BY <1>1, <1>7, <2>1
        <3>3. ASSUME NEW m \in Ids \ Fresh, NEW n \in Fresh, Moves(m, n)
              PROVE  /\ \A k \in waiting' \cup within' : k.lib = before[m].lib => ToFollow(k, m, n)
                     /\ before[m].lib \notin unread' /\ (\A k \in waiting' \cup within' : k.lib # before[m].lib) =>
                           Followed(m) /\ \A p \in {"passedOn", "across"} : \A k \in GroupsAt(p)' : k.lib # before[m].lib
            <4>1. h.lib = before[m].lib => ToFollow(h, m, n)
                <5> HAVE h.lib = before[m].lib
                <5>1. ToFollow(g, m, n) /\ m # ms.id BY <2>2, <2>8, <3>3 DEF MissInv
                <5>2. QED BY <2>2, <5>1 DEF ToFollow
            <4>2. \A k \in waiting : k.lib = before[m].lib => ToFollow(k, m, n) BY <3>3 DEF MissInv
            <4>3. (\A k \in waiting' \cup within' : k.lib # before[m].lib) => \A k \in waiting \cup within : k.lib # before[m].lib
                BY <2>2, <3>2
            <4>4. QED BY <1>1, <3>1, <3>2, <3>3, <4>1, <4>2, <4>3 DEF MissInv
        <3>4. QED BY <2>1, <3>3, Still_Moves DEF MissInv
    <2>10. QED BY <2>7, <2>9
<1>10. CASE Candidates(g, ms) # {}
    <2>1. PICK n \in Candidates(g, ms) :
              moveMatched(g.lib, n, ms) /\ within' = {[g EXCEPT !.todo = @ \ {ms.id}, !.used = @ \cup {n.id}]}
        BY <1>2, <1>10
    <2> DEFINE h == [g EXCEPT !.todo = @ \ {ms.id}, !.used = @ \cup {n.id}]
    <2>2. n \in Unused(g) BY DEF Candidates
    <2>3. n \in g.matched /\ n.id \notin g.used /\ n \in TrackCopy BY <1>3, <2>2 DEF Unused, MoveGroup
    <2>4. NewCopy(n) /\ Own(g, n) BY <2>3 DEF CopyInv, FileInv
    <2>5. n.row # NoTrack /\ n.id \in Ids BY <2>3, MovedAssumption DEF MovedAssumption, TrackCopy
    <2>6. h \in MoveGroup /\ h.lib = g.lib /\ h.missing = g.missing /\ h.matched = g.matched /\ h.used = g.used \cup {n.id} /\ h.todo = g.todo \ {ms.id}
        BY <1>3, <2>5 DEF MoveGroup
    <2>7. within' = {h} BY <2>1
    <2> HIDE DEF h
    <2>8. MoveFacts(g.lib, n, ms) BY <1>4, <1>5, <2>1, <2>3, <2>4, MoveMatched_Facts DEF OldCopy
    <2>9. Relocates("within", "within", g, h) BY <1>8, <2>6, <2>7
    <2>10. GroupMoves("within", g, h, n, ms) BY <1>1, <2>3, <2>4, <2>5, <2>6, <2>7, <2>8, <2>9 DEF GroupMoves
    <2>11. (\A a, b \in across' : a = b) /\ (\A k, l \in within' : k = l) /\ within' \subseteq MoveGroup /\ across' \subseteq MoveSearch
        BY <1>1, <2>6, <2>7 DEF MovedTypeOK, PlaceInv
    <2>12. QED BY <1>4, <2>1, <2>3, <2>10, <2>11, GroupMoves_Inv
<1>11. QED BY <1>9, <1>10

LEMMA processCrossLibraryMoves_Inv == ASSUME MovedInv, processCrossLibraryMoves PROVE MovedInv'
<1> USE DEF MovedInv
<1>1. UNCHANGED <<unread, waiting, within, passedOn, finalized, before>> BY DEF processCrossLibraryMoves
<1>2. PICK a \in across :
          \/ \E ms \in a.of, n \in a.found :
                 /\ moveMatched(a.group.lib, n, ms)
                 /\ across' = {[a EXCEPT !.of = {}, !.found = {}]}
          \/ /\ a.of = {} /\ a.group.todo = {}
             /\ across' = {}
             /\ UNCHANGED <<rows, processed, starred, takenBy, movedAlbums, movesCrossed>>
    BY DEF processCrossLibraryMoves
<1>3. CASE across' = {} /\ UNCHANGED <<rows, processed, starred, takenBy, movedAlbums, movesCrossed>> BY <1>1, <1>3, AcrossDone_Inv
<1>4. ASSUME NEW ms \in a.of, NEW n \in a.found, moveMatched(a.group.lib, n, ms), across' = {[a EXCEPT !.of = {}, !.found = {}]} PROVE MovedInv'
    <2> DEFINE g == a.group
               b == [a EXCEPT !.of = {}, !.found = {}]
    <2>1. a \in MoveSearch /\ g \in MoveGroup /\ g \in GroupsAt("across") BY Places DEF MovedTypeOK, MoveSearch
    <2>2. b \in MoveSearch /\ b.group = g /\ b.of = {} /\ b.found = {} /\ across' = {b} BY <1>4, <2>1 DEF MoveSearch
    <2> HIDE DEF b
    <2>3. ms \in TrackCopy /\ n \in TrackCopy /\ g.lib \in Libs BY <2>1 DEF MoveSearch, MoveGroup
    <2>4. ms \in g.missing /\ rows[ms.id] = ms.row /\ ms.id \notin g.todo /\ NewCopy(n) BY DEF CopyInv
    <2>5. OldCopy(g, ms) BY <2>1, <2>4, Places DEF CopyInv
    <2>6. Own(g, n) BY DEF FileInv
    <2> HIDE DEF g
    <2>7. n.row # NoTrack BY <2>3, MovedAssumption DEF MovedAssumption, TrackCopy
    <2>8. moveMatched(g.lib, n, ms) BY <1>4 DEF g
    <2>9. MoveFacts(g.lib, n, ms) BY <2>3, <2>4, <2>5, <2>8, MoveMatched_Facts DEF OldCopy
    <2>10. Relocates("across", "across", g, g)
        <3>1. \A p \in MovePlaces : \A k \in GroupsAt(p)' : (k \in GroupsAt(p) /\ k # g) \/ (p = "across" /\ k = g)
            <4>1. \A k \in GroupsAt("across")' : k = g BY <2>2, PlacesNext
            <4>2. \A p \in {"waiting", "within", "passedOn"} : \A k \in GroupsAt(p) : k # g BY <2>1, Places DEF PlaceInv
            <4>3. QED BY <1>1, <4>1, <4>2, Places, PlacesNext
        <3>2. QED BY <2>1, <3>1, Places DEF Relocates
    <2>11. GroupMoves("across", g, g, n, ms) BY <1>1, <2>2, <2>4, <2>6, <2>7, <2>9, <2>10 DEF GroupMoves
    <2>12. (\A c, d \in across' : c = d) /\ (\A k, l \in within' : k = l) /\ within' \subseteq MoveGroup /\ across' \subseteq MoveSearch
        BY <1>1, <2>2 DEF MovedTypeOK, PlaceInv
    <2>13. QED BY <2>3, <2>8, <2>11, <2>12, GroupMoves_Inv
<1>5. QED BY <1>2, <1>3, <1>4

\* What stays missing may be deleted; nothing is in the pipeline then.
LEMMA finalizeMoves_Inv == ASSUME MovedInv, NEW purge \in BOOLEAN, finalizeMoves(purge) PROVE MovedInv'
<1> USE DEF MovedInv
<1>1. PipelineEmpty /\ PipelineEmpty' /\ finalized' = TRUE
      /\ UNCHANGED <<unread, waiting, within, passedOn, across, processed, starred, before, takenBy, movedAlbums, movesCrossed>>
    BY DEF finalizeMoves, PipelineEmpty
<1>2. \A i \in Ids : rows'[i] = rows[i] \/ (rows[i] # NoTrack /\ rows[i].missing /\ rows'[i] = NoTrack)
    BY DEF finalizeMoves, Existing, MovedTypeOK
<1>3. rows' \in [Ids -> TrackRow \cup {NoTrack}] BY DEF finalizeMoves, Existing, MovedTypeOK
<1>4. MovedTypeOK' BY <1>1, <1>3 DEF MovedTypeOK
<1>5. BeforeInv' BY <1>1, <1>2 DEF BeforeInv, PipelineEmpty
<1>6. (\A p \in MovePlaces : GroupsAt(p)' = {}) /\ waiting' = {} /\ within' = {} /\ across' = {} BY <1>1, Places, PlacesNext DEF PipelineEmpty
<1>7. PlaceInv' BY <1>1, <1>6 DEF PlaceInv, PipelineEmpty, MovePlaces
<1>8. CopyInv' BY <1>6 DEF CopyInv, MovePlaces
<1>9. FileInv'
    <2>1. OneRowPerFile' BY <1>1, <1>2 DEF FileInv, OneRowPerFile, Existing
    <2>2. QED BY <1>6, <2>1 DEF FileInv
<1>10. MissInv'
    <2>1. ASSUME NEW m \in Ids \ Fresh, NEW n \in Fresh, Moves(m, n)' PROVE Followed(m)'
        <3>1. n \in Ids BY MovedAssumption DEF MovedAssumption
        <3>2. Moves(m, n) BY <1>1, <1>2, <2>1, <3>1 DEF Moves
        <3>3. Followed(m)
            <4>1. waiting \cup within = {} /\ unread = {} BY <1>1 DEF PipelineEmpty
            <4>2. QED BY <3>2, <4>1 DEF MissInv
        <3>4. QED BY <1>1, <1>2, <3>3 DEF Followed
    <2>2. \A p \in {"passedOn", "across"} : GroupsAt(p)' = {} BY <1>6, Places
    <2>3. QED BY <1>6, <2>1, <2>2 DEF MissInv
<1>11. StarInv'
    <2>1. /\ \A x \in OldAlbums : x \in starred' \/ \E z \in TrackAlbums : z # x /\ <<x, z>> \in movedAlbums'
          /\ \A y \in TrackAlbums \ OldAlbums : y \in processed' =>
              \E o \in OldAlbums : <<o, y>> \in movedAlbums' /\ (y \in starred' \/ \E z \in TrackAlbums : z # y /\ <<o, z>> \in movedAlbums')
          /\ \A o \in OldAlbums, z \in TrackAlbums : <<o, z>> \in movedAlbums' /\ o # z => z \in processed'
        BY <1>1, Zenon DEF StarInv
    <2>2. ASSUME NEW o \in OldAlbums, NEW z \in TrackAlbums, <<o, z>> \in movedAlbums'
          PROVE  \E i \in Ids \ Fresh : AlbumOf[i] = o /\ (rows'[i] = NoTrack \/ (~rows'[i].missing /\ rows'[i].album = z))
        <3>1. PICK i \in Ids \ Fresh : AlbumOf[i] = o /\ (rows[i] = NoTrack \/ (~rows[i].missing /\ rows[i].album = z))
            BY <1>1, <2>2 DEF StarInv
        <3>2. QED BY <1>2, <3>1
    <2>3. QED BY <2>1, <2>2 DEF StarInv
<1>12. QED BY <1>4, <1>5, <1>7, <1>8, <1>9, <1>10, <1>11

LEMMA MovedNext_Inv == ASSUME MovedInv, [MovedNext]_movedVars PROVE MovedInv'
<1>1. CASE \E l \in Libs : produceMissing(l) BY <1>1, produceMissing_Inv
<1>2. CASE TakeGroup BY <1>2, TakeGroup_Inv
<1>3. CASE processMissingTracks BY <1>3, processMissingTracks_Inv
<1>4. CASE GroupDone BY <1>4, GroupDone_Inv
<1>5. CASE TakePassed BY <1>5, TakePassed_Inv
<1>6. CASE findCrossLibraryMatch BY <1>6, findCrossLibraryMatch_Inv
<1>7. CASE processCrossLibraryMoves BY <1>7, processCrossLibraryMoves_Inv
<1>8. CASE \E purge \in BOOLEAN : finalizeMoves(purge) BY <1>8, finalizeMoves_Inv
<1>9. CASE UNCHANGED movedVars
    <2> USE <1>9 DEF movedVars, MovedInv
    <2>1. Still /\ UNCHANGED <<unread, finalized, waiting, within, passedOn, across>> BY DEF Still
    <2>2. MovedTypeOK' BY DEF MovedTypeOK
    <2>3. BeforeInv' /\ StarInv' /\ OneRowPerFile' BY <2>1, Still_Facts
    <2>4. \A p : GroupsAt(p)' = GroupsAt(p) BY <2>1 DEF GroupsAt
    <2>5. PlaceInv' BY <2>1, <2>4 DEF PlaceInv, PipelineEmpty, MovePlaces
    <2>6. CopyInv' BY <2>1, <2>4 DEF CopyInv, OldCopy, NewCopy, Gone, MovePlaces
    <2>7. FileInv' BY <2>1, <2>3 DEF FileInv, Own
    <2>8. MissInv' BY <2>1, <2>4, Still_Moves DEF MissInv
    <2>9. QED BY <2>2, <2>3, <2>5, <2>6, <2>7, <2>8
<1>10. QED BY <1>1, <1>2, <1>3, <1>4, <1>5, <1>6, <1>7, <1>8, <1>9 DEF MovedNext

LEMMA MovedInv_Holds == ASSUME MovedInv PROVE MovesAreFollowed
<1> USE DEF MovedInv
<1>1. OneRowPerFile BY DEF FileInv
<1>2. NoMoveIsMissed
    <2> SUFFICES ASSUME finalized, ~movesCrossed, NEW m \in Ids \ Fresh, NEW n \in Fresh \cap Existing,
                        before[m].missing, rows[n] = before[n], before[n].lib = before[m].lib, before[n].content = before[m].content
                 PROVE  m \in Existing /\ ~rows[m].missing
        BY DEF NoMoveIsMissed
    <2>1. PipelineEmpty BY DEF PlaceInv
    <2>2. Moves(m, n) BY DEF Moves, BeforeInv, Existing
    <2>3. waiting \cup within = {} /\ unread = {} BY <2>1 DEF PipelineEmpty
    <2>4. Followed(m) BY <2>2, <2>3 DEF MissInv
    <2>5. QED BY <2>4 DEF Followed, Existing
<1>3. AlbumsKeepTheirStars BY StarInv_Kept
<1>4. QED BY <1>1, <1>2, <1>3 DEF MovesAreFollowed

\* A song whose file moved keeps its row, no file has two rows, and albums keep
\* their stars, whatever the two stages of the phase take in turn
\* (scanner/phase_2_missing_tracks.go).
THEOREM MovesHold == MovedSpec => []MovesAreFollowed
<1>1. MovedInit => MovedInv BY MovedInit_Inv
<1>2. MovedInv /\ [MovedNext]_movedVars => MovedInv' BY MovedNext_Inv
<1>3. MovedInv => MovesAreFollowed BY MovedInv_Holds
<1>4. QED BY <1>1, <1>2, <1>3, PTL DEF MovedSpec

=============================================================================
