--------------------------- MODULE Accounts_proofs ---------------------------
(***************************************************************************)
(* Proofs about Accounts for every value of its constants.                 *)
(***************************************************************************)
EXTENDS Accounts, FiniteSetTheorems, TLAPS

Stage == {"idle", "sent", "limited", "read", "hashing", "hashed", "trusted", "answered"}

(* The variables of each page have values; entries are records.            *)
Shapes ==
    /\ stage \in [Page -> Stage]
    /\ DOMAIN request = Page /\ DOMAIN answer = Page /\ DOMAIN page = Page
    /\ entries \in [DOMAIN entries -> [start : Nat, count : Nat]]

(* Every slot is free or with one of finitely many handlers.               *)
SlotsHeld ==
    /\ free \in 0..Slots
    /\ IsFiniteSet(Hashing) /\ free + Cardinality(Hashing) = Slots

(* The table of the limiter is within its bounds.                          *)
TableBounded ==
    /\ DOMAIN entries \subseteq Client /\ Cardinality(DOMAIN entries) <= TableLimit
    /\ \A c \in DOMAIN entries : entries[c].start \in 0..now /\ entries[c].count \in 1..Limit

(* What an attempt carries on its way, and that whoever has passed the     *)
(* comparison of passwords is registered.                                  *)
Entering(p) == request[p].op \in {"login", "register"}
Attempting(p) ==
    /\ stage[p] = "sent" =>
          request[p].op \in {"login", "register", "open", "change", "logout"}
    /\ stage[p] = "sent" /\ Entering(p) => request[p].clock \in 0..now
    /\ stage[p] \in {"limited", "read", "hashing", "hashed"} => Entering(p)
    /\ stage[p] = "limited" => request[p].op = "login"
    /\ stage[p] \in {"sent", "limited", "read", "hashing", "hashed"} /\ Entering(p) =>
          request[p].user \in User
    /\ stage[p] = "sent" /\ Entering(p) => request[p].client \in Client
    /\ stage[p] \in {"read", "hashing", "hashed"} /\ request[p].op = "register" =>
          request[p].client \in Client
    /\ stage[p] \in {"read", "hashing"} /\ request[p].op = "login" /\ request[p].known =>
          request[p].user \in registered
    /\ stage[p] = "hashed" /\ request[p].op = "login" => request[p].user \in registered
    /\ stage[p] = "answered" /\ answer[p].outcome = "registered" =>
          request[p].user \in User /\ request[p].client \in Client
    /\ stage[p] = "answered" /\ answer[p].outcome = "session" =>
          answer[p].user \in User /\ answer[p].token \in 1..issued
AttemptsFit == \A p \in Page : Attempting(p)

(* The tables and the pages.                                               *)
Rows ==
    /\ now \in 0..LastTime
    /\ registered \subseteq User /\ issued \in 0..TokenLimit
    /\ \A s \in sessions : s.token \in 1..issued /\ s.user \in registered
    /\ jar \in 0..issued
    /\ \A p \in Page : page[p].user \in User \cup {Nobody} /\ page[p].csrf \in 0..issued

(* Every token was made for one account, to which the session with it, the *)
(* pages that were given it and the requests that carry it belong.         *)
Belongs(owner, p) ==
    /\ page[p].user # Nobody =>
          page[p].csrf \in 1..issued /\ page[p].user = owner[page[p].csrf]
    /\ stage[p] = "sent" /\ request[p].op \in {"change", "logout"} =>
          request[p].csrf \in 1..issued /\ request[p].shown = owner[request[p].csrf]
    /\ stage[p] = "answered" /\ answer[p].outcome = "session" =>
          answer[p].token \in 1..issued /\ answer[p].user = owner[answer[p].token]
    /\ stage[p] = "trusted" =>
          request[p].op = "logout" /\ request[p].user = request[p].shown
    /\ stage[p] = "answered" /\ request[p].op \in {"change", "logout"}
          /\ answer[p].outcome = "done" => answer[p].user = request[p].shown
Agrees(owner) ==
    /\ \A s \in sessions : s.token \in 1..issued /\ s.user = owner[s.token]
    /\ \A p \in Page : Belongs(owner, p)
Owned == \E owner \in [Nat -> User \cup {Nobody}] : Agrees(owner)

AccountsInv == Shapes /\ SlotsHeld /\ TableBounded /\ AttemptsFit /\ Rows /\ Owned

----------------------------------------------------------------------------
LEMMA InitAccountsInv == Init => AccountsInv
<1> SUFFICES ASSUME Init PROVE AccountsInv
  OBVIOUS
<1>1. Hashing = {} /\ IsFiniteSet({}) /\ Cardinality({}) = 0
  BY FS_EmptySet DEF Init, Hashing
<1>2. DOMAIN entries = {}
  BY DEF Init
<1>3. Shapes
  BY DEF Init, Shapes, Stage
<1>4. SlotsHeld
  BY <1>1, AccountsAssumption DEF Init, SlotsHeld
<1>5. TableBounded
  BY <1>1, <1>2, AccountsAssumption DEF TableBounded
<1>6. AttemptsFit
  BY DEF Init, AttemptsFit, Attempting
<1>7. Rows
  BY AccountsAssumption DEF Init, Rows, Blank, NoToken
<1>8. Owned
  <2> DEFINE nobody == [n \in Nat |-> Nobody]
  <2>1. Agrees(nobody)
    BY DEF Init, Agrees, Belongs, Blank
  <2> QED BY <2>1 DEF Owned
<1> QED BY <1>3, <1>4, <1>5, <1>6, <1>7, <1>8 DEF AccountsInv

(* Where neither a slot nor the place of a hashing handler changes.        *)
LEMMA SlotsUntouched ==
    ASSUME SlotsHeld, free' = free, Hashing' = Hashing
    PROVE  SlotsHeld'
BY DEF SlotsHeld

(* Where the limiter is left alone and the clock does not go back.         *)
LEMMA TableUntouched ==
    ASSUME TableBounded, entries' = entries, now \in Nat, now' \in Nat, now <= now'
    PROVE  TableBounded'
<1>1. \A c \in DOMAIN entries : entries[c].start \in 0..now'
  BY DEF TableBounded
<1> QED BY <1>1 DEF TableBounded

----------------------------------------------------------------------------
(* A step of one page or its handler, as most steps are.                   *)
Only(p) ==
    \A q \in Page \ {p} :
        /\ stage'[q] = stage[q] /\ request'[q] = request[q]
        /\ answer'[q] = answer[q] /\ page'[q] = page[q]

LEMMA OthersFit ==
    ASSUME AccountsInv, NEW p \in Page, Only(p), Attempting(p)', Rows', now' = now,
           registered \subseteq registered', issued <= issued'
    PROVE  AttemptsFit'
<1> SUFFICES ASSUME NEW q \in Page \ {p} PROVE Attempting(q)'
  BY DEF AttemptsFit
<1>1. Attempting(q) /\ issued \in Nat /\ issued' \in Nat
  BY AccountsAssumption DEF AccountsInv, AttemptsFit, Rows
<1>2. answer[q].token \in 1..issued => answer[q].token \in 1..issued'
  BY <1>1
<1> QED BY <1>1, <1>2 DEF Only, Attempting, Entering

LEMMA StepKeeps ==
    ASSUME AccountsInv, NEW p \in Page, Only(p),
           Shapes', SlotsHeld', TableBounded', Rows', Attempting(p)',
           now' = now, issued' = issued, registered \subseteq registered', sessions' \subseteq sessions,
           \A owner \in [Nat -> User \cup {Nobody}] : Agrees(owner) => Belongs(owner, p)'
    PROVE  AccountsInv'
<1>1. AttemptsFit'
  BY OthersFit, AccountsAssumption DEF AccountsInv, Rows
<1>2. PICK owner \in [Nat -> User \cup {Nobody}] : Agrees(owner)
  BY DEF AccountsInv, Owned
<1>3. \A q \in Page \ {p} : Belongs(owner, q)'
  BY <1>2 DEF Agrees, Belongs, Only
<1>4. Agrees(owner)'
  BY <1>2, <1>3 DEF Agrees
<1>5. Owned'
  BY <1>4 DEF Owned
<1> QED BY <1>1, <1>5 DEF AccountsInv

(* A step that leaves the server alone, or all of it but what is said.     *)
LEMMA QuietStep ==
    ASSUME AccountsInv, NEW p \in Page, Only(p), Shapes', UNCHANGED <<now, server>>,
           stage[p] # "hashing", stage'[p] # "hashing", Attempting(p)', jar' \in 0..issued,
           page'[p].user \in User \cup {Nobody}, page'[p].csrf \in 0..issued,
           \A owner \in [Nat -> User \cup {Nobody}] : Agrees(owner) => Belongs(owner, p)'
    PROVE  AccountsInv'
<1>1. Hashing' = Hashing
  BY DEF Hashing, Only
<1>2. SlotsHeld'
  BY <1>1, SlotsUntouched DEF AccountsInv, server
<1>3. TableBounded'
  BY DEF AccountsInv, TableBounded, server
<1>4. Rows'
  BY DEF AccountsInv, Rows, server, Only
<1> QED BY <1>2, <1>3, <1>4, StepKeeps DEF server

----------------------------------------------------------------------------
(* The browser sends.                                                      *)

LEMMA EnterKeeps ==
    ASSUME AccountsInv, NEW p \in Page, NEW op \in {"login", "register"},
           NEW u \in User, NEW c \in Client, Enter(p, op, u, c)
    PROVE  AccountsInv'
<1> USE DEF Enter, Send, Attempt, browser, server
<1>1. Only(p)
  BY DEF AccountsInv, Shapes, Only
<1>2. Shapes'
  BY DEF AccountsInv, Shapes, Stage
<1>3. Attempting(p)'
  BY AccountsAssumption DEF AccountsInv, Shapes, Rows, Attempting, Entering
<1>4. ASSUME NEW owner, Agrees(owner) PROVE Belongs(owner, p)'
  BY <1>4 DEF AccountsInv, Shapes, Agrees, Belongs
<1>5. stage[p] # "hashing" /\ stage'[p] # "hashing" /\ UNCHANGED <<now, server, jar, page>>
  BY DEF AccountsInv, Shapes
<1> QED BY <1>1, <1>2, <1>3, <1>4, <1>5, QuietStep DEF AccountsInv, Rows

LEMMA OpenKeeps ==
    ASSUME AccountsInv, NEW p \in Page, Open(p)
    PROVE  AccountsInv'
<1> USE DEF Open, Send, server, Blank, NoToken
<1>1. Only(p)
  BY DEF AccountsInv, Shapes, Only
<1>2. Shapes'
  BY DEF AccountsInv, Shapes, Stage
<1>3. Attempting(p)'
  BY DEF AccountsInv, Shapes, Attempting, Entering
<1>4. ASSUME NEW owner, Agrees(owner) PROVE Belongs(owner, p)'
  BY <1>4 DEF AccountsInv, Shapes, Belongs
<1>5. stage[p] # "hashing" /\ stage'[p] # "hashing" /\ UNCHANGED <<now, server, jar>>
  BY DEF AccountsInv, Shapes
<1>6. page'[p].user = Nobody /\ page'[p].csrf = 0
  BY DEF AccountsInv, Shapes
<1> QED BY <1>1, <1>2, <1>3, <1>4, <1>5, <1>6, QuietStep, AccountsAssumption
        DEF AccountsInv, Rows

LEMMA AskKeeps ==
    ASSUME AccountsInv, NEW p \in Page, NEW op \in {"change", "logout"}, Ask(p, op)
    PROVE  AccountsInv'
<1> USE DEF Ask, Send, browser, server
<1>1. Only(p)
  BY DEF AccountsInv, Shapes, Only
<1>2. Shapes'
  BY DEF AccountsInv, Shapes, Stage
<1>3. Attempting(p)'
  BY DEF AccountsInv, Shapes, Attempting, Entering
<1>4. ASSUME NEW owner, Agrees(owner) PROVE Belongs(owner, p)'
  BY <1>4 DEF AccountsInv, Shapes, Agrees, Belongs
<1>5. stage[p] # "hashing" /\ stage'[p] # "hashing" /\ UNCHANGED <<now, server, jar, page>>
  BY DEF AccountsInv, Shapes
<1> QED BY <1>1, <1>2, <1>3, <1>4, <1>5, QuietStep DEF AccountsInv, Rows
----------------------------------------------------------------------------
(* The answer arrives, or is lost.                                         *)

LEMMA ShowKeeps ==
    ASSUME AccountsInv, NEW p \in Page, Show(p)
    PROVE  AccountsInv'
<1> USE DEF Show, Rest, NoRequest, NoAnswer, server
<1>1. Only(p)
  BY DEF AccountsInv, Shapes, Only
<1>2. Shapes'
  BY DEF AccountsInv, Shapes, Stage
<1>3. Attempting(p)'
  BY DEF AccountsInv, Shapes, AttemptsFit, Attempting, Entering, Rows
<1>4. ASSUME NEW owner, Agrees(owner) PROVE Belongs(owner, p)'
  BY <1>4 DEF AccountsInv, Shapes, Agrees, Belongs
<1>5. stage[p] # "hashing" /\ stage'[p] # "hashing" /\ UNCHANGED <<now, server>>
  BY DEF AccountsInv, Shapes
<1>6. page'[p].user \in User \cup {Nobody} /\ page'[p].csrf \in 0..issued /\ jar' \in 0..issued
  BY DEF AccountsInv, Shapes, Rows, AttemptsFit, Attempting
<1> QED BY <1>1, <1>2, <1>3, <1>4, <1>5, <1>6, QuietStep

LEMMA EnterRegisteredKeeps ==
    ASSUME AccountsInv, NEW p \in Page, EnterRegistered(p)
    PROVE  AccountsInv'
<1> USE DEF EnterRegistered, Attempt, NoAnswer, browser, server
<1>1. Only(p)
  BY DEF AccountsInv, Shapes, Only
<1>2. Shapes'
  BY DEF AccountsInv, Shapes, Stage
<1>3. Attempting(p)'
  BY DEF AccountsInv, Shapes, AttemptsFit, Attempting, Entering, Rows
<1>4. ASSUME NEW owner, Agrees(owner) PROVE Belongs(owner, p)'
  BY <1>4 DEF AccountsInv, Shapes, Agrees, Belongs
<1>5. stage[p] # "hashing" /\ stage'[p] # "hashing" /\ UNCHANGED <<now, server>>
  BY DEF AccountsInv, Shapes
<1>6. page'[p].user \in User \cup {Nobody} /\ page'[p].csrf \in 0..issued /\ jar' \in 0..issued
  BY DEF AccountsInv, Shapes, Rows, AttemptsFit, Attempting
<1> QED BY <1>1, <1>2, <1>3, <1>4, <1>5, <1>6, QuietStep

LEMMA CloseKeeps ==
    ASSUME AccountsInv, NEW p \in Page, Close(p)
    PROVE  AccountsInv'
<1> USE DEF Close, Rest, NoRequest, NoAnswer, Blank, NoToken, browser, server
<1>1. Only(p)
  BY DEF AccountsInv, Shapes, Only
<1>2. Shapes'
  BY DEF AccountsInv, Shapes, Stage
<1>3. Attempting(p)'
  BY DEF AccountsInv, Shapes, AttemptsFit, Attempting, Entering, Rows
<1>4. ASSUME NEW owner, Agrees(owner) PROVE Belongs(owner, p)'
  BY <1>4 DEF AccountsInv, Shapes, Agrees, Belongs
<1>5. stage[p] # "hashing" /\ stage'[p] # "hashing" /\ UNCHANGED <<now, server>>
  BY DEF AccountsInv, Shapes
<1>6. page'[p].user \in User \cup {Nobody} /\ page'[p].csrf \in 0..issued /\ jar' \in 0..issued
  BY DEF AccountsInv, Shapes, Rows, AttemptsFit, Attempting
<1> QED BY <1>1, <1>2, <1>3, <1>4, <1>5, <1>6, QuietStep

LEMMA LoseKeeps ==
    ASSUME AccountsInv, NEW p \in Page, Lose(p)
    PROVE  AccountsInv'
<1> USE DEF Lose, Rest, NoRequest, NoAnswer, browser, server
<1>1. Only(p)
  BY DEF AccountsInv, Shapes, Only
<1>2. Shapes'
  BY DEF AccountsInv, Shapes, Stage
<1>3. Attempting(p)'
  BY DEF AccountsInv, Shapes, AttemptsFit, Attempting, Entering, Rows
<1>4. ASSUME NEW owner, Agrees(owner) PROVE Belongs(owner, p)'
  BY <1>4 DEF AccountsInv, Shapes, Agrees, Belongs
<1>5. stage[p] # "hashing" /\ stage'[p] # "hashing" /\ UNCHANGED <<now, server>>
  BY DEF AccountsInv, Shapes
<1>6. page'[p].user \in User \cup {Nobody} /\ page'[p].csrf \in 0..issued /\ jar' \in 0..issued
  BY DEF AccountsInv, Shapes, Rows, AttemptsFit, Attempting
<1> QED BY <1>1, <1>2, <1>3, <1>4, <1>5, <1>6, QuietStep

----------------------------------------------------------------------------
(* The server.                                                             *)

LEMMA ReadAccountKeeps ==
    ASSUME AccountsInv, NEW p \in Page, ReadAccount(p)
    PROVE  AccountsInv'
<1> USE DEF ReadAccount, browser, server
<1>1. Only(p)
  BY DEF AccountsInv, Shapes, Only
<1>2. Shapes'
  BY DEF AccountsInv, Shapes, Stage
<1>3. Attempting(p)'
  BY DEF AccountsInv, Shapes, AttemptsFit, Attempting, Entering, Rows
<1>4. ASSUME NEW owner, Agrees(owner) PROVE Belongs(owner, p)'
  BY <1>4 DEF AccountsInv, Shapes, Agrees, Belongs
<1>5. stage[p] # "hashing" /\ stage'[p] # "hashing" /\ UNCHANGED <<now, server>>
  BY DEF AccountsInv, Shapes
<1>6. page'[p].user \in User \cup {Nobody} /\ page'[p].csrf \in 0..issued /\ jar' \in 0..issued
  BY DEF AccountsInv, Shapes, Rows, AttemptsFit, Attempting
<1> QED BY <1>1, <1>2, <1>3, <1>4, <1>5, <1>6, QuietStep

(* A session that current_user finds belongs to the account its token was  *)
(* made for; the CSRF token of the request is the same token.              *)
LEMMA ServeKeeps ==
    ASSUME AccountsInv, NEW p \in Page, Serve(p)
    PROVE  AccountsInv'
<1> USE DEF Go, Reply, Refuse, browser, server
<1> DEFINE r == request[p]
<1>1. stage[p] = "sent" /\ r.op \in {"open", "change", "logout"} /\ UNCHANGED <<now, server, browser>>
  BY DEF Serve
<1>2. CASE Refuse(p)
  <2>1. Only(p) /\ Shapes'
    BY <1>1, <1>2 DEF AccountsInv, Shapes, Stage, Only
  <2>2. Attempting(p)'
    BY <1>1, <1>2 DEF AccountsInv, Shapes, Attempting
  <2>3. ASSUME NEW owner, Agrees(owner) PROVE Belongs(owner, p)'
    BY <2>3, <1>1, <1>2 DEF AccountsInv, Shapes, Agrees, Belongs
  <2> QED BY <1>1, <1>2, <2>1, <2>2, <2>3, QuietStep DEF AccountsInv, Shapes, Rows
<1>3. ASSUME NEW s \in Live(r.cookie), Genuine(r),
             \/ r.op = "open" /\ Reply(p, [outcome |-> "session", user |-> s.user, token |-> s.token])
             \/ r.op = "change" /\ Reply(p, [outcome |-> "done", user |-> s.user, token |-> s.token])
      PROVE  AccountsInv'
  <2>1. Only(p) /\ Shapes'
    BY <1>1, <1>3 DEF AccountsInv, Shapes, Stage, Only
  <2>2. s \in sessions /\ s.token = r.cookie
    BY <1>3 DEF Live
  <2>3. Attempting(p)'
    BY <1>1, <1>3, <2>2 DEF AccountsInv, Shapes, Rows, Attempting
  <2>4. ASSUME NEW owner, Agrees(owner) PROVE Belongs(owner, p)'
    <3>1. s.token \in 1..issued /\ s.user = owner[s.token] /\ Belongs(owner, p)
      BY <2>2, <2>4 DEF Agrees
    <3> QED BY <3>1, <2>2, <1>1, <1>3 DEF AccountsInv, Shapes, Belongs, Genuine
  <2> QED BY <1>1, <1>3, <2>1, <2>3, <2>4, QuietStep DEF AccountsInv, Shapes, Rows
<1>4. ASSUME NEW s \in Live(r.cookie), Genuine(r), r.op = "logout",
             request' = [request EXCEPT ![p] = [op |-> "logout", cookie |-> r.cookie,
                                                shown |-> r.shown, user |-> s.user]],
             stage' = [stage EXCEPT ![p] = "trusted"],
             UNCHANGED answer
      PROVE  AccountsInv'
  <2>1. Only(p) /\ Shapes'
    BY <1>1, <1>4 DEF AccountsInv, Shapes, Stage, Only
  <2>2. s \in sessions /\ s.token = r.cookie
    BY <1>4 DEF Live
  <2>3. Attempting(p)'
    BY <1>1, <1>4 DEF AccountsInv, Shapes, Attempting, Entering
  <2>4. ASSUME NEW owner, Agrees(owner) PROVE Belongs(owner, p)'
    <3>1. s.token \in 1..issued /\ s.user = owner[s.token] /\ Belongs(owner, p)
      BY <2>2, <2>4 DEF Agrees
    <3> QED BY <3>1, <2>2, <1>1, <1>4 DEF AccountsInv, Shapes, Belongs, Genuine
  <2> QED BY <1>1, <1>4, <2>1, <2>3, <2>4, QuietStep DEF AccountsInv, Shapes, Rows
<1> QED BY <1>1, <1>2, <1>3, <1>4 DEF Serve

LEMMA LogoutKeeps ==
    ASSUME AccountsInv, NEW p \in Page, Logout(p)
    PROVE  AccountsInv'
<1> USE DEF Logout, Reply, browser
<1>1. Only(p) /\ Shapes'
  BY DEF AccountsInv, Shapes, Stage, Only
<1>2. Hashing' = Hashing
  BY DEF AccountsInv, Shapes, Hashing
<1>3. SlotsHeld' /\ TableBounded'
  BY <1>2, SlotsUntouched DEF AccountsInv, TableBounded
<1>4. Attempting(p)'
  BY DEF AccountsInv, Shapes, Attempting
<1>5. Rows'
  BY DEF AccountsInv, Rows
<1>6. ASSUME NEW owner, Agrees(owner) PROVE Belongs(owner, p)'
  BY <1>6 DEF AccountsInv, Shapes, Agrees, Belongs
<1> QED BY <1>1, <1>3, <1>4, <1>5, <1>6, StepKeeps

LEMMA RegisterKeeps ==
    ASSUME AccountsInv, NEW p \in Page, Register(p)
    PROVE  AccountsInv'
<1> USE DEF Register, Reply, Refuse, browser
<1>1. Only(p) /\ Shapes'
  BY DEF AccountsInv, Shapes, Stage, Only
<1>2. Hashing' = Hashing
  BY DEF AccountsInv, Shapes, Hashing
<1>3. SlotsHeld' /\ TableBounded'
  BY <1>2, SlotsUntouched DEF AccountsInv, TableBounded
<1>4. request[p].user \in User /\ request[p].client \in Client
  BY DEF AccountsInv, AttemptsFit, Attempting, Entering
<1>5. Attempting(p)'
  BY <1>4 DEF AccountsInv, Shapes, Attempting
<1>6. Rows' /\ registered \subseteq registered'
  BY <1>4 DEF AccountsInv, Rows
<1>7. ASSUME NEW owner, Agrees(owner) PROVE Belongs(owner, p)'
  BY <1>7 DEF AccountsInv, Shapes, Agrees, Belongs
<1> QED BY <1>1, <1>3, <1>5, <1>6, <1>7, StepKeeps

(* The new token is greater than all others, so that its owner is free to  *)
(* be the account that logged in.                                          *)
LEMMA CreateSessionKeeps ==
    ASSUME AccountsInv, NEW p \in Page, CreateSession(p)
    PROVE  AccountsInv'
<1> USE DEF CreateSession, Reply, browser
<1> DEFINE u == request[p].user
<1>1. Only(p) /\ Shapes'
  BY DEF AccountsInv, Shapes, Stage, Only
<1>2. Hashing' = Hashing
  BY DEF AccountsInv, Shapes, Hashing
<1>3. SlotsHeld' /\ TableBounded'
  BY <1>2, SlotsUntouched DEF AccountsInv, TableBounded
<1>4. u \in User /\ u \in registered
  BY DEF AccountsInv, AttemptsFit, Attempting, Entering
<1>5. issued \in Nat /\ issued' = issued + 1 /\ issued' \in 0..TokenLimit
  BY AccountsAssumption DEF AccountsInv, Rows
<1>6. \A s \in sessions' : \/ s \in sessions
                           \/ s.token = issued + 1 /\ s.user = u
  OBVIOUS
<1>7. Rows'
  BY <1>4, <1>5, <1>6 DEF AccountsInv, Rows
<1>8. Attempting(p)'
  BY <1>4, <1>5 DEF AccountsInv, Shapes, Attempting
<1>9. AttemptsFit'
  BY <1>1, <1>5, <1>7, <1>8, OthersFit
<1>10. PICK owner \in [Nat -> User \cup {Nobody}] : Agrees(owner)
  BY DEF AccountsInv, Owned
<1>11. PICK later \in [Nat -> User \cup {Nobody}] :
             /\ later[issued + 1] = u
             /\ \A t \in 1..issued : t \in 1..issued' /\ later[t] = owner[t]
  <2> DEFINE extended == [owner EXCEPT ![issued + 1] = u]
  <2>1. extended \in [Nat -> User \cup {Nobody}] /\ extended[issued + 1] = u
        /\ \A t \in 1..issued : t \in 1..issued' /\ extended[t] = owner[t]
    BY <1>4, <1>5, <1>10
  <2> QED BY <2>1
<1>12. \A s \in sessions' : s.token \in 1..issued' /\ s.user = later[s.token]
  BY <1>5, <1>6, <1>10, <1>11 DEF Agrees
<1>13. ASSUME NEW q \in Page PROVE Belongs(later, q)'
  <2>1. Belongs(owner, q)
    BY <1>10 DEF Agrees
  <2>2. CASE q = p
    BY <2>1, <2>2, <1>5, <1>11 DEF AccountsInv, Shapes, Belongs
  <2>3. CASE q # p
    BY <2>1, <2>3, <1>1, <1>11 DEF Only, Belongs
  <2> QED BY <2>2, <2>3
<1>14. Owned'
  BY <1>11, <1>12, <1>13 DEF Owned, Agrees
<1> QED BY <1>1, <1>3, <1>7, <1>9, <1>14 DEF AccountsInv

----------------------------------------------------------------------------
(* The slots and the limiter.                                              *)

LEMMA TakeSlotKeeps ==
    ASSUME AccountsInv, NEW p \in Page, TakeSlot(p)
    PROVE  AccountsInv'
<1> USE DEF TakeSlot, Go, Reply, Refuse, browser, server
<1>1. Only(p) /\ Shapes'
  BY DEF AccountsInv, Shapes, Stage, Only
<1>2. SlotsHeld'
  <2>1. CASE free = 0
    <3>1. Hashing' = Hashing
      BY <2>1 DEF AccountsInv, Shapes, Hashing
    <3> QED BY <3>1, <2>1, SlotsUntouched DEF AccountsInv
  <2>2. CASE free # 0
    <3>1. p \notin Hashing /\ Hashing' = Hashing \cup {p}
      BY <2>2 DEF AccountsInv, Shapes, Hashing
    <3>2. IsFiniteSet(Hashing') /\ Cardinality(Hashing') = Cardinality(Hashing) + 1
      BY <3>1, FS_AddElement DEF AccountsInv, SlotsHeld
    <3>3. Cardinality(Hashing) \in Nat /\ Slots \in Nat
      BY FS_CardinalityType, AccountsAssumption DEF AccountsInv, SlotsHeld
    <3> QED BY <2>2, <3>2, <3>3 DEF AccountsInv, SlotsHeld
  <2> QED BY <2>1, <2>2
<1>3. TableBounded' /\ Rows'
  BY DEF AccountsInv, TableBounded, Rows
<1>4. Attempting(p)'
  BY DEF AccountsInv, Shapes, AttemptsFit, Attempting, Entering
<1>5. ASSUME NEW owner, Agrees(owner) PROVE Belongs(owner, p)'
  BY <1>5 DEF AccountsInv, Shapes, Agrees, Belongs
<1> QED BY <1>1, <1>2, <1>3, <1>4, <1>5, StepKeeps

LEMMA HashKeeps ==
    ASSUME AccountsInv, NEW p \in Page, Hash(p)
    PROVE  AccountsInv'
<1> USE DEF Hash, Go, Reply, Refuse, browser, server
<1>1. Only(p) /\ Shapes'
  BY DEF AccountsInv, Shapes, Stage, Only
<1>2. SlotsHeld'
  <2>1. p \in Hashing /\ Hashing' = Hashing \ {p}
    BY DEF AccountsInv, Shapes, Hashing
  <2>2. IsFiniteSet(Hashing') /\ Cardinality(Hashing') = Cardinality(Hashing) - 1
    BY <2>1, FS_RemoveElement DEF AccountsInv, SlotsHeld
  <2>3. Cardinality(Hashing) \in Nat /\ Cardinality(Hashing') \in Nat /\ Slots \in Nat
    BY <2>2, FS_CardinalityType, AccountsAssumption DEF AccountsInv, SlotsHeld
  <2> QED BY <2>2, <2>3 DEF AccountsInv, SlotsHeld
<1>3. TableBounded' /\ Rows'
  BY DEF AccountsInv, TableBounded, Rows
<1>4. Attempting(p)'
  BY DEF AccountsInv, Shapes, AttemptsFit, Attempting, Entering
<1>5. ASSUME NEW owner, Agrees(owner) PROVE Belongs(owner, p)'
  BY <1>5 DEF AccountsInv, Shapes, Agrees, Belongs
<1> QED BY <1>1, <1>2, <1>3, <1>4, <1>5, StepKeeps

(* The entries of a limiter that forgets by the clock of an attempt.       *)
LEMMA RecentBounded ==
    ASSUME AccountsInv, NEW t
    PROVE  /\ Recent(t) \subseteq DOMAIN entries
           /\ IsFiniteSet(Recent(t)) /\ Cardinality(Recent(t)) \in Nat
           /\ Cardinality(Recent(t)) <= TableLimit
<1>1. IsFiniteSet(DOMAIN entries)
  BY FS_Subset, AccountsAssumption DEF AccountsInv, TableBounded
<1>2. Recent(t) \subseteq DOMAIN entries
  BY DEF Recent
<1>3. IsFiniteSet(Recent(t)) /\ Cardinality(Recent(t)) <= Cardinality(DOMAIN entries)
  BY <1>1, <1>2, FS_Subset
<1>4. Cardinality(DOMAIN entries) \in Nat /\ Cardinality(Recent(t)) \in Nat
  BY <1>1, <1>3, FS_CardinalityType
<1> QED BY <1>2, <1>3, <1>4, AccountsAssumption DEF AccountsInv, TableBounded

LEMMA CheckLimitKeeps ==
    ASSUME AccountsInv, NEW p \in Page, CheckLimit(p)
    PROVE  AccountsInv'
<1> DEFINE c == request[p].client
           t == request[p].clock
           kept == [k \in Recent(t) |-> entries[k]]
           counted == [k \in Recent(t) \cup {c} |->
                         IF k # c THEN entries[k]
                         ELSE IF c \in Recent(t) THEN [entries[c] EXCEPT !.count = @ + 1]
                              ELSE [start |-> t, count |-> 1]]
<1>1. /\ stage[p] = "sent" /\ request[p].op \in {"login", "register"}
      /\ UNCHANGED <<now, browser, request, free, registered, sessions, issued>>
      /\ \/ entries' = kept /\ Refuse(p)
         \/ /\ ~TooMany(c, t) /\ entries' = counted /\ UNCHANGED answer
            /\ stage' = [stage EXCEPT ![p] = IF request[p].op = "login" THEN "limited" ELSE "read"]
  BY DEF CheckLimit, Go, Reply, Refuse
<1>2. c \in Client /\ t \in 0..now /\ request[p].user \in User
  BY <1>1 DEF AccountsInv, AttemptsFit, Attempting, Entering
<1>3. /\ Recent(t) \subseteq DOMAIN entries
      /\ IsFiniteSet(Recent(t)) /\ Cardinality(Recent(t)) \in Nat
      /\ Cardinality(Recent(t)) <= TableLimit
  BY RecentBounded
<1>4. now \in Nat /\ Limit \in Nat \ {0} /\ TableLimit \in Nat \ {0}
  BY AccountsAssumption DEF AccountsInv, Rows
<1>5. Only(p)
  BY <1>1 DEF AccountsInv, Shapes, Only, Refuse, Reply, browser
<1>6. \A k \in DOMAIN entries : entries[k] \in [start : 0..now, count : 1..Limit]
  BY <1>4 DEF AccountsInv, Shapes, TableBounded
<1>7. entries' \in [DOMAIN entries' -> [start : 0..now, count : 1..Limit]]
      /\ DOMAIN entries' \subseteq Client /\ Cardinality(DOMAIN entries') <= TableLimit
  <2>1. CASE entries' = kept
    <3>1. DOMAIN entries' = Recent(t)
      BY <2>1
    <3> QED BY <2>1, <3>1, <1>3, <1>6 DEF AccountsInv, TableBounded
  <2>2. CASE ~TooMany(c, t) /\ entries' = counted
    <3>1. DOMAIN entries' = Recent(t) \cup {c}
      BY <2>2
    <3>2. Cardinality(Recent(t) \cup {c}) <= TableLimit
      <4>1. Cardinality(Recent(t) \cup {c}) =
               IF c \in Recent(t) THEN Cardinality(Recent(t)) ELSE Cardinality(Recent(t)) + 1
        BY <1>3, FS_AddElement
      <4>2. c \notin Recent(t) => ~(Cardinality(Recent(t)) >= TableLimit)
        BY <2>2 DEF TooMany
      <4> QED BY <4>1, <4>2, <1>3, <1>4
    <3>3. c \in Recent(t) =>
             [entries[c] EXCEPT !.count = @ + 1] \in [start : 0..now, count : 1..Limit]
      <4> SUFFICES ASSUME c \in Recent(t)
                   PROVE  [entries[c] EXCEPT !.count = @ + 1] \in [start : 0..now, count : 1..Limit]
        OBVIOUS
      <4>1. entries[c] \in [start : 0..now, count : 1..Limit] /\ entries[c].count < Limit
        BY <2>2, <1>3, <1>4, <1>6 DEF TooMany
      <4> QED BY <4>1, <1>4
    <3>4. [start |-> t, count |-> 1] \in [start : 0..now, count : 1..Limit]
      BY <1>2, <1>4
    <3>5. \A k \in Recent(t) \cup {c} : counted[k] \in [start : 0..now, count : 1..Limit]
      BY <3>3, <3>4, <1>3, <1>6
    <3>6. entries' \in [DOMAIN entries' -> [start : 0..now, count : 1..Limit]]
      BY <3>1, <3>5, <2>2
    <3> QED BY <3>1, <3>2, <3>6, <1>2, <1>3 DEF AccountsInv, TableBounded
  <2> QED BY <1>1, <2>1, <2>2
<1> HIDE DEF kept, counted
<1>8. TableBounded'
  BY <1>1, <1>7 DEF TableBounded
<1>9. Shapes'
  <2>1. entries' \in [DOMAIN entries' -> [start : Nat, count : Nat]]
    BY <1>4, <1>7
  <2> QED BY <2>1, <1>1 DEF AccountsInv, Shapes, Stage, Refuse, Reply, browser
<1>10. SlotsHeld'
  <2>1. Hashing' = Hashing
    BY <1>1 DEF AccountsInv, Shapes, Hashing, Refuse, Reply
  <2> QED BY <2>1, <1>1, SlotsUntouched DEF AccountsInv
<1>11. Rows'
  BY <1>1 DEF AccountsInv, Rows, browser
<1>12. Attempting(p)'
  BY <1>1, <1>2 DEF AccountsInv, Shapes, Attempting, Entering, Refuse, Reply
<1>13. ASSUME NEW owner, Agrees(owner) PROVE Belongs(owner, p)'
  BY <1>1, <1>13 DEF AccountsInv, Shapes, Agrees, Belongs, Refuse, Reply, browser
<1> QED BY <1>1, <1>5, <1>8, <1>9, <1>10, <1>11, <1>12, <1>13, StepKeeps

(* A later moment is a bound for every clock that was read.                *)
LEMMA TickKeeps ==
    ASSUME AccountsInv, Tick
    PROVE  AccountsInv'
<1> USE DEF Tick, browser, server
<1>1. now \in Nat /\ now' = now + 1 /\ now' \in 0..LastTime
  BY AccountsAssumption DEF AccountsInv, Rows
<1>2. Shapes' /\ SlotsHeld'
  BY DEF AccountsInv, Shapes, SlotsHeld, Hashing
<1>3. TableBounded'
  BY <1>1, TableUntouched DEF AccountsInv
<1>4. AttemptsFit'
  <2> SUFFICES ASSUME NEW q \in Page PROVE Attempting(q)'
    BY DEF AttemptsFit
  <2>1. Attempting(q) /\ \A t \in 0..now : t \in 0..now'
    BY <1>1 DEF AccountsInv, AttemptsFit
  <2> QED BY <2>1 DEF Attempting, Entering
<1>5. Rows'
  BY <1>1 DEF AccountsInv, Rows
<1>6. Owned'
  BY DEF AccountsInv, Owned, Agrees, Belongs
<1> QED BY <1>2, <1>3, <1>4, <1>5, <1>6 DEF AccountsInv

LEMMA StutterKeeps ==
    ASSUME AccountsInv, UNCHANGED vars
    PROVE  AccountsInv'
BY DEF vars, browser, server, AccountsInv, Shapes, SlotsHeld, Hashing, TableBounded,
       AttemptsFit, Attempting, Entering, Rows, Owned, Agrees, Belongs

LEMMA NextAccountsInv == AccountsInv /\ [Next]_vars => AccountsInv'
<1> SUFFICES ASSUME AccountsInv, [Next]_vars PROVE AccountsInv'
  OBVIOUS
<1>1. CASE Tick
  BY <1>1, TickKeeps
<1>2. ASSUME NEW p \in Page, NEW op \in {"login", "register"}, NEW u \in User, NEW c \in Client,
             Enter(p, op, u, c)
      PROVE  AccountsInv'
  BY <1>2, EnterKeeps
<1>3. ASSUME NEW p \in Page, Open(p) \/ Ask(p, "change") \/ Ask(p, "logout")
      PROVE  AccountsInv'
  BY <1>3, OpenKeeps, AskKeeps
<1>4. ASSUME NEW p \in Page, Handle(p)
      PROVE  AccountsInv'
  BY <1>4, CheckLimitKeeps, ReadAccountKeeps, TakeSlotKeeps, HashKeeps, RegisterKeeps,
     CreateSessionKeeps, ServeKeeps, LogoutKeeps DEF Handle
<1>5. ASSUME NEW p \in Page, Show(p) \/ EnterRegistered(p) \/ Close(p) \/ Lose(p)
      PROVE  AccountsInv'
  BY <1>5, ShowKeeps, EnterRegisteredKeeps, CloseKeeps, LoseKeeps
<1>6. CASE UNCHANGED vars
  BY <1>6, StutterKeeps
<1> QED BY <1>1, <1>2, <1>3, <1>4, <1>5, <1>6 DEF Next

LEMMA AccountsInvAlways == Spec => []AccountsInv
BY InitAccountsInv, NextAccountsInv, PTL DEF Spec

(* The slots come back, the limiter keeps within its bound, and the tables *)
(* and pages have their types, for any number of pages, clients, slots and *)
(* users and every limit.                                                  *)
THEOREM AccountsTypes == Spec => []TypeOK
<1>1. AccountsInv => TypeOK
  BY DEF AccountsInv, SlotsHeld, TableBounded, Rows, TypeOK
<1> QED BY <1>1, AccountsInvAlways, PTL

(* No change is told as made that was made to another account than the one *)
(* its page shows, for any number of pages, users and sessions.            *)
THEOREM AccountsChangesReachOwn == Spec => []ChangesReachOwnAccount
<1>1. AccountsInv => ChangesReachOwnAccount
  BY DEF AccountsInv, Owned, Agrees, Belongs, ChangesReachOwnAccount
<1> QED BY <1>1, AccountsInvAlways, PTL

----------------------------------------------------------------------------
(* The limiter.  The attempts of a client let through are counted from the *)
(* history, as the size of a set with one mark per attempt.                *)

Marks(f, n) == UNION {{t} \X (1..f[t]) : t \in 0..n}
Marked(f, n, from, to) == {a \in Marks(f, n) : from <= a[1] /\ a[1] <= to}
Count(f, n, from, to) == Cardinality(Marked(f, n, from, to))
Tallies == [0..LastTime -> Nat]

LEMMA AttemptsAreCounted ==
    ASSUME NEW f, NEW n, NEW from, NEW to
    PROVE  Cardinality(UNION {{t} \X (1..f[t]) : t \in {m \in 0..n : from <= m /\ m <= to}})
             = Count(f, n, from, to)
<1>1. UNION {{t} \X (1..f[t]) : t \in {m \in 0..n : from <= m /\ m <= to}} = Marked(f, n, from, to)
  BY DEF Marked, Marks
<1> QED BY <1>1 DEF Count

LEMMA AttemptsCount ==
    /\ \A c, from, to : Attempts(c, from, to) = Count(passed[c], now, from, to)
    /\ \A c, from, to : Attempts(c, from, to)' = Count(passed'[c], now', from, to)
BY AttemptsAreCounted DEF Attempts

LEMMA MarksFinite ==
    ASSUME NEW f \in Tallies, NEW n \in 0..LastTime, NEW from, NEW to
    PROVE  /\ IsFiniteSet(Marks(f, n)) /\ IsFiniteSet(Marked(f, n, from, to))
           /\ Count(f, n, from, to) \in Nat
<1> DEFINE bags == {{t} \X (1..f[t]) : t \in 0..n}
           g == [t \in 0..n |-> {t} \X (1..f[t])]
<1>1. n \in Nat /\ IsFiniteSet(0..n)
  BY AccountsAssumption, FS_Interval
<1>2. g \in Surjection(0..n, bags)
  BY DEF Surjection
<1>3. IsFiniteSet(bags)
  BY <1>1, <1>2, FS_Surjection
<1>4. \A t \in 0..n : IsFiniteSet({t} \X (1..f[t]))
  <2> TAKE t \in 0..n
  <2>1. f[t] \in Int
    BY <1>1, AccountsAssumption DEF Tallies
  <2>2. IsFiniteSet(1..f[t])
    BY <2>1, FS_Interval
  <2>3. IsFiniteSet({t})
    BY FS_Singleton
  <2> QED BY <2>2, <2>3, FS_Product
<1>5. IsFiniteSet(UNION bags)
  <2>1. \A B \in bags : IsFiniteSet(B)
    BY <1>4
  <2> HIDE DEF bags
  <2> QED BY <1>3, <2>1, FS_UNION
<1>6. IsFiniteSet(Marks(f, n))
  BY <1>5 DEF Marks
<1>7. Marked(f, n, from, to) \subseteq Marks(f, n)
  BY DEF Marked
<1>8. IsFiniteSet(Marked(f, n, from, to))
  BY <1>6, <1>7, FS_Subset
<1> QED BY <1>6, <1>8, FS_CardinalityType DEF Count

(* A wider stretch holds no fewer attempts; one that has not begun none.   *)
LEMMA CountGrows ==
    ASSUME NEW f \in Tallies, NEW n \in 0..LastTime, NEW from \in Int, NEW to \in Int,
           NEW wider \in Int, wider <= from, NEW later \in Int, to <= later
    PROVE  Count(f, n, from, to) <= Count(f, n, wider, later)
<1>1. Marked(f, n, from, to) \subseteq Marked(f, n, wider, later)
  BY AccountsAssumption DEF Marked, Marks
<1> QED BY <1>1, MarksFinite, FS_Subset DEF Count

LEMMA CountOfNone ==
    ASSUME NEW f, NEW n \in Nat, NEW from \in Int, NEW to \in Int, n < from \/ to < from
    PROVE  Count(f, n, from, to) = 0
<1>1. Marked(f, n, from, to) = {}
  BY DEF Marked, Marks
<1> QED BY <1>1, FS_EmptySet DEF Count

(* The future holds no attempts.                                           *)
LEMMA CountUntilNow ==
    ASSUME NEW f, NEW n \in Nat, NEW from \in Int, NEW to \in Int, n <= to
    PROVE  Count(f, n, from, to) = Count(f, n, from, n)
<1>1. Marked(f, n, from, to) = Marked(f, n, from, n)
  BY DEF Marked, Marks
<1> QED BY <1>1 DEF Count

LEMMA CountLater ==
    ASSUME NEW f, NEW n \in Nat, f[n + 1] = 0, NEW from, NEW to
    PROVE  Count(f, n + 1, from, to) = Count(f, n, from, to)
<1>1. 0..(n + 1) = (0..n) \cup {n + 1}
  OBVIOUS
<1>2. {n + 1} \X (1..f[n + 1]) = {}
  OBVIOUS
<1>3. Marks(f, n + 1) = Marks(f, n)
  BY <1>1, <1>2 DEF Marks
<1> QED BY <1>3 DEF Marked, Count

(* One more attempt at this moment.                                        *)
LEMMA CountMore ==
    ASSUME NEW f \in Tallies, NEW n \in 0..LastTime, NEW from \in Int, NEW to \in Int,
           NEW g \in Tallies, g[n] = f[n] + 1, \A t \in (0..LastTime) \ {n} : g[t] = f[t]
    PROVE  Count(g, n, from, to) =
             IF from <= n /\ n <= to THEN Count(f, n, from, to) + 1 ELSE Count(f, n, from, to)
<1> DEFINE new == <<n, f[n] + 1>>
<1>1. n \in Nat /\ f[n] \in Nat /\ g[n] = f[n] + 1 /\ \A t \in 0..n : t # n => g[t] = f[t]
  <2>1. LastTime \in Nat
    BY AccountsAssumption
  <2>2. n \in Nat /\ \A t \in 0..n : t \in 0..LastTime
    BY <2>1
  <2>3. f[n] \in Nat
    BY DEF Tallies
  <2> QED BY <2>2, <2>3
<1>2. 1..g[n] = (1..f[n]) \cup {f[n] + 1}
  BY <1>1
<1>3. Marks(g, n) = Marks(f, n) \cup {new}
  <2>1. \A t \in 0..n : \A k : k \in 1..g[t] <=> (k \in 1..f[t] \/ (t = n /\ k = f[n] + 1))
    BY <1>1, <1>2
  <2>2. \A a \in Marks(g, n) : a \in Marks(f, n) \cup {new}
    BY <2>1 DEF Marks
  <2>3. \A a \in Marks(f, n) : a \in Marks(g, n)
    BY <2>1 DEF Marks
  <2>4. new \in Marks(g, n)
    BY <2>1, <1>1 DEF Marks
  <2> QED BY <2>2, <2>3, <2>4
<1>4. new \notin Marks(f, n) /\ new[1] = n
  BY <1>1 DEF Marks
<1> HIDE DEF new
<1>5. IsFiniteSet(Marked(f, n, from, to)) /\ Count(f, n, from, to) \in Nat
  BY MarksFinite
<1>6. CASE from <= n /\ n <= to
  <2>1. Marked(g, n, from, to) = Marked(f, n, from, to) \cup {new}
    BY <1>3, <1>4, <1>6 DEF Marked
  <2>2. new \notin Marked(f, n, from, to)
    BY <1>4 DEF Marked
  <2>3. Cardinality(Marked(f, n, from, to) \cup {new}) = Cardinality(Marked(f, n, from, to)) + 1
    BY <1>5, <2>2, FS_AddElement
  <2> QED BY <1>6, <2>1, <2>3 DEF Count
<1>7. CASE ~(from <= n /\ n <= to)
  <2>1. Marked(g, n, from, to) = Marked(f, n, from, to)
    BY <1>3, <1>4, <1>7 DEF Marked
  <2> QED BY <1>7, <2>1 DEF Count
<1> QED BY <1>6, <1>7

(* How many attempts of a client were let through from a moment on.        *)
Since(c, from) == Count(passed[c], now, from, now)

(* An attempt reaches the lock at most Delay after its clock was read.     *)
Prompt ==
    \A p \in Page : stage[p] = "sent" /\ Entering(p) => now <= request[p].clock + Delay

(* The history is one of attempts in the past.                             *)
Counted ==
    /\ passed \in [Client -> Tallies]
    /\ \A c \in Client, t \in 0..LastTime : t > now => passed[c][t] = 0

(* An entry counts attempts since its start, and its first attempt came    *)
(* no later than Delay after that.                                         *)
Remembered ==
    \A c \in DOMAIN entries, from \in Int :
        /\ from <= entries[c].start => entries[c].count <= Since(c, from)
        /\ entries[c].start + Delay < from => Since(c, from) <= entries[c].count - 1

(* Of attempts that an entry no longer counts, any stretch that is not yet *)
(* over misses the first, so that it has less than one allowance of them.  *)
Carry(c) == IF c \in DOMAIN entries THEN entries[c].count ELSE 0
Carried ==
    \A c \in Client, from \in Int :
        now - (Window - Delay) < from => Since(c, from) <= Carry(c) + Limit - 1

LimiterInv == Prompt /\ Counted /\ Remembered /\ Carried /\ AttemptsBounded

LEMMA LimiterTypes ==
    ASSUME AccountsInv
    PROVE  /\ now \in Nat /\ now \in 0..LastTime /\ LastTime \in Nat /\ Delay \in Nat
           /\ Limit \in Nat \ {0} /\ Window \in Nat \ {0} /\ TableLimit \in Nat \ {0}
           /\ \A c \in DOMAIN entries : /\ c \in Client
                                        /\ entries[c].start \in Nat /\ entries[c].start <= now
                                        /\ entries[c].count \in Nat /\ entries[c].count >= 1
                                        /\ entries[c].count <= Limit
<1>1. LastTime \in Nat /\ Delay \in Nat /\ Limit \in Nat \ {0} /\ Window \in Nat \ {0}
      /\ TableLimit \in Nat \ {0}
  BY AccountsAssumption
<1>2. now \in 0..LastTime
  BY DEF AccountsInv, Rows
<1>3. \A c \in DOMAIN entries : /\ c \in Client /\ entries[c].start \in 0..now
                                /\ entries[c].count \in 1..Limit
  BY DEF AccountsInv, TableBounded
<1> QED BY <1>1, <1>2, <1>3

LEMMA SinceTypes ==
    ASSUME AccountsInv, Counted, NEW c \in Client, NEW from
    PROVE  Since(c, from) \in Nat
BY LimiterTypes, MarksFinite DEF Counted, Since

(* What the limiter has let through stays bounded when no attempt passes.  *)
LEMMA InitLimiterInv ==
    ASSUME Init
    PROVE  LimiterInv
<1>1. AccountsInv /\ now = 0 /\ DOMAIN entries = {}
  BY InitAccountsInv DEF Init
<1>2. Counted
  BY DEF Init, Counted, Tallies
<1>3. ASSUME NEW c \in Client, NEW from \in Int, NEW to \in Int
      PROVE  Count(passed[c], now, from, to) = 0
  <2>1. Marks(passed[c], now) = {}
    <3>1. \A t \in 0..now : 1..passed[c][t] = {}
      BY <1>1, LimiterTypes DEF Init
    <3> QED BY <3>1 DEF Marks
  <2>2. Marked(passed[c], now, from, to) = {}
    BY <2>1 DEF Marked
  <2> QED BY <2>2, FS_EmptySet DEF Count
<1>4. Prompt /\ Remembered
  BY <1>1 DEF Init, Prompt, Remembered
<1>5. Carried
  BY <1>1, <1>3, LimiterTypes DEF Carried, Carry, Since
<1>6. AttemptsBounded
  <2>1. \A c \in Client, t \in 0..now : Attempts(c, t, t + Window - Delay - 1) = 0
    BY <1>1, <1>3, LimiterTypes, AttemptsCount
  <2> QED BY <1>1, <2>1, LimiterTypes DEF AttemptsBounded
<1> QED BY <1>2, <1>4, <1>5, <1>6 DEF LimiterInv

LEMMA QuietLimiter ==
    ASSUME LimiterInv, UNCHANGED <<now, entries, passed>>, Prompt'
    PROVE  LimiterInv'
<1>1. \A c, from : Since(c, from)' = Since(c, from)
  BY DEF Since
<1>2. \A c, from, to : Attempts(c, from, to)' = Attempts(c, from, to)
  BY DEF Attempts
<1>3. Counted' /\ Remembered'
  BY <1>1 DEF LimiterInv, Counted, Remembered
<1>4. \A c : Carry(c)' = Carry(c)
  BY DEF Carry
<1>5. Carried'
  BY <1>1, <1>4 DEF LimiterInv, Carried
<1>6. AttemptsBounded'
  BY <1>2 DEF LimiterInv, AttemptsBounded
<1> QED BY <1>3, <1>5, <1>6 DEF LimiterInv

(* Every step but the limiter's own and the clock's leaves the limiter and *)
(* starts attempts, if any, with the clock of the moment.                  *)
LEMMA QuietSteps ==
    ASSUME AccountsInv, LimiterInv, [Next]_vars, ~Tick, \A p \in Page : ~CheckLimit(p)
    PROVE  LimiterInv'
<1> USE DEF server, browser, vars, Attempt, Go, Reply, Refuse, Rest
<1>1. now \in Nat /\ Delay \in Nat
  BY LimiterTypes
<1>2. ASSUME NEW p \in Page, UNCHANGED <<now, entries, passed>>, Only(p),
             stage'[p] = "sent" /\ Entering(p)' => request'[p].clock = now
      PROVE  LimiterInv'
  <2>1. Prompt'
    BY <1>1, <1>2 DEF LimiterInv, Prompt, Entering, Only
  <2> QED BY <1>2, <2>1, QuietLimiter
<1>3. ASSUME NEW p \in Page, NEW op \in {"login", "register"}, NEW u \in User, NEW c \in Client,
             Enter(p, op, u, c)
      PROVE  LimiterInv'
  BY <1>2, <1>3 DEF AccountsInv, Shapes, Only, Enter, Send
<1>4. ASSUME NEW p \in Page, Open(p) \/ Ask(p, "change") \/ Ask(p, "logout")
      PROVE  LimiterInv'
  BY <1>2, <1>4 DEF AccountsInv, Shapes, Only, Open, Ask, Send, Entering
<1>5. ASSUME NEW p \in Page, Show(p) \/ Close(p) \/ Lose(p)
      PROVE  LimiterInv'
  BY <1>2, <1>5 DEF AccountsInv, Shapes, Only, Show, Close, Lose
<1>6. ASSUME NEW p \in Page, EnterRegistered(p)
      PROVE  LimiterInv'
  BY <1>2, <1>6 DEF AccountsInv, Shapes, Only, EnterRegistered
<1>7. ASSUME NEW p \in Page, ReadAccount(p) \/ TakeSlot(p) \/ Hash(p)
      PROVE  LimiterInv'
  BY <1>2, <1>7 DEF AccountsInv, Shapes, Only, ReadAccount, TakeSlot, Hash
<1>8. ASSUME NEW p \in Page, Register(p) \/ CreateSession(p) \/ Logout(p)
      PROVE  LimiterInv'
  BY <1>2, <1>8 DEF AccountsInv, Shapes, Only, Register, CreateSession, Logout
<1>9. ASSUME NEW p \in Page, Serve(p)
      PROVE  LimiterInv'
  <2>1. UNCHANGED <<now, entries, passed>> /\ Only(p) /\ stage'[p] # "sent"
    BY <1>9 DEF AccountsInv, Shapes, Only, Serve
  <2> QED BY <1>2, <2>1
<1>10. CASE UNCHANGED vars
  <2>1. Prompt'
    BY <1>10 DEF LimiterInv, Prompt, Entering
  <2> QED BY <1>10, <2>1, QuietLimiter
<1> QED BY <1>3, <1>4, <1>5, <1>6, <1>7, <1>8, <1>9, <1>10 DEF Next, Handle

(* A moment passes.                                                        *)
LEMMA TickLimiter ==
    ASSUME AccountsInv, LimiterInv, Tick
    PROVE  LimiterInv'
<1>1. /\ now \in Nat /\ LastTime \in Nat /\ Delay \in Nat /\ Window \in Nat /\ Limit \in Nat \ {0}
      /\ now' = now + 1 /\ now + 1 <= LastTime /\ UNCHANGED <<entries, passed, request, stage>>
  BY LimiterTypes DEF Tick, server
<1>2. Counted /\ Remembered /\ Carried
  BY DEF LimiterInv
<1>3. ASSUME NEW c \in Client, NEW from \in Int, NEW to \in Int
      PROVE  Count(passed[c], now + 1, from, to) = Count(passed[c], now, from, to)
  <2>1. passed[c][now + 1] = 0
    BY <1>1, <1>2 DEF Counted
  <2> QED BY <1>1, <2>1, CountLater
<1>4. ASSUME NEW c \in Client, NEW from \in Int
      PROVE  Since(c, from)' = Since(c, from)
  <2>1. Since(c, from)' = Count(passed[c], now + 1, from, now + 1)
    BY <1>1 DEF Since
  <2>2. Count(passed[c], now + 1, from, now + 1) = Count(passed[c], now, from, now + 1)
    BY <1>1, <1>3
  <2>3. Count(passed[c], now, from, now + 1) = Count(passed[c], now, from, now)
    BY <1>1, CountUntilNow
  <2> QED BY <2>1, <2>2, <2>3 DEF Since
<1>5. Prompt'
  <2>1. \A p \in Page : stage[p] = "sent" /\ Entering(p) => now < request[p].clock + Delay
                                                           /\ request[p].clock \in Nat
    BY <1>1 DEF Tick, Waiting, Entering, AccountsInv, AttemptsFit, Attempting
  <2> QED BY <1>1, <2>1 DEF Prompt, Entering
<1>6. Counted'
  BY <1>1, <1>2 DEF Counted
<1>7. Remembered'
  BY <1>1, <1>2, <1>4, LimiterTypes DEF Remembered
<1>8. Carried'
  <2>1. \A c : Carry(c)' = Carry(c)
    BY <1>1 DEF Carry
  <2>2. \A from \in Int : now' - (Window - Delay) < from => now - (Window - Delay) < from
    BY <1>1
  <2> QED BY <1>2, <1>4, <2>1, <2>2 DEF Carried
<1>9. AttemptsBounded'
  <2> SUFFICES ASSUME NEW c \in Client, NEW t \in 0..now'
               PROVE  Attempts(c, t, t + Window - Delay - 1)' < 2 * Limit
    BY <1>1 DEF AttemptsBounded
  <2>1. t \in Int /\ t + Window - Delay - 1 \in Int
    BY <1>1
  <2>2. Attempts(c, t, t + Window - Delay - 1)'
          = Count(passed[c], now, t, t + Window - Delay - 1)
    BY <1>1, <1>3, <2>1, AttemptsCount
  <2>3. CASE t \in 0..now
    BY <2>2, <2>3, AttemptsCount DEF LimiterInv, AttemptsBounded
  <2>4. CASE t = now + 1
    <3>1. Count(passed[c], now, t, t + Window - Delay - 1) = 0
      BY <1>1, <2>1, <2>4, CountOfNone
    <3> QED BY <1>1, <2>2, <3>1
  <2> QED BY <1>1, <2>3, <2>4
<1> QED BY <1>5, <1>6, <1>7, <1>8, <1>9 DEF LimiterInv

(* A check forgets the entries whose window is over by its clock.  What    *)
(* they counted from a moment that is still young enough to matter missed  *)
(* their first attempt.                                                    *)
LEMMA ForgottenCarry ==
    ASSUME AccountsInv, LimiterInv, NEW t \in 0..now, NEW c \in Client, NEW from \in Int,
           now - (Window - Delay) < from
    PROVE  Since(c, from) <= (IF c \in Recent(t) THEN entries[c].count ELSE 0) + Limit - 1
<1>1. now \in Nat /\ Delay \in Nat /\ Window \in Nat /\ Limit \in Nat \ {0} /\ t \in Nat /\ t <= now
  BY LimiterTypes
<1>2. Since(c, from) <= Carry(c) + Limit - 1
  BY DEF LimiterInv, Carried
<1>3. CASE c \in Recent(t) \/ c \notin DOMAIN entries
  BY <1>2, <1>3 DEF Carry, Recent
<1>4. CASE c \in DOMAIN entries /\ c \notin Recent(t)
  <2>1. /\ entries[c].start \in Nat /\ entries[c].count \in Nat /\ entries[c].count <= Limit
        /\ ~(entries[c].start > t - Window)
    BY <1>4, LimiterTypes DEF Recent
  <2>2. entries[c].start + Delay < from
    BY <1>1, <2>1
  <2>3. Since(c, from) <= entries[c].count - 1
    BY <1>4, <2>2 DEF LimiterInv, Remembered
  <2>4. Since(c, from) \in Nat
    BY SinceTypes DEF LimiterInv
  <2> QED BY <1>1, <1>4, <2>1, <2>3, <2>4
<1> QED BY <1>3, <1>4

LEMMA RefusedLimiter ==
    ASSUME AccountsInv, LimiterInv, NEW p \in Page, NEW t \in 0..now,
           entries' = [k \in Recent(t) |-> entries[k]],
           UNCHANGED <<now, passed, request>>, Only(p), stage'[p] # "sent"
    PROVE  LimiterInv'
<1>1. \A c, from : Since(c, from)' = Since(c, from)
  BY DEF Since
<1>2. \A c, from, to : Attempts(c, from, to)' = Attempts(c, from, to)
  BY DEF Attempts
<1>3. DOMAIN entries' = Recent(t) /\ Recent(t) \subseteq DOMAIN entries
      /\ \A c \in Recent(t) : entries'[c] = entries[c]
  BY DEF Recent
<1>4. Prompt' /\ Counted'
  BY DEF LimiterInv, Prompt, Counted, Entering, Only
<1>5. Remembered'
  BY <1>1, <1>3 DEF LimiterInv, Remembered
<1>6. Carried'
  <2>1. \A c : Carry(c)' = IF c \in Recent(t) THEN entries[c].count ELSE 0
    BY <1>3 DEF Carry
  <2> QED BY <1>1, <2>1, ForgottenCarry DEF Carried
<1>7. AttemptsBounded'
  BY <1>2 DEF LimiterInv, AttemptsBounded
<1> QED BY <1>4, <1>5, <1>6, <1>7 DEF LimiterInv

(* An attempt is let through and counted, in an entry that is still open   *)
(* or in a new one.                                                        *)
LEMMA PassedLimiter ==
    ASSUME AccountsInv, LimiterInv, NEW p \in Page, NEW t \in 0..now, NEW c \in Client,
           now <= t + Delay, ~TooMany(c, t),
           entries' = [k \in Recent(t) \cup {c} |->
                         IF k # c THEN entries[k]
                         ELSE IF c \in Recent(t) THEN [entries[c] EXCEPT !.count = @ + 1]
                              ELSE [start |-> t, count |-> 1]],
           passed' = [passed EXCEPT ![c][now] = @ + 1],
           UNCHANGED <<now, request>>, Only(p), stage'[p] # "sent"
    PROVE  LimiterInv'
<1>1. /\ now \in Nat /\ now \in 0..LastTime /\ LastTime \in Nat /\ Delay \in Nat
      /\ Window \in Nat /\ Limit \in Nat \ {0} /\ t \in Nat /\ t <= now
  BY LimiterTypes
<1>2. Counted /\ Remembered /\ Carried /\ AttemptsBounded
  BY DEF LimiterInv
<1>3. Recent(t) \subseteq DOMAIN entries /\ DOMAIN entries' = Recent(t) \cup {c}
      /\ \A k \in Recent(t) : k # c => entries'[k] = entries[k]
  BY DEF Recent
<1>4. /\ c \in Recent(t) => /\ entries'[c].start = entries[c].start
                            /\ entries'[c].count = entries[c].count + 1
                            /\ entries[c].count < Limit
      /\ c \notin Recent(t) => entries'[c].start = t /\ entries'[c].count = 1
  <2>1. c \in Recent(t) => entries[c] \in [start : Nat, count : Nat]
    BY <1>3 DEF AccountsInv, Shapes
  <2>2. c \in Recent(t) => entries[c].count < Limit
    BY <2>1, <1>1 DEF TooMany
  <2> QED BY <2>1, <2>2, <1>3
<1>5. /\ passed[c] \in Tallies /\ passed'[c] \in Tallies
      /\ passed'[c][now] = passed[c][now] + 1
      /\ \A m \in (0..LastTime) \ {now} : passed'[c][m] = passed[c][m]
      /\ passed' \in [Client -> Tallies]
      /\ \A k \in Client : k # c => passed'[k] = passed[k]
  <2>1. passed \in [Client -> Tallies] /\ passed[c] \in Tallies
    BY <1>2 DEF Counted
  <2>2. passed[c][now] \in Nat
    BY <2>1, <1>1 DEF Tallies
  <2>3. passed'[c] = [passed[c] EXCEPT ![now] = @ + 1]
    BY <2>1
  <2>4. passed'[c] \in Tallies
    BY <2>1, <2>2, <2>3, <1>1 DEF Tallies
  <2>5. passed' \in [Client -> Tallies]
    BY <2>1, <2>3, <2>4
  <2> QED BY <2>1, <2>3, <2>4, <2>5, <1>1 DEF Tallies
<1>6. Counted'
  <2>1. ASSUME NEW k \in Client, NEW m \in 0..LastTime, m > now
        PROVE  passed'[k][m] = 0
    BY <1>1, <1>2, <1>5, <2>1 DEF Counted
  <2> QED BY <1>5, <2>1 DEF Counted
<1>7. ASSUME NEW from \in Int, NEW to \in Int
      PROVE  /\ Count(passed'[c], now, from, to) =
                   IF from <= now /\ now <= to THEN Count(passed[c], now, from, to) + 1
                   ELSE Count(passed[c], now, from, to)
             /\ Count(passed[c], now, from, to) \in Nat
  <2>1. PICK f \in Tallies : f = passed[c]
    BY <1>5
  <2>2. PICK g \in Tallies : g = passed'[c]
    BY <1>5
  <2>3. g[now] = f[now] + 1 /\ \A m \in (0..LastTime) \ {now} : g[m] = f[m]
    BY <1>5, <2>1, <2>2
  <2>4. Count(g, now, from, to) =
          IF from <= now /\ now <= to THEN Count(f, now, from, to) + 1 ELSE Count(f, now, from, to)
    BY <1>1, <2>3, CountMore
  <2>5. Count(f, now, from, to) \in Nat
    BY <1>1, MarksFinite
  <2> QED BY <2>1, <2>2, <2>4, <2>5
<1>8. ASSUME NEW from \in Int
      PROVE  /\ Since(c, from)' = IF from <= now THEN Since(c, from) + 1 ELSE 0
             /\ Since(c, from) \in Nat
  <2>1. Since(c, from)' = Count(passed'[c], now, from, now)
    BY DEF Since
  <2>2. now < from => Count(passed'[c], now, from, now) = 0
    <3>1. PICK g : g = passed'[c]
      OBVIOUS
    <3>2. now < from => Count(g, now, from, now) = 0
      BY <1>1, CountOfNone
    <3> QED BY <3>1, <3>2
  <2>3. from <= now => Count(passed'[c], now, from, now) = Since(c, from) + 1
    <3>1. now \in Int /\ now <= now
      BY <1>1
    <3>2. from <= now => Count(passed'[c], now, from, now) = Count(passed[c], now, from, now) + 1
      BY <1>7, <3>1
    <3> QED BY <3>2 DEF Since
  <2>4. Since(c, from) \in Nat
    BY <1>1, <1>7 DEF Since
  <2> QED BY <1>1, <2>1, <2>2, <2>3, <2>4
<1>9. \A k \in Client : k # c => \A from : Since(k, from)' = Since(k, from)
  BY <1>5 DEF Since
<1>10. Prompt'
  BY DEF LimiterInv, Prompt, Entering, Only
<1>11. Remembered'
  <2> SUFFICES ASSUME NEW k \in DOMAIN entries', NEW from \in Int
               PROVE  /\ from <= entries'[k].start => entries'[k].count <= Since(k, from)'
                      /\ entries'[k].start + Delay < from => Since(k, from)' <= entries'[k].count - 1
    BY DEF Remembered
  <2>1. CASE k # c
    <3>1. k \in DOMAIN entries /\ k \in Client /\ entries'[k] = entries[k]
      BY <2>1, <1>3, LimiterTypes
    <3>2. Since(k, from)' = Since(k, from)
      BY <2>1, <3>1, <1>9
    <3> QED BY <3>1, <3>2, <1>2 DEF Remembered
  <2>2. CASE k = c /\ c \in Recent(t)
    <3>1. /\ c \in DOMAIN entries /\ entries[c].start \in Nat /\ entries[c].start <= now
          /\ entries[c].count \in Nat /\ entries[c].count >= 1
      BY <2>2, <1>3, LimiterTypes
    <3>2. /\ from <= entries[c].start => entries[c].count <= Since(c, from)
          /\ entries[c].start + Delay < from => Since(c, from) <= entries[c].count - 1
      BY <3>1, <1>2 DEF Remembered
    <3>3. entries'[c].start = entries[c].start /\ entries'[c].count = entries[c].count + 1
      BY <2>2, <1>4
    <3>4. Since(c, from)' = (IF from <= now THEN Since(c, from) + 1 ELSE 0)
          /\ Since(c, from) \in Nat
      BY <1>8
    <3> QED BY <2>2, <1>1, <3>1, <3>2, <3>3, <3>4
  <2>3. CASE k = c /\ c \notin Recent(t)
    <3>1. entries'[c].start = t /\ entries'[c].count = 1
      BY <2>3, <1>4
    <3>2. Since(c, from)' = (IF from <= now THEN Since(c, from) + 1 ELSE 0)
          /\ Since(c, from) \in Nat
      BY <1>8
    <3> QED BY <2>3, <1>1, <3>1, <3>2
  <2> QED BY <2>1, <2>2, <2>3
<1>12. Carried'
  <2> SUFFICES ASSUME NEW k \in Client, NEW from \in Int, now - (Window - Delay) < from
               PROVE  Since(k, from)' <= Carry(k)' + Limit - 1
    BY DEF Carried
  <2>1. Since(k, from) <= (IF k \in Recent(t) THEN entries[k].count ELSE 0) + Limit - 1
    BY ForgottenCarry
  <2>2. CASE k # c
    <3>1. Carry(k)' = IF k \in Recent(t) THEN entries[k].count ELSE 0
      BY <1>3, <2>2 DEF Carry
    <3> QED BY <1>9, <2>1, <2>2, <3>1
  <2>3. CASE k = c
    <3>1. Carry(c)' = IF c \in Recent(t) THEN entries[c].count + 1 ELSE 1
      BY <1>3, <1>4 DEF Carry
    <3>2. c \in Recent(t) => entries[c].count \in Nat
      BY <1>3, LimiterTypes
    <3> QED BY <1>1, <1>8, <2>1, <2>3, <3>1, <3>2
  <2> QED BY <2>2, <2>3
<1>13. AttemptsBounded'
  <2> SUFFICES ASSUME NEW k \in Client, NEW m \in 0..now
               PROVE  Attempts(k, m, m + Window - Delay - 1)' < 2 * Limit
    BY DEF AttemptsBounded
  <2> DEFINE to == m + Window - Delay - 1
  <2>1. m \in Int /\ to \in Int
    BY <1>1
  <2>2. Attempts(k, m, to) < 2 * Limit
    BY <1>2 DEF AttemptsBounded
  <2>3. Attempts(k, m, to)' = Count(passed'[k], now, m, to)
        /\ Attempts(k, m, to) = Count(passed[k], now, m, to)
    BY AttemptsCount
  <2>4. CASE k # c \/ ~(m <= now /\ now <= to)
    <3>1. Count(passed'[k], now, m, to) = Count(passed[k], now, m, to)
      <4>1. CASE k # c
        BY <1>5, <4>1
      <4>2. CASE k = c
        <5> HIDE DEF to
        <5> QED BY <1>7, <2>1, <2>4, <4>2
      <4> QED BY <4>1, <4>2
    <3> QED BY <2>2, <2>3, <3>1
  <2>5. CASE k = c /\ m <= now /\ now <= to
    <3>1. Count(passed'[c], now, m, to) = Count(passed'[c], now, m, now)
      BY <1>1, <2>1, <2>5, CountUntilNow
    <3>2. Attempts(k, m, to)' = Since(c, m)'
      BY <2>3, <2>5, <3>1 DEF Since
    <3>3. now - (Window - Delay) < m
      BY <1>1, <2>1, <2>5
    <3>4. Since(c, m)' <= Carry(c)' + Limit - 1
      BY <1>12, <2>1, <3>3 DEF Carried
    <3>5. Carry(c)' \in Nat /\ Carry(c)' <= Limit
      <4>1. c \in Recent(t) => entries[c].count \in Nat
        BY <1>3, LimiterTypes
      <4> QED BY <4>1, <1>1, <1>3, <1>4 DEF Carry
    <3>6. Since(c, m)' \in Nat
      BY <1>8, <2>1, <1>1
    <3> QED BY <1>1, <3>2, <3>4, <3>5, <3>6
  <2> QED BY <2>4, <2>5
<1> QED BY <1>6, <1>10, <1>11, <1>12, <1>13 DEF LimiterInv

(* AuthLimiter.check.                                                      *)
LEMMA CheckLimitLimiter ==
    ASSUME AccountsInv, LimiterInv, NEW p \in Page, CheckLimit(p)
    PROVE  LimiterInv'
<1> DEFINE c == request[p].client
           t == request[p].clock
<1>1. stage[p] = "sent" /\ Entering(p) /\ UNCHANGED <<now, request>> /\ Only(p) /\ stage'[p] # "sent"
  <2>1. stage[p] = "sent" /\ Entering(p)
    BY DEF CheckLimit, Entering
  <2>2. UNCHANGED <<now, page, request>> /\ (UNCHANGED answer \/ \E a : answer' = [answer EXCEPT ![p] = a])
        /\ \E s \in {"answered", "limited", "read"} : stage' = [stage EXCEPT ![p] = s]
    BY DEF CheckLimit, Refuse, Reply, Go, browser
  <2> QED BY <2>1, <2>2 DEF AccountsInv, Shapes, Only
<1>2. c \in Client /\ t \in 0..now
  BY <1>1 DEF AccountsInv, AttemptsFit, Attempting, Entering
<1>3. now <= t + Delay
  BY <1>1 DEF LimiterInv, Prompt
<1>4. CASE TooMany(c, t)
  <2>1. entries' = [k \in Recent(t) |-> entries[k]] /\ UNCHANGED passed
    BY <1>4 DEF CheckLimit
  <2> HIDE DEF t, c
  <2> QED BY <1>1, <1>2, <2>1, RefusedLimiter
<1>5. CASE ~TooMany(c, t)
  <2>1. /\ entries' = [k \in Recent(t) \cup {c} |->
                         IF k # c THEN entries[k]
                         ELSE IF c \in Recent(t) THEN [entries[c] EXCEPT !.count = @ + 1]
                              ELSE [start |-> t, count |-> 1]]
        /\ passed' = [passed EXCEPT ![c][now] = @ + 1]
    BY <1>5 DEF CheckLimit
  <2> HIDE DEF t, c
  <2> QED BY <1>1, <1>2, <1>3, <1>5, <2>1, PassedLimiter
<1> QED BY <1>4, <1>5

LEMMA NextLimiterInv ==
    ASSUME AccountsInv, LimiterInv, [Next]_vars
    PROVE  LimiterInv'
<1>1. CASE Tick
  BY <1>1, TickLimiter
<1>2. CASE \E p \in Page : CheckLimit(p)
  BY <1>2, CheckLimitLimiter
<1>3. CASE ~Tick /\ \A p \in Page : ~CheckLimit(p)
  BY <1>3, QuietSteps
<1> QED BY <1>1, <1>2, <1>3

LEMMA SpecLimiterInv == Spec => [](AccountsInv /\ LimiterInv)
<1>1. Init => AccountsInv /\ LimiterInv
  BY InitAccountsInv, InitLimiterInv
<1>2. AccountsInv /\ LimiterInv /\ [Next]_vars => (AccountsInv /\ LimiterInv)'
  BY NextAccountsInv, NextLimiterInv
<1> QED BY <1>1, <1>2, PTL DEF Spec

(* However handlers overtake each other between reading the clock and      *)
(* taking the limiter's lock, and whichever entries are forgotten on the   *)
(* way, a client gets fewer than two allowances of attempts in any stretch *)
(* as long as a window less the bound on that wait.                        *)
THEOREM AccountsAttemptsBounded == Spec => []AttemptsBounded
<1>1. LimiterInv => AttemptsBounded
  BY DEF LimiterInv
<1> QED BY <1>1, SpecLimiterInv, PTL

(* Only the limiter answers an attempt that has just been sent.            *)
LEMMA AnsweredByLimiter ==
    ASSUME AccountsInv, [Next]_vars, NEW p \in Page,
           stage[p] = "sent", stage'[p] = "answered", request[p].op \in {"login", "register"}
    PROVE  CheckLimit(p)
<1> USE DEF server, browser, vars, Attempt, Go, Reply, Refuse, Rest, Send
<1>1. stage \in [Page -> Stage]
  BY DEF AccountsInv, Shapes
<1>2. ~Tick /\ ~UNCHANGED vars
  BY DEF Tick
<1>3. ASSUME NEW q \in Page, NEW op \in {"login", "register"}, NEW u \in User, NEW k \in Client,
             Enter(q, op, u, k)
      PROVE  FALSE
  BY <1>1, <1>3 DEF Enter
<1>4. ASSUME NEW q \in Page, Open(q) \/ Ask(q, "change") \/ Ask(q, "logout")
      PROVE  FALSE
  BY <1>1, <1>4 DEF Open, Ask
<1>5. ASSUME NEW q \in Page, Show(q) \/ Close(q) \/ Lose(q) \/ EnterRegistered(q)
      PROVE  FALSE
  BY <1>1, <1>5 DEF Show, Close, Lose, EnterRegistered
<1>6. ASSUME NEW q \in Page, ReadAccount(q) \/ TakeSlot(q) \/ Hash(q)
      PROVE  FALSE
  BY <1>1, <1>6 DEF ReadAccount, TakeSlot, Hash
<1>7. ASSUME NEW q \in Page, Register(q) \/ CreateSession(q) \/ Logout(q)
      PROVE  FALSE
  BY <1>1, <1>7 DEF Register, CreateSession, Logout
<1>8. ASSUME NEW q \in Page, Serve(q)
      PROVE  FALSE
  <2>1. q # p
    BY <1>8 DEF Serve
  <2>2. stage'[p] = stage[p]
    BY <1>1, <1>8, <2>1 DEF Serve
  <2> QED BY <2>2
<1>9. ASSUME NEW q \in Page, CheckLimit(q), q # p
      PROVE  FALSE
  BY <1>1, <1>9 DEF CheckLimit
<1> QED BY <1>2, <1>3, <1>4, <1>5, <1>6, <1>7, <1>8, <1>9 DEF Next, Handle

(* What an open entry counts was let through in the window of the check.   *)
LEMMA OpenEntryCounts ==
    ASSUME AccountsInv, LimiterInv, NEW t \in 0..now, NEW c \in Recent(t)
    PROVE  /\ c \in Client /\ entries[c].count \in Nat /\ entries[c].count >= 1
           /\ Attempts(c, t - Window + 1, now) >= entries[c].count
<1>1. c \in DOMAIN entries /\ entries[c].start > t - Window
  BY DEF Recent
<1>2. now \in Nat /\ Window \in Nat /\ t \in Nat
  BY LimiterTypes
<1>3. c \in Client /\ entries[c].start \in Nat /\ entries[c].count \in Nat /\ entries[c].count >= 1
  BY <1>1, LimiterTypes
<1>4. t - Window + 1 \in Int /\ t - Window + 1 <= entries[c].start
  BY <1>1, <1>2, <1>3
<1>5. entries[c].count <= Since(c, t - Window + 1)
  BY <1>1, <1>4 DEF LimiterInv, Remembered
<1>6. Attempts(c, t - Window + 1, now) = Since(c, t - Window + 1)
  BY AttemptsCount DEF Since
<1>7. Since(c, t - Window + 1) \in Nat
  BY <1>3, SinceTypes DEF LimiterInv
<1> QED BY <1>3, <1>5, <1>6, <1>7

LEMMA RefusalHasCause ==
    ASSUME AccountsInv, LimiterInv, NEW p \in Page, CheckLimit(p), stage'[p] = "answered"
    PROVE  LET c == request[p].client
               busy == {k \in Client : Attempts(k, request[p].clock - Window + 1, now) > 0}
           IN  \/ Attempts(c, request[p].clock - Window + 1, now) >= Limit
               \/ Cardinality(busy \ {c}) >= TableLimit
<1> DEFINE c == request[p].client
           t == request[p].clock
           busy == {k \in Client : Attempts(k, t - Window + 1, now) > 0}
<1>1. c \in Client /\ t \in 0..now
  BY DEF CheckLimit, AccountsInv, AttemptsFit, Attempting, Entering
<1>2. TooMany(c, t)
  BY DEF CheckLimit, Go, AccountsInv, Shapes
<1>3. Limit \in Nat /\ TableLimit \in Nat
  BY LimiterTypes
<1>4. \A k \in Client : Attempts(k, t - Window + 1, now) \in Nat
  BY SinceTypes, AttemptsCount DEF LimiterInv, Since
<1> HIDE DEF c, t
<1>5. CASE c \in Recent(t)
  <2>1. entries[c].count >= Limit
    BY <1>2, <1>5 DEF TooMany
  <2>2. Attempts(c, t - Window + 1, now) >= Limit
    BY <1>1, <1>3, <1>4, <1>5, <2>1, OpenEntryCounts
  <2> QED BY <2>2 DEF c, t
<1>6. CASE c \notin Recent(t)
  <2>1. Cardinality(Recent(t)) >= TableLimit
    BY <1>2, <1>6 DEF TooMany
  <2>2. \A k \in Recent(t) : k \in Client /\ Attempts(k, t - Window + 1, now) > 0
    <3> SUFFICES ASSUME NEW k \in Recent(t)
                 PROVE  k \in Client /\ Attempts(k, t - Window + 1, now) > 0
      OBVIOUS
    <3>1. /\ k \in Client /\ entries[k].count \in Nat /\ entries[k].count >= 1
          /\ Attempts(k, t - Window + 1, now) >= entries[k].count
      BY <1>1, OpenEntryCounts
    <3> QED BY <1>4, <3>1
  <2>3. Recent(t) \subseteq busy \ {c} /\ busy \ {c} \subseteq Client
    BY <1>6, <2>2
  <2> HIDE DEF busy
  <2>4. IsFiniteSet(busy \ {c})
    BY <2>3, AccountsAssumption, FS_Subset
  <2>5. IsFiniteSet(Recent(t)) /\ Cardinality(Recent(t)) <= Cardinality(busy \ {c})
    BY <2>3, <2>4, FS_Subset
  <2>6. Cardinality(Recent(t)) \in Nat /\ Cardinality(busy \ {c}) \in Nat
    BY <2>4, <2>5, FS_CardinalityType
  <2>7. Cardinality(busy \ {c}) >= TableLimit
    BY <1>3, <2>1, <2>5, <2>6
  <2> QED BY <2>7 DEF busy, c, t
<1> QED BY <1>5, <1>6

(* A login or a registration is turned away only for as many attempts of   *)
(* its own in the last window as the limiter allows, or for as many other  *)
(* clients with attempts in it as its table holds.                         *)
THEOREM AccountsRefusedForCause == Spec => RefusedForCause
<1>1. AccountsInv /\ LimiterInv /\ [Next]_vars =>
        [\A p \in Page : (stage[p] = "sent" /\ stage'[p] = "answered"
                            /\ request[p].op \in {"login", "register"}) =>
           LET c == request[p].client
               busy == {k \in Client : Attempts(k, request[p].clock - Window + 1, now) > 0}
           IN  \/ Attempts(c, request[p].clock - Window + 1, now) >= Limit
               \/ Cardinality(busy \ {c}) >= TableLimit]_vars
  BY AnsweredByLimiter, RefusalHasCause
<1> QED BY <1>1, SpecLimiterInv, PTL DEF Spec, RefusedForCause
=============================================================================
