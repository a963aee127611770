------------------------------ MODULE Accounts ------------------------------
(***************************************************************************)
(* Registration, login and sessions.  Pages of one browser share its       *)
(* cookie; each page keeps the account it shows and the CSRF token it was  *)
(* given.  Handlers run in threads of one process: they share the attempt  *)
(* limiter and the hashing slots, and any of them may be overtaken between *)
(* two of its steps.  A token stands for itself and for the digests that   *)
(* are computed from it.                                                   *)
(***************************************************************************)
EXTENDS Integers, FiniteSets

CONSTANTS
    User,           \* e-mail addresses
    Registered,     \* those registered in earlier days
    Client,         \* addresses that requests come from
    Page,           \* open pages of the browser
    Limit,          \* auth_requests_per_minute
    Window,         \* 60 seconds
    Delay,          \* bound on the wait between reading the clock and the lock
    TableLimit,     \* 4096 clients in the limiter
    Slots,          \* BoundedSemaphore(2) in Passwords
    Lifetime,       \* session_hours
    LastTime,       \* bound on the clock
    TokenLimit      \* bound on the sessions made

ASSUME AccountsAssumption ==
    /\ IsFiniteSet(Client) /\ Registered \subseteq User
    /\ {Limit, Window, TableLimit, Slots, Lifetime} \subseteq Nat \ {0}
    /\ {Delay, LastTime, TokenLimit} \subseteq Nat

Nobody == "nobody"
NoToken == 0
Blank == [user |-> Nobody, csrf |-> NoToken]
NoRequest == [op |-> "none"]
NoAnswer == [outcome |-> "none"]

VARIABLES
    now,            \* the clock
    entries,        \* AuthLimiter.entries: client to start and count
    free,           \* the hashing slots not taken
    registered,     \* the table users
    sessions,       \* the table sessions: token, user, expires
    issued,         \* the tokens made so far are 1..issued
    jar,            \* the session cookie of the browser
    page,           \* state.user and state.csrf of each page
    request,        \* the request each page waits for
    stage,          \* how far its handler has come
    answer,         \* what the handler answered
    passed          \* history: attempts let through, by client and moment

server == <<entries, free, registered, sessions, issued, passed>>
browser == <<jar, page>>
vars == <<now, server, browser, request, stage, answer>>

----------------------------------------------------------------------------
(* The browser sends.                                                      *)

Send(p, r) ==
    /\ stage[p] = "idle"
    /\ request' = [request EXCEPT ![p] = r]
    /\ stage' = [stage EXCEPT ![p] = "sent"]
    /\ UNCHANGED <<now, server, answer>>

(* login-form and register-form, which only a page without account shows.  *)
(* The clock is the one that AuthLimiter.check reads before its lock.      *)
Attempt(op, u, c) == [op |-> op, user |-> u, client |-> c, clock |-> now]
Enter(p, op, u, c) ==
    /\ page[p].user = Nobody
    /\ Send(p, Attempt(op, u, c))
    /\ UNCHANGED browser

(* The page is loaded and asks whose session the cookie is.                *)
Open(p) ==
    /\ Send(p, [op |-> "open", cookie |-> jar])
    /\ page' = [page EXCEPT ![p] = Blank]
    /\ UNCHANGED jar

(* Any changing request, and logout: the cookie is the browser's, the CSRF *)
(* token the page's.                                                       *)
Ask(p, op) ==
    /\ page[p].user # Nobody
    /\ Send(p, [op |-> op, cookie |-> jar, csrf |-> page[p].csrf, shown |-> page[p].user])
    /\ UNCHANGED browser

----------------------------------------------------------------------------
(* The server.                                                             *)

Go(p, place) == stage' = [stage EXCEPT ![p] = place] /\ UNCHANGED <<now, browser, request, answer>>

Reply(p, a) ==
    /\ stage' = [stage EXCEPT ![p] = "answered"]
    /\ answer' = [answer EXCEPT ![p] = a]
    /\ UNCHANGED <<now, browser, request>>

Refuse(p) == Reply(p, [outcome |-> "refused"])

(* Variant with a defect: entries are kept one moment longer than needed.  *)
RecentLate(t) == {c \in DOMAIN entries : entries[c].start >= t - Window}

(* The clients whose window is still open at moment t.                     *)
Recent(t) == {c \in DOMAIN entries : entries[c].start > t - Window}

(* Variant with a defect: one attempt too many.                            *)
TooManyOff(c, t) ==
    IF c \in Recent(t) THEN entries[c].count > Limit ELSE Cardinality(Recent(t)) >= TableLimit

TooMany(c, t) ==
    IF c \in Recent(t) THEN entries[c].count >= Limit ELSE Cardinality(Recent(t)) >= TableLimit

(* AuthLimiter.check: one step under its lock, with the time read before   *)
(* the lock was taken.                                                     *)
CheckLimit(p) ==
    LET c == request[p].client
        t == request[p].clock
        kept == [k \in Recent(t) |-> entries[k]]
        counted == [k \in Recent(t) \cup {c} |->
                       IF k # c THEN entries[k]
                       ELSE IF c \in Recent(t) THEN [entries[c] EXCEPT !.count = @ + 1]
                            ELSE [start |-> t, count |-> 1]]
    IN  /\ stage[p] = "sent" /\ request[p].op \in {"login", "register"}
        /\ IF TooMany(c, t)
           THEN entries' = kept /\ Refuse(p) /\ UNCHANGED passed
           ELSE /\ entries' = counted
                /\ passed' = [passed EXCEPT ![c][now] = @ + 1]
                /\ Go(p, IF request[p].op = "login" THEN "limited" ELSE "read")
        /\ UNCHANGED <<free, registered, sessions, issued>>

(* A login reads its account before it waits for the password.             *)
ReadAccount(p) ==
    /\ stage[p] = "limited"
    /\ request' = [request EXCEPT ![p] =
          [op |-> "login", user |-> @.user, known |-> @.user \in registered]]
    /\ stage' = [stage EXCEPT ![p] = "read"]
    /\ UNCHANGED <<now, server, browser, answer>>

(* Passwords.run: a slot at once or no service.                            *)
TakeSlot(p) ==
    /\ stage[p] = "read"
    /\ IF free = 0 THEN Refuse(p) /\ UNCHANGED server
       ELSE /\ free' = free - 1
            /\ Go(p, "hashing")
            /\ UNCHANGED <<entries, registered, sessions, issued, passed>>

(* Variant with a defect: the slot is returned only after a good password. *)
HashKeepingSlot(p) ==
    /\ stage[p] = "hashing"
    /\ \/ free' = free + 1 /\ Go(p, "hashed")
       \/ request[p].op = "login" /\ free' = free /\ Refuse(p)
    /\ UNCHANGED <<entries, registered, sessions, issued, passed>>

(* The password is hashed, or compared and perhaps wrong; hashing may fail.*)
Hash(p) ==
    /\ stage[p] = "hashing"
    /\ free' = free + 1
    /\ \/ (request[p].op = "login" => request[p].known) /\ Go(p, "hashed")
       \/ Refuse(p)
    /\ UNCHANGED <<entries, registered, sessions, issued, passed>>

(* Repository.register: the user and the preferences, or nothing.          *)
Register(p) ==
    /\ stage[p] = "hashed" /\ request[p].op = "register"
    /\ IF request[p].user \in registered
       THEN Refuse(p) /\ UNCHANGED registered
       ELSE /\ registered' = registered \cup {request[p].user}
            /\ Reply(p, [outcome |-> "registered"])
    /\ UNCHANGED <<entries, free, sessions, issued, passed>>

Expired(s) == s.expires <= now

(* Repository.create_session: old sessions of this user go, a new one comes.*)
CreateSession(p) ==
    LET u == request[p].user
    IN  /\ stage[p] = "hashed" /\ request[p].op = "login"
        /\ issued < TokenLimit
        /\ issued' = issued + 1
        /\ sessions' = {s \in sessions : s.user # u \/ ~Expired(s)}
                       \cup {[token |-> issued', user |-> u, expires |-> now + Lifetime]}
        /\ Reply(p, [outcome |-> "session", user |-> u, token |-> issued'])
        /\ UNCHANGED <<entries, free, registered, passed>>

Live(token) == {s \in sessions : s.token = token /\ ~Expired(s)}

(* Variant with a defect: any token the page was once given will do.       *)
GenuineEver(r) == r.op # "open" => r.csrf \in 1..issued
Genuine(r) == r.op # "open" => r.csrf = r.cookie

(* current_user, and the handlers that answer with what it found.          *)
Serve(p) ==
    LET r == request[p]
        Found(s, outcome) == [outcome |-> outcome, user |-> s.user, token |-> s.token]
    IN  /\ stage[p] = "sent" /\ r.op \in {"open", "change", "logout"}
        /\ IF Live(r.cookie) = {} \/ ~Genuine(r) THEN Refuse(p)
           ELSE \E s \in Live(r.cookie) :
                CASE r.op = "open" -> Reply(p, Found(s, "session"))
                  [] r.op = "change" -> Reply(p, Found(s, "done"))
                  [] r.op = "logout" ->
                        /\ request' = [request EXCEPT ![p] = [op |-> "logout", cookie |-> r.cookie,
                                                            shown |-> r.shown, user |-> s.user]]
                        /\ stage' = [stage EXCEPT ![p] = "trusted"]
                        /\ UNCHANGED <<now, browser, answer>>
        /\ UNCHANGED server

(* Repository.logout, which another logout may have done already.          *)
Logout(p) ==
    /\ stage[p] = "trusted"
    /\ sessions' = {s \in sessions : s.token # request[p].cookie}
    /\ Reply(p, [outcome |-> "done", user |-> request[p].user])
    /\ UNCHANGED <<entries, free, registered, issued, passed>>

----------------------------------------------------------------------------
(* The answer arrives, or is lost, and the page goes on.                   *)

Rest(p) ==
    /\ stage' = [stage EXCEPT ![p] = "idle"]
    /\ request' = [request EXCEPT ![p] = NoRequest]
    /\ answer' = [answer EXCEPT ![p] = NoAnswer]

(* showPlanner; a login also brings the cookie.                            *)
Show(p) ==
    /\ stage[p] = "answered" /\ answer[p].outcome = "session"
    /\ page' = [page EXCEPT ![p] = [user |-> answer[p].user, csrf |-> answer[p].token]]
    /\ jar' = IF request[p].op = "login" THEN answer[p].token ELSE jar
    /\ Rest(p)
    /\ UNCHANGED <<now, server>>

(* The register form goes on to log in.                                    *)
EnterRegistered(p) ==
    /\ stage[p] = "answered" /\ answer[p].outcome = "registered"
    /\ request' = [request EXCEPT ![p] = Attempt("login", @.user, @.client)]
    /\ stage' = [stage EXCEPT ![p] = "sent"]
    /\ answer' = [answer EXCEPT ![p] = NoAnswer]
    /\ UNCHANGED <<now, server, browser>>

(* A change is done or something is refused; logout clears the cookie,     *)
(* whichever it is by now, and loads the page again.                       *)
Close(p) ==
    /\ stage[p] = "answered" /\ answer[p].outcome \in {"done", "refused"}
    /\ IF request[p].op = "logout" /\ answer[p].outcome = "done"
       THEN jar' = NoToken /\ page' = [page EXCEPT ![p] = Blank]
       ELSE UNCHANGED browser
    /\ Rest(p)
    /\ UNCHANGED <<now, server>>

Lose(p) == stage[p] = "answered" /\ Rest(p) /\ UNCHANGED <<now, server, browser>>

Waiting == {p \in Page : stage[p] = "sent" /\ request[p].op \in {"login", "register"}}

Tick ==
    /\ now < LastTime
    /\ \A p \in Waiting : now < request[p].clock + Delay
    /\ now' = now + 1
    /\ UNCHANGED <<server, browser, request, stage, answer>>

----------------------------------------------------------------------------
Init ==
    /\ now = 0
    /\ entries = [c \in {} |-> [start |-> 0, count |-> 0]]
    /\ free = Slots
    /\ registered = Registered /\ sessions = {} /\ issued = 0
    /\ jar = NoToken
    /\ page = [p \in Page |-> Blank]
    /\ request = [p \in Page |-> NoRequest]
    /\ stage = [p \in Page |-> "idle"]
    /\ answer = [p \in Page |-> NoAnswer]
    /\ passed = [c \in Client |-> [t \in 0..LastTime |-> 0]]

Handle(p) ==
    \/ CheckLimit(p) \/ ReadAccount(p) \/ TakeSlot(p) \/ Hash(p)
    \/ Register(p) \/ CreateSession(p) \/ Serve(p) \/ Logout(p)

Next ==
    \/ Tick
    \/ \E p \in Page :
          \/ \E op \in {"login", "register"}, u \in User, c \in Client : Enter(p, op, u, c)
          \/ Open(p) \/ Ask(p, "change") \/ Ask(p, "logout")
          \/ Handle(p)
          \/ Show(p) \/ EnterRegistered(p) \/ Close(p) \/ Lose(p)

Spec == Init /\ [][Next]_vars

----------------------------------------------------------------------------
Hashing == {p \in Page : stage[p] = "hashing"}

(* Every hashing slot is free or held by one handler, whatever became of   *)
(* the others; the limiter's table stays within its bound; the tables and  *)
(* the pages have their types.                                             *)
TypeOK ==
    /\ now \in 0..LastTime
    /\ free \in 0..Slots /\ free + Cardinality(Hashing) = Slots
    /\ DOMAIN entries \subseteq Client /\ Cardinality(DOMAIN entries) <= TableLimit
    /\ \A c \in DOMAIN entries : entries[c].start \in 0..now /\ entries[c].count \in 1..Limit
    /\ registered \subseteq User /\ issued \in 0..TokenLimit
    /\ \A s \in sessions : s.token \in 1..issued /\ s.user \in registered
    /\ jar \in 0..issued
    /\ \A p \in Page : page[p].user \in User \cup {Nobody} /\ page[p].csrf \in 0..issued

(* The attempts of a client let through from one moment to another.        *)
Attempts(c, from, to) ==
    Cardinality(UNION {{t} \X (1..passed[c][t]) : t \in {m \in 0..now : from <= m /\ m <= to}})

(* A client that the limiter forgets at the end of its window gets fewer   *)
(* than two allowances in any stretch as long as a window, less the time   *)
(* by which attempts may overtake each other on the way to the lock.       *)
AttemptsBounded ==
    \A c \in Client, t \in 0..now : Attempts(c, t, t + Window - Delay - 1) < 2 * Limit

(* Nobody is turned away who has waited as long as the message asks for    *)
(* ("one minute"): a refusal is for the client's own attempts in the last  *)
(* window, or for as many other clients with attempts in it as the table   *)
(* holds.                                                                  *)
RefusedForCause ==
    [][\A p \in Page : (stage[p] = "sent" /\ stage'[p] = "answered"
                           /\ request[p].op \in {"login", "register"}) =>
          LET c == request[p].client
              busy == {k \in Client : Attempts(k, request[p].clock - Window + 1, now) > 0}
          IN  \/ Attempts(c, request[p].clock - Window + 1, now) >= Limit
              \/ Cardinality(busy \ {c}) >= TableLimit]_vars

(* A change a page is told was made was made to the account that the page  *)
(* shows, although pages share one cookie, in which another page may have  *)
(* put another account, and answers of logins may arrive late.             *)
ChangesReachOwnAccount ==
    \A p \in Page :
        stage[p] = "answered" /\ request[p].op \in {"change", "logout"} /\ answer[p].outcome = "done"
            => answer[p].user = request[p].shown
=============================================================================
