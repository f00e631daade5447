------------------------------ MODULE Accounts ------------------------------
(***************************************************************************)
(* Users, their sessions, API keys and the requests for orders they send   *)
(* (the controllers of the API; Orders models what the order service does  *)
(* with an order).  A handler is interleaved with others at every await;   *)
(* it may end there with an error, or with its process.                    *)
(***************************************************************************)
EXTENDS Integers

CONSTANTS
  Emails,    \* users are named by their e-mail
  Clients,   \* browsers; each has one request at a time
  Keys,      \* API keys
  Tickets,   \* orders
  NoEmail,   \* no user
  MaxAborts  \* bound: requests that end with an error or a crash

ASSUME AccountsAssumption == NoEmail \notin Emails /\ MaxAborts \in Nat

VARIABLES
  users,        \* rows of User
  portfolios,   \* how many rows of Portfolio each user has
  apiKeys,      \* rows of ApiKey: "none", or the owner and whether it is revoked
  tickets,      \* rows of Order: the owner, and whether it was cancelled
  request,      \* the request of each client that is being handled
  cookie,       \* the user its cookies token and csrf_token are for
  webPage,      \* what /auth/session told it: the user and whether there is a portfolio
  interrupted,  \* history: users whose registration was aborted
  aborts

accountsVars ==
  <<users, portfolios, apiKeys, tickets, request, cookie, webPage, interrupted, aborts>>

NoRequest == [step |-> "none", email |-> NoEmail]
Nothing == [owner |-> NoEmail, ended |-> FALSE]
NoPage == [user |-> NoEmail, portfolio |-> FALSE]

AccountsInit ==
  /\ users = {} /\ portfolios = [e \in Emails |-> 0] /\ interrupted = {} /\ aborts = 0
  /\ apiKeys = [k \in Keys |-> Nothing] /\ tickets = [t \in Tickets |-> Nothing]
  /\ request = [c \in Clients |-> NoRequest] /\ cookie = [c \in Clients |-> NoEmail]
  /\ webPage = [c \in Clients |-> NoPage]

At(c, step, e) == request' = [request EXCEPT ![c] = [step |-> step, email |-> e]]
Ended(c) == request' = [request EXCEPT ![c] = NoRequest]
Handled(c) == request[c] = NoRequest /\ UNCHANGED <<request, interrupted, aborts>>
Signed(c, e) == cookie' = [cookie EXCEPT ![c] = e]

-----------------------------------------------------------------------------
\* AuthController.

\* An e-mail without a user: the password is hashed.
Register(c, e) ==
  /\ request[c] = NoRequest /\ e \notin users
  /\ At(c, "hashing", e)
  /\ UNCHANGED <<users, portfolios, apiKeys, tickets, cookie, webPage, interrupted, aborts>>

\* Mutant: nothing but the look-up before the hash keeps an e-mail unique.
NotTaken(e) == FALSE

\* User.email is unique.
Taken(e) == e \in users

InsertUser(c) ==
  /\ request[c].step = "hashing"
  /\ LET e == request[c].email IN
     IF Taken(e) THEN Ended(c) /\ UNCHANGED users
     ELSE users' = users \cup {e} /\ At(c, "inserted", e)
  /\ UNCHANGED <<portfolios, apiKeys, tickets, cookie, webPage, interrupted, aborts>>

InsertPortfolio(c) ==
  /\ request[c].step = "inserted"
  /\ portfolios' = [portfolios EXCEPT ![request[c].email] = @ + 1]
  /\ Signed(c, request[c].email) /\ Ended(c)
  /\ UNCHANGED <<users, apiKeys, tickets, webPage, interrupted, aborts>>

\* The user is inserted, the portfolio is not.
Inserted(c, e) == request[c] = [step |-> "inserted", email |-> e]

\* A handler ends where it waits.
Aborted(c) ==
  /\ request[c] # NoRequest /\ aborts < MaxAborts /\ aborts' = aborts + 1
  /\ interrupted' = interrupted \cup {e \in Emails : Inserted(c, e)}
  /\ Ended(c)
  /\ UNCHANGED <<users, portfolios, apiKeys, tickets, cookie, webPage>>

Login(c, e) ==
  /\ Handled(c) /\ e \in users /\ Signed(c, e)
  /\ UNCHANGED <<users, portfolios, apiKeys, tickets, webPage>>

\* logout clears the cookies; they also end after an hour.
Logout(c) ==
  /\ Handled(c) /\ cookie[c] # NoEmail /\ Signed(c, NoEmail)
  /\ UNCHANGED <<users, portfolios, apiKeys, tickets, webPage>>

\* AuthProvider: a page without a valid token forgets its user.
Told(e) == [user |-> e, portfolio |-> e # NoEmail /\ portfolios[e] > 0]

\* getSession: 401, or the user and the first portfolio.
GetSession(c) ==
  /\ Handled(c)
  /\ webPage' = [webPage EXCEPT ![c] = Told(cookie[c])]
  /\ UNCHANGED <<users, portfolios, apiKeys, tickets, cookie>>

-----------------------------------------------------------------------------
\* OrderController and ApiKeysController.

\* authenticateJWT: a token without a user, or none, is answered with 401.
SignedIn(c) == Handled(c) /\ cookie[c] # NoEmail

\* ApiKeysService: a key is its user's, and stays when it is revoked.
Issued(k, e) == [apiKeys EXCEPT ![k].owner = e]
Revoked(k) == [apiKeys EXCEPT ![k].ended = TRUE]

\* Without a portfolio in the request the first one of the user is taken.
PlaceTicket(c, t) ==
  /\ SignedIn(c) /\ tickets[t] = Nothing
  /\ portfolios[cookie[c]] > 0
  /\ tickets' = [tickets EXCEPT ![t].owner = cookie[c]]
  /\ UNCHANGED <<users, portfolios, apiKeys, cookie, webPage>>

CancelTicket(c, t) ==
  /\ SignedIn(c) /\ tickets[t].owner = cookie[c]
  /\ tickets' = [tickets EXCEPT ![t].ended = TRUE]
  /\ UNCHANGED <<users, portfolios, apiKeys, cookie, webPage>>

CreateKey(c, k) ==
  /\ SignedIn(c) /\ apiKeys[k] = Nothing
  /\ apiKeys' = Issued(k, cookie[c])
  /\ UNCHANGED <<users, portfolios, tickets, cookie, webPage>>

RevokeKey(c, k) ==
  /\ SignedIn(c) /\ apiKeys[k] = [owner |-> cookie[c], ended |-> FALSE]
  /\ apiKeys' = Revoked(k)
  /\ UNCHANGED <<users, portfolios, tickets, cookie, webPage>>

AccountsNext ==
  \E c \in Clients :
    \/ InsertUser(c) \/ InsertPortfolio(c) \/ Aborted(c) \/ Logout(c) \/ GetSession(c)
    \/ \E e \in Emails : Register(c, e) \/ Login(c, e)
    \/ \E t \in Tickets : PlaceTicket(c, t) \/ CancelTicket(c, t)
    \/ \E k \in Keys : CreateKey(c, k) \/ RevokeKey(c, k)

AccountsSpec == AccountsInit /\ [][AccountsNext]_accountsVars

-----------------------------------------------------------------------------
Owned == [owner : Emails \cup {NoEmail}, ended : BOOLEAN]

AccountsTypeOK ==
  /\ users \subseteq Emails /\ portfolios \in [Emails -> Nat]
  /\ apiKeys \in [Keys -> Owned] /\ tickets \in [Tickets -> Owned]
  /\ request \in [Clients -> {NoRequest} \cup [step : {"hashing", "inserted"}, email : Emails]]
  /\ cookie \in [Clients -> Emails \cup {NoEmail}]
  /\ webPage \in [Clients -> [user : Emails \cup {NoEmail}, portfolio : BOOLEAN]]
  /\ interrupted \subseteq Emails /\ aborts \in 0 .. MaxAborts

\* However many registrations of an e-mail overlap, its user gets exactly one
\* portfolio; a user without one is being registered or had the registration
\* aborted between the two inserts of register, which no transaction joins.
PortfolioUnlessInterrupted ==
  \A e \in Emails :
    \/ portfolios[e] = IF e \in users THEN 1 ELSE 0
    \/ /\ e \in users /\ portfolios[e] = 0
       /\ e \in interrupted \/ \E c \in Clients : Inserted(c, e)
=============================================================================
