-------------------------------- MODULE Session --------------------------------
(***************************************************************************)
(* The administrator's session as one tab of the browser sees it.  The     *)
(* token lives in localStorage, which the tabs share; whether the pages    *)
(* are shown is a state of each tab.  A request carries the token stored   *)
(* when it is sent, and the answer 401 to any request of the tab clears    *)
(* the store, whatever the request carried.                                *)
(*                                                                         *)
(* The other tabs are an environment that may store a newer token or clear *)
(* the store.  A reload of the tab is the beginning of another behaviour.  *)
(* User names and passwords are a choice: right or wrong.                  *)
(***************************************************************************)
CONSTANTS Tokens,       \* tokens that may be in use at once
          None,         \* no token
          Old           \* any token that has expired

ASSUME SessionAssumption == {None, Old} \cap Tokens = {} /\ None # Old

VARIABLES stored,       \* localStorage["obf_token"]
          auth,         \* isAuthenticated of this tab
          login,        \* the sign-in under way in this tab
          mine          \* history: this tab was the last to change the store

session == <<stored, auth, login, mine>>

NoLogin == [st |-> "idle", tok |-> None]

SessionTypeOK ==
  /\ stored \in Tokens \cup {None, Old} /\ auth \in BOOLEAN /\ mine \in BOOLEAN
  /\ login \in [st : {"idle", "sent", "ok", "refused"}, tok : Tokens \cup {None, Old}]

\* The tab opens: it is signed in if a token is stored, be it expired or not.
SessionInit ==
  /\ stored \in Tokens \cup {None, Old} /\ auth = (stored # None)
  /\ login = NoLogin /\ mine = TRUE

\* JwtAuthGuard and verifyAdminToken; signing out does not end a token.
Refuses(tok) == tok \in {None, Old}

-----------------------------------------------------------------------------
(* What the tab does with the store *)

Keep(tok) == stored' = tok /\ mine' = TRUE

\* Mutant: only the store is cleared.
ClearOnly == Keep(None) /\ UNCHANGED auth

\* The response interceptor on 401, and ApiClient.logout: clearToken, onUnauthorized.
Unauthorized == Keep(None) /\ auth' = FALSE

-----------------------------------------------------------------------------
(* Signing in *)

\* LoginPage.handleSubmit; the button is disabled while a sign-in is under way.
SubmitLogin ==
  /\ ~auth /\ login = NoLogin
  /\ login' = [st |-> "sent", tok |-> None]
  /\ UNCHANGED <<stored, auth, mine>>

\* generateUserToken, with the right password.
GenerateUserToken(tok) ==
  /\ login.st = "sent" /\ login' = [st |-> "ok", tok |-> tok]
  /\ UNCHANGED <<stored, auth, mine>>

\* With a wrong one; an error that is not 401 only ends the attempt.
DenyUserToken ==
  /\ login.st = "sent" /\ login' \in {[st |-> "refused", tok |-> None], NoLogin}
  /\ UNCHANGED <<stored, auth, mine>>

\* Mutant: the token is read from a field the answer has not.
SignedInWithoutToken ==
  /\ login.st = "ok"
  /\ Keep("undefined") /\ auth' = TRUE /\ login' = NoLogin

\* ApiClient.login stores the token, AuthContext.login shows the pages.
SignedIn ==
  /\ login.st = "ok"
  /\ Keep(login.tok) /\ auth' = TRUE /\ login' = NoLogin

\* A wrong password is answered 401 as well: the interceptor clears the store.
LoginRefused ==
  /\ login.st = "refused"
  /\ Unauthorized /\ login' = NoLogin

-----------------------------------------------------------------------------
(* Time and the other tabs *)

Aged(k, tok) == IF tok = k THEN Old ELSE tok

Expire(k) ==
  /\ stored' = Aged(k, stored) /\ login' = [login EXCEPT !.tok = Aged(k, @)]
  /\ UNCHANGED <<auth, mine>>

OtherSignsIn(tok) == stored' = tok /\ mine' = FALSE /\ UNCHANGED <<auth, login>>

OtherClears == stored # None /\ stored' = None /\ mine' = FALSE /\ UNCHANGED <<auth, login>>
===============================================================================
