------------------------------- MODULE Login --------------------------------
(***************************************************************************)
(* Signing in to one account: the password step with its sliding-window    *)
(* throttle, the second factor and its enrollment (api/auth.py,            *)
(* services/auth.py, services/totp.py), single sign-on (services/oidc.py)  *)
(* and the administrator's reset (api/users.py).                           *)
(*                                                                         *)
(* Requests interleave at every await; each one loads the user's row,      *)
(* decides on what it read and writes back the columns it changed.         *)
(***************************************************************************)
EXTENDS Naturals, Sequences, FiniteSets

CONSTANTS
    Request,        \* requests in flight
    Limit,          \* _LOGIN_FAIL_LIMIT
    Window,         \* _LOGIN_FAIL_WINDOW_S
    Code,           \* recovery codes that may be generated
    Secret,         \* TOTP secrets that may be generated
    MaxTime,        \* bound: clock
    MaxRequest      \* bound: requests made

Idle == [st |-> "idle"]

\* The columns of the user's row that signing in reads and writes.
UserRow ==
    [disabled : BOOLEAN, totp_enabled : BOOLEAN, secret : Secret \cup {"null"},
     pending : Secret \cup {"null"}, codes : SUBSET Code, sso : BOOLEAN]

VARIABLES
    now,
    user,       \* the row
    fails,      \* _login_fails: times of the failures in the bucket
    req,        \* req[p]: the request in flight
    mfa,        \* an mfa_pending token is out
    sessions,   \* token pairs issued, by how: "password", "totp", "sso"
    guesses,    \* history: times of the wrong passwords since the bucket was last emptied
    made        \* requests made

vars == <<now, user, fails, req, mfa, sessions, guesses, made>>
throttle == <<fails, guesses>>

Init ==
    /\ now = 0
    /\ user = [disabled |-> FALSE, totp_enabled |-> FALSE, secret |-> "null",
               pending |-> "null", codes |-> {}, sso |-> FALSE]
    /\ fails = <<>> /\ guesses = <<>>
    /\ req = [p \in Request |-> Idle]
    /\ mfa = FALSE /\ sessions = {}
    /\ made = 0

Tick == now < MaxTime /\ now' = now + 1 /\ UNCHANGED <<user, throttle, req, mfa, sessions, made>>

Become(p, r) == req' = [req EXCEPT ![p] = r]
Arrive(p) == req[p] = Idle /\ made < MaxRequest /\ made' = made + 1

-----------------------------------------------------------------------------
(* The password step.                                                      *)

Live(s) == SelectSeq(s, LAMBDA t : t + Window >= now)

\* _is_login_blocked.
IsLoginBlockedNever == FALSE
IsLoginBlocked == Len(Live(fails)) >= Limit

\* login: throttled with a 429, or on to the password.
LoginArrives(p) ==
    /\ Arrive(p)
    /\ Become(p, IF IsLoginBlocked THEN Idle ELSE [st |-> "password"])
    /\ UNCHANGED <<now, user, throttle, mfa, sessions>>

\* authenticate rejects an unknown, disabled or wrong credential; the failure is
\* audited in a session of its own and then counted.
AuthenticateFails(p) ==
    /\ req[p].st = "password"
    /\ Become(p, [st |-> "failed"])
    /\ UNCHANGED <<now, user, throttle, mfa, sessions, made>>

\* _record_login_failure prunes the bucket and appends.
RecordLoginFailure(p) ==
    /\ req[p].st = "failed"
    /\ fails' = Append(Live(fails), now)
    /\ guesses' = Append(guesses, now)
    /\ Become(p, Idle)
    /\ UNCHANGED <<now, user, mfa, sessions, made>>

\* The right password empties the bucket; with a second factor it earns only
\* the mfa_pending token.
AuthenticateSucceeds(p) ==
    /\ req[p].st = "password" /\ ~user.disabled
    /\ fails' = <<>> /\ guesses' = <<>>
    /\ IF user.totp_enabled
       THEN mfa' = TRUE /\ UNCHANGED sessions
       ELSE sessions' = sessions \cup {"password"} /\ UNCHANGED mfa
    /\ Become(p, Idle)
    /\ UNCHANGED <<now, user, made>>

-----------------------------------------------------------------------------
(* Requests that hold the row: "was" as loaded, "is" as it will be written.*)

Hold(p, is, then) ==
    /\ Arrive(p)
    /\ Become(p, [st |-> "held", was |-> user, is |-> is, then |-> then])
    /\ UNCHANGED <<now, user, throttle, mfa, sessions>>

\* _consume_2fa_code: the current TOTP, or a recovery code, which it strikes off.
Consume2faCode == {user.codes} \cup {user.codes \ {c} : c \in user.codes}

\* login_2fa with a code that is accepted.
Login2fa(p) ==
    /\ mfa /\ ~user.disabled /\ user.totp_enabled /\ user.secret # "null"
    /\ \E left \in Consume2faCode : Hold(p, [user EXCEPT !.codes = left], "session")

\* A wrong code is counted against the account; the audit row rolls back with
\* the request.
Login2faFails(p) ==
    /\ Arrive(p) /\ mfa /\ ~user.disabled /\ user.totp_enabled
    /\ fails' = Append(Live(fails), now)
    /\ UNCHANGED <<now, user, req, mfa, sessions, guesses>>

TotpSetup(p) ==
    /\ ~user.totp_enabled
    /\ \E s \in Secret : Hold(p, [user EXCEPT !.pending = s], "nothing")

TotpVerifySetup(p) ==
    /\ ~user.totp_enabled /\ user.pending # "null"
    /\ Hold(p, [user EXCEPT !.secret = user.pending, !.pending = "null",
                            !.totp_enabled = TRUE, !.codes = Code], "nothing")

Clear2faKeepsFlag(u) == [u EXCEPT !.secret = "null", !.pending = "null", !.codes = {}]

Clear2faEmpty(u) == [u EXCEPT !.totp_enabled = FALSE, !.secret = "", !.pending = "", !.codes = {}]

Clear2fa(u) == [u EXCEPT !.totp_enabled = FALSE, !.secret = "null", !.pending = "null", !.codes = {}]

TotpDisable(p) ==
    /\ user.totp_enabled /\ user.secret # "null"
    /\ Hold(p, Clear2fa(user), "nothing")

AdminDisable2fa(p) ==
    /\ user.totp_enabled \/ user.pending # "null"
    /\ Hold(p, Clear2fa(user), "nothing")

\* update_user: an administrator disables or enables the account.
UpdateUser(p) == \E d \in BOOLEAN : Hold(p, [user EXCEPT !.disabled = d], "nothing")

\* oidc_callback: links the account at the first sign-on; a second factor is
\* asked for as after a password.
OidcCallback(p) ==
    /\ ~user.disabled
    /\ Hold(p, [user EXCEPT !.sso = TRUE],
            IF user.totp_enabled THEN "mfa" ELSE "sso")

\* The session commits what changed since the load.
CommitRequest(p) ==
    /\ req[p].st = "held"
    /\ LET q == req[p]
       IN  /\ user' = [f \in DOMAIN user |-> IF q.is[f] # q.was[f] THEN q.is[f] ELSE user[f]]
           /\ mfa' = CASE q.then = "mfa" -> TRUE [] q.then = "session" -> FALSE [] OTHER -> mfa
           /\ sessions' = sessions \cup (CASE q.then = "session" -> {"totp"}
                                           [] q.then = "sso" -> {"sso"} [] OTHER -> {})
    /\ Become(p, Idle)
    /\ UNCHANGED <<now, throttle, made>>

Next ==
    \/ Tick
    \/ \E p \in Request :
        \/ LoginArrives(p) \/ AuthenticateFails(p) \/ RecordLoginFailure(p) \/ AuthenticateSucceeds(p)
        \/ Login2fa(p) \/ Login2faFails(p)
        \/ TotpSetup(p) \/ TotpVerifySetup(p) \/ TotpDisable(p) \/ AdminDisable2fa(p)
        \/ UpdateUser(p) \/ OidcCallback(p) \/ CommitRequest(p)

Spec == Init /\ [][Next]_vars

-----------------------------------------------------------------------------
\* The row and the bucket have their types.
TypeOK ==
    /\ user \in UserRow
    /\ fails \in Seq(0 .. MaxTime) /\ Len(Live(guesses)) <= Len(guesses)
    /\ sessions \subseteq {"password", "totp", "sso"}

\* The throttle is checked before the password and counted after it, so requests
\* in flight slip through; but no window ever sees more wrong passwords than the
\* limit and one for each other request in flight.
ThrottleBound == Len(Live(guesses)) <= Limit + Cardinality(Request) - 1

\* However enrollment, disabling, reset and sign-in interleave, an account that
\* asks for a second factor has the secret to check it with: otherwise its owner
\* is locked out, as every code is then refused.
EnabledHasSecret == user.totp_enabled => user.secret # "null"
=============================================================================
