----------------------------- MODULE AdminMfa -----------------------------
(***************************************************************************)
(* The multi-factor sign-in of one administrator: auth_service.py,         *)
(* admin_mfa_service.py, admin_mfa_break_glass_service.py, and the check   *)
(* of a token in api/dependencies.py, with ADMIN_MFA_ENFORCEMENT required. *)
(*                                                                         *)
(* An action is one transaction: each locks the rows it changes.  A        *)
(* handler of several transactions leaves a record between them.           *)
(***************************************************************************)
EXTENDS Naturals, Sequences, FiniteSets

CONSTANTS Custodians,     \* how many may approve a break-glass request
          MaxChallenges,  \* bound: challenges issued
          MaxHandlers,    \* bound: handlers between two transactions
          MaxWork,        \* bound: a second one enters while there are fewer challenges
          MaxGlass,       \* bound: break-glass requests
          MaxResets,      \* bound: session version up to which passwords are reset
          MaxTokens,      \* bound: tokens
          LastStep        \* bound: 30 second steps of the clock

ASSUME MfaAssumption ==
  /\ Custodians \in Nat /\ MaxChallenges \in Nat /\ MaxHandlers \in Nat
  /\ MaxWork \in Nat /\ MaxGlass \in Nat /\ MaxResets \in Nat /\ MaxTokens \in Nat
  /\ LastStep \in Nat

VARIABLES
  clock,           \* the current TOTP step
  profile,         \* admin_mfa_profiles; seed names the challenge it came from
  sessionVersion,  \* users.auth_session_version
  challenges,      \* admin_mfa_challenges, in the order they were issued
  codes,           \* unused recovery codes: one for the ten that came with a seed
  glass,           \* admin_mfa_break_glass_requests with their approvals
  logins,          \* purposes of the challenges that logins are about to issue
  resolved,        \* handlers that found their flow, or their actor, valid
  changing,        \* handlers about to store a verified recovery address
  reenrolling,     \* handlers about to issue the flow of a recovery
  signing,         \* handlers about to read the user and issue a token
  tokens,          \* tokens issued
  accepted         \* history: the steps of the codes of this seed that were accepted

mfaVars == <<clock, profile, sessionVersion, challenges, codes, glass,
             logins, resolved, changing, reenrolling, signing, tokens, accepted>>

FlowPurposes == {"admin_enrollment", "mfa_reenroll"}
Purposes == FlowPurposes \cup {"login", "enroll", "email_verify", "recovery"}
\* A row that can still be used keeps its purpose; "verified" is an email_verify
\* that was consumed, "closed" any other row that is consumed, cancelled or too
\* old: nothing asks which.  email: whether there is a target_email.
Challenge == [purpose : Purposes \cup {"verified", "closed"}, email : BOOLEAN]
Closed == [purpose |-> "closed", email |-> FALSE]
Profile == [status : {"none", "pending", "active"}, version : Nat, seed : Nat, last : Nat]
\* "closed": cancelled or expired.  The approvals of a request count while it is
\* pending.
GlassRequest == [status : {"pending", "consumed", "closed"}, approvals : Nat]
\* A flow of 0 is the actor of a token, a check of 0 is no verification challenge.
Resolved == [op : {"request", "mail", "verify", "start"}, flow : Nat, check : Nat]
\* since: what the profile was when the administrator proved to hold its seed
Signing == [version : Nat, since : Nat \X Nat]
Token == [session : Nat, version : Nat, since : Nat \X Nat]

\* Before the first enrolment, or enrolled and signed in.
MfaInit ==
  /\ clock = 1
  /\ profile \in {[status |-> "none", version |-> 0, seed |-> 0, last |-> 0],
                  [status |-> "active", version |-> 1, seed |-> 0, last |-> 0]}
  /\ sessionVersion = 0 /\ challenges = <<>>
  /\ codes = IF profile.status = "active" THEN {0} ELSE {}
  /\ glass = <<>>
  /\ logins = {} /\ resolved = {} /\ changing = 0 /\ reenrolling = 0
  /\ signing = {}
  /\ tokens = IF profile.status = "active"
              THEN {[session |-> 0, version |-> 1, since |-> <<0, 0>>]} ELSE {}
  /\ accepted = <<>>

-----------------------------------------------------------------------------
Issued(purpose, email) == [purpose |-> purpose, email |-> email]
Mailed(purpose, sent) == IF sent THEN Issued(purpose, TRUE) ELSE Closed

IsUsable(c, purpose) == c \in DOMAIN challenges /\ challenges[c].purpose = purpose

\* Rows of the table with the open ones of these purposes cancelled.
Cancelled(rows, purposes) ==
  [c \in DOMAIN rows |-> IF rows[c].purpose \in purposes THEN Closed ELSE rows[c]]
Consumed(c) == [challenges EXCEPT ![c] = Closed]

\* A wrong code is counted.  The fifth cancels the challenge; the others show
\* nowhere else, and are no steps here.
WrongCode(c) == challenges' = Consumed(c)

\* Lets the last accepted step pass again.
MutFresh(step) == step + 1 >= clock /\ step <= clock + 1 /\ step >= profile.last
\* verify_totp: one step on either side of the clock, later than the last accepted.
Fresh(step) == step + 1 >= clock /\ step <= clock + 1 /\ step > profile.last

\* How often a custodian's request was carried out.
Executed == Cardinality({g \in DOMAIN glass : glass[g].status = "consumed"})

\* get_current_user with _validate_admin_mfa_claims
Valid(t) ==
  /\ t.session = sessionVersion
  /\ profile.status = "active" /\ t.version = profile.version

Handlers ==
  Cardinality(logins) + Cardinality(resolved) + changing + reenrolling + Cardinality(signing)
\* A break-glass request keeps a place for its challenge.
GlassPlaces == Cardinality({g \in DOMAIN glass : glass[g].status = "pending"})
Room(n) == Len(challenges) + GlassPlaces + n <= MaxChallenges
CanEnter ==
  Handlers < MaxHandlers /\ (Handlers = 0 \/ Len(challenges) < MaxWork)
\* The handler of a sign-in takes the place of the challenge that it uses up.
CanTakeOver == Handlers < MaxHandlers
\* Who is about to issue a challenge begins only while there is room for it.
CanIssue == CanEnter /\ Room(1)

-----------------------------------------------------------------------------
(* Sign-in. *)

\* login: the password is right; the profile decides on the purpose.
AdminLogin ==
  /\ CanIssue
  /\ logins' = logins \cup
       {IF profile.status = "active" THEN "login" ELSE "admin_enrollment"}
  /\ UNCHANGED <<clock, profile, sessionVersion, challenges, codes, glass,
                 resolved, changing, reenrolling, signing, tokens, accepted>>

IssueLogin(purpose) ==
  /\ purpose \in logins /\ Room(1)
  /\ logins' = logins \ {purpose}
  /\ challenges' = Append(challenges, Issued(purpose, FALSE))
  /\ UNCHANGED <<clock, profile, sessionVersion, codes, glass,
                 resolved, changing, reenrolling, signing, tokens, accepted>>

\* verify_admin_mfa: a code of this step, or a wrong one (step 0).
VerifyLogin(c, step) ==
  /\ IsUsable(c, "login") /\ profile.status = "active"
  /\ IF Fresh(step)
     THEN /\ CanTakeOver
          /\ profile' = [profile EXCEPT !.last = step]
          /\ challenges' = Consumed(c)
          /\ signing' = signing \cup
               {[version |-> profile.version, since |-> <<profile.seed, Executed>>]}
          /\ accepted' = Append(accepted, step)
     ELSE WrongCode(c) /\ UNCHANGED <<profile, signing, accepted>>
  /\ UNCHANGED <<clock, sessionVersion, codes, glass, logins, resolved,
                 changing, reenrolling, tokens>>

\* Takes the version that the profile has by now.
MutClaims(s) ==
  [session |-> sessionVersion, version |-> profile.version, since |-> s.since]
\* The version read in the transaction, the session version read after it.
Claims(s) == [session |-> sessionVersion, version |-> s.version, since |-> s.since]

\* The end of verify_admin_mfa and of confirm_totp_enrollment.
IssueToken(s) ==
  /\ s \in signing /\ Cardinality(tokens) < MaxTokens
  /\ signing' = signing \ {s}
  /\ tokens' = tokens \cup {Claims(s)}
  /\ UNCHANGED <<clock, profile, sessionVersion, challenges, codes, glass, logins,
                 resolved, changing, reenrolling, accepted>>

-----------------------------------------------------------------------------
(* Enrolment. *)

\* _resolve_mfa_flow_user: an open flow, or the actor of a valid token.
Resolve(op, flow, check) ==
  /\ CanEnter /\ (op = "start" => Room(1))
  /\ IF flow = 0 THEN \E t \in tokens : Valid(t)
     ELSE \E purpose \in FlowPurposes : IsUsable(flow, purpose)
  /\ resolved' = resolved \cup {[op |-> op, flow |-> flow, check |-> check]}
  /\ UNCHANGED <<clock, profile, sessionVersion, challenges, codes, glass, logins,
                 changing, reenrolling, signing, tokens, accepted>>

\* request_recovery_email without a flow is a step-up: it needs a code of the
\* profile that is active.
NeedsStepUp(r) == r.op = "request" /\ r.flow = 0 /\ profile.status = "active"

StepUp(r, step) ==
  /\ r \in resolved /\ NeedsStepUp(r) /\ Fresh(step)
  /\ resolved' = (resolved \ {r}) \cup {[r EXCEPT !.op = "mail"]}
  /\ profile' = [profile EXCEPT !.last = step]
  /\ accepted' = Append(accepted, step)
  /\ UNCHANGED <<clock, sessionVersion, challenges, codes, glass, logins,
                 changing, reenrolling, signing, tokens>>

\* request_recovery_email: a mail that cannot be sent cancels its challenge, which
\* nobody has seen.
RequestEmail(r, sent) ==
  /\ r \in resolved /\ r.op \in {"request", "mail"} /\ ~NeedsStepUp(r) /\ Room(1)
  /\ resolved' = resolved \ {r}
  /\ challenges' = Append(challenges, Mailed("email_verify", sent))
  /\ UNCHANGED <<clock, profile, sessionVersion, codes, glass, logins,
                 changing, reenrolling, signing, tokens, accepted>>

\* verify_recovery_email: consume_email_otp.
VerifyEmail(r, right) ==
  /\ r \in resolved /\ r.op = "verify" /\ IsUsable(r.check, "email_verify")
  /\ resolved' = resolved \ {r}
  /\ IF right
     THEN /\ challenges' = [challenges EXCEPT ![r.check].purpose = "verified"]
          /\ changing' = IF r.flow = 0 THEN changing + 1 ELSE changing
     ELSE WrongCode(r.check) /\ UNCHANGED changing
  /\ UNCHANGED <<clock, profile, sessionVersion, codes, glass, logins,
                 reenrolling, signing, tokens, accepted>>

\* verify_recovery_email without a flow: its second transaction.
ChangeEmail ==
  /\ changing > 0
  /\ changing' = changing - 1
  /\ IF profile.status = "active"
     THEN /\ profile' = [profile EXCEPT !.version = @ + 1]
          /\ sessionVersion' = sessionVersion + 1
     ELSE UNCHANGED <<profile, sessionVersion>>
  /\ UNCHANGED <<clock, challenges, codes, glass, logins, resolved,
                 reenrolling, signing, tokens, accepted>>

\* What proves the address: a verified one, or the flow of a recovery, used up.
ByCheck(r) == IsUsable(r.check, "verified")
ByFlow(r) == r.check = 0 /\ IsUsable(r.flow, "mfa_reenroll")

\* Leaves an enrolment that was started before.
MutReplaced(rows) == rows
\* Enrolments that were started before are cancelled.
Replaced(rows) == Cancelled(rows, {"enroll"})

\* start_totp_enrollment
StartEnrolment(r) ==
  /\ r \in resolved /\ r.op = "start" /\ Room(1)
  /\ resolved' = resolved \ {r}
  /\ ByCheck(r) \/ ByFlow(r)
  /\ profile' = [profile EXCEPT !.status = IF @ = "none" THEN "pending" ELSE @]
  /\ challenges' =
       LET proof == IF ByCheck(r) THEN r.check ELSE r.flow
           rows  == IF ByCheck(r) THEN challenges ELSE Consumed(r.flow)
       IN  Append(Replaced(rows), Issued("enroll", challenges[proof].email))
  /\ UNCHANGED <<clock, sessionVersion, codes, glass, logins,
                 changing, reenrolling, signing, tokens, accepted>>

\* A handler that found its flow valid ends with an error.
ResolvedFails(r) ==
  /\ r \in resolved
  /\ resolved' = resolved \ {r}
  /\ UNCHANGED <<clock, profile, sessionVersion, challenges, codes, glass, logins,
                 changing, reenrolling, signing, tokens, accepted>>

\* A code for the pending seed: whatever was accepted before was for another one.
InWindow(step) == step + 1 >= clock /\ step <= clock + 1

\* confirm_totp_enrollment.  The row of an active profile needs an address
\* (admin_mfa_profiles_active_material_check): without one nothing is committed.
ConfirmEnrolment(c, step) ==
  /\ IsUsable(c, "enroll") /\ profile.status # "none"
  /\ IF InWindow(step)
     THEN /\ challenges[c].email /\ CanEnter
          /\ profile' = [status |-> "active", version |-> profile.version + 1,
                         seed |-> c, last |-> step]
          /\ codes' = {c}
          /\ sessionVersion' = sessionVersion + 1
          /\ challenges' = Cancelled(Consumed(c), FlowPurposes)
          /\ signing' = signing \cup
               {[version |-> profile.version + 1, since |-> <<c, Executed>>]}
          /\ accepted' = <<step>>
     ELSE WrongCode(c) /\ UNCHANGED <<profile, codes, sessionVersion, signing, accepted>>
  /\ UNCHANGED <<clock, glass, logins, resolved, changing, reenrolling, tokens>>

-----------------------------------------------------------------------------
(* Recovery. *)

\* request_recovery
RequestRecovery(sent) ==
  /\ profile.status = "active" /\ Room(1)
  /\ challenges' = Append(challenges, Mailed("recovery", sent))
  /\ UNCHANGED <<clock, profile, sessionVersion, codes, glass, logins,
                 resolved, changing, reenrolling, signing, tokens, accepted>>

\* verify_recovery with the code of a mail
RecoverByMail(c, right) ==
  /\ IsUsable(c, "recovery")
  /\ IF right
     THEN /\ CanIssue /\ challenges' = Consumed(c)
          /\ reenrolling' = reenrolling + 1
     ELSE WrongCode(c) /\ UNCHANGED reenrolling
  /\ UNCHANGED <<clock, profile, sessionVersion, codes, glass, logins,
                 resolved, changing, signing, tokens, accepted>>

\* verify_recovery with a recovery code
RecoverByCode(code) ==
  /\ profile.status = "active" /\ code \in codes /\ CanIssue
  /\ codes' = codes \ {code}
  /\ reenrolling' = reenrolling + 1
  /\ UNCHANGED <<clock, profile, sessionVersion, challenges, glass, logins,
                 resolved, changing, signing, tokens, accepted>>

\* verify_recovery: its last transaction
IssueReenrolment ==
  /\ reenrolling > 0 /\ Room(1)
  /\ reenrolling' = reenrolling - 1
  /\ challenges' = Append(challenges, Issued("mfa_reenroll", TRUE))
  /\ UNCHANGED <<clock, profile, sessionVersion, codes, glass, logins,
                 resolved, changing, signing, tokens, accepted>>

\* A handler that dies, or loses the database, before its last transaction.
HandlerDies ==
  /\ \/ /\ \E purpose \in logins : logins' = logins \ {purpose}
        /\ UNCHANGED <<changing, reenrolling, signing>>
     \/ /\ changing > 0 /\ changing' = changing - 1
        /\ UNCHANGED <<logins, reenrolling, signing>>
     \/ /\ reenrolling > 0 /\ reenrolling' = reenrolling - 1
        /\ UNCHANGED <<logins, changing, signing>>
     \/ /\ \E s \in signing : signing' = signing \ {s}
        /\ UNCHANGED <<logins, changing, reenrolling>>
  /\ UNCHANGED <<clock, profile, sessionVersion, challenges, codes, glass,
                 resolved, tokens, accepted>>

-----------------------------------------------------------------------------
(* The break-glass procedure, from the command line. *)

\* create_request
CreateGlass ==
  /\ Len(glass) < MaxGlass /\ Room(1)
  /\ glass' = Append(glass, [status |-> "pending", approvals |-> 0])
  /\ UNCHANGED <<clock, profile, sessionVersion, challenges, codes, logins,
                 resolved, changing, reenrolling, signing, tokens, accepted>>

Pending(g) == g \in DOMAIN glass /\ glass[g].status = "pending"

\* approve: a custodian that the configuration calls active, and a new one.
ApproveGlass(g) ==
  /\ Pending(g) /\ glass[g].approvals < Custodians
  /\ glass' = [glass EXCEPT ![g].approvals = @ + 1]
  /\ UNCHANGED <<clock, profile, sessionVersion, challenges, codes, logins,
                 resolved, changing, reenrolling, signing, tokens, accepted>>

EndGlass(g, status) ==
  glass' = [glass EXCEPT ![g] = [status |-> status, approvals |-> 0]]

\* cancel; or _lock_request finds the request too old, whatever was to be done.
CancelGlass(g) ==
  /\ Pending(g) /\ EndGlass(g, "closed")
  /\ UNCHANGED <<clock, profile, sessionVersion, challenges, codes, logins,
                 resolved, changing, reenrolling, signing, tokens, accepted>>

\* Every token that was issued for this profile is stale.
Reset == profile' = [profile EXCEPT !.version = @ + 1]

\* execute.  It is refused if the approval of any custodian is no longer valid.
ExecuteGlass(g) ==
  /\ Pending(g)
  /\ glass[g].approvals >= 2 /\ profile.status # "none"
  /\ challenges' = Append(Cancelled(challenges, Purposes), Issued("mfa_reenroll", FALSE))
  /\ sessionVersion' = sessionVersion + 1
  /\ Reset
  /\ EndGlass(g, "consumed")
  /\ UNCHANGED <<clock, codes, logins, resolved, changing, reenrolling,
                 signing, tokens, accepted>>

-----------------------------------------------------------------------------
(* Time, the configuration, and other administrators. *)

Tick ==
  /\ clock < LastStep
  /\ clock' = clock + 1
  /\ UNCHANGED <<profile, sessionVersion, challenges, codes, glass, logins,
                 resolved, changing, reenrolling, signing, tokens, accepted>>

ChallengeExpires(c) ==
  /\ c \in DOMAIN challenges /\ challenges[c] # Closed
  /\ challenges' = Consumed(c)
  /\ UNCHANGED <<clock, profile, sessionVersion, codes, glass, logins,
                 resolved, changing, reenrolling, signing, tokens, accepted>>

\* decode_access_token refuses it, or its client has signed out.
TokenEnds(t) ==
  /\ t \in tokens
  /\ tokens' = tokens \ {t}
  /\ UNCHANGED <<clock, profile, sessionVersion, challenges, codes, glass, logins,
                 resolved, changing, reenrolling, signing, accepted>>

\* reset_user_password with revoke_sessions
ResetPassword ==
  /\ sessionVersion < MaxResets
  /\ sessionVersion' = sessionVersion + 1
  /\ UNCHANGED <<clock, profile, challenges, codes, glass, logins,
                 resolved, changing, reenrolling, signing, tokens, accepted>>

SignInStep ==
  \/ AdminLogin \/ \E purpose \in logins : IssueLogin(purpose)
  \/ \E c \in DOMAIN challenges, step \in 0..clock + 1 : VerifyLogin(c, step)
  \/ \E s \in signing : IssueToken(s)

\* A check of something else fails; consume_email_otp counts that against it too,
\* which ChallengeExpires stands for.
Addresses ==
  {c \in DOMAIN challenges : challenges[c].purpose \in {"email_verify", "verified"}}

\* A handler that finds its check closed, or nothing that proves an address, when it
\* begins ends with an error and changes nothing: no step here.
EnrolmentStep ==
  \/ \E flow \in 0..Len(challenges), check \in {0} \cup Addresses :
       \/ check = 0 /\ Resolve("request", flow, 0)
       \/ IsUsable(check, "email_verify") /\ Resolve("verify", flow, check)
       \/ (check = 0 => IsUsable(flow, "mfa_reenroll")) /\ Resolve("start", flow, check)
  \/ ChangeEmail
  \/ \E r \in resolved :
       \/ \E step \in 1..clock + 1 : StepUp(r, step)
       \/ \E sent \in BOOLEAN : RequestEmail(r, sent)
       \/ \E right \in BOOLEAN : VerifyEmail(r, right)
       \/ StartEnrolment(r) \/ ResolvedFails(r)
  \/ \E c \in DOMAIN challenges, step \in 0..clock + 1 : ConfirmEnrolment(c, step)

RecoveryStep ==
  \/ \E sent \in BOOLEAN : RequestRecovery(sent)
  \/ \E c \in DOMAIN challenges, right \in BOOLEAN : RecoverByMail(c, right)
  \/ \E code \in codes : RecoverByCode(code)
  \/ IssueReenrolment \/ HandlerDies

GlassStep ==
  \/ CreateGlass
  \/ \E g \in DOMAIN glass :
       \/ ApproveGlass(g) \/ CancelGlass(g) \/ ExecuteGlass(g)

MfaNext ==
  \/ SignInStep \/ EnrolmentStep \/ RecoveryStep \/ GlassStep
  \/ Tick \/ ResetPassword \/ \E t \in tokens : TokenEnds(t)
  \/ \E c \in DOMAIN challenges : ChallengeExpires(c)

MfaSpec == MfaInit /\ [][MfaNext]_mfaVars

-----------------------------------------------------------------------------
MfaTypeOK ==
  /\ clock \in Nat /\ profile \in Profile /\ sessionVersion \in Nat
  /\ challenges \in Seq(Challenge) /\ codes \subseteq Nat
  /\ glass \in Seq(GlassRequest)
  /\ logins \subseteq {"login", "admin_enrollment"} /\ resolved \subseteq Resolved
  /\ changing \in Nat /\ reenrolling \in Nat
  /\ signing \subseteq Signing /\ tokens \subseteq Token
  /\ accepted \in Seq(Nat)

\* A token that passes belongs to the authenticator enrolled now, and to no time
\* before a break-glass request was carried out, although its two versions are
\* read at two times.
TokensAreCurrent ==
  \A t \in tokens : Valid(t) => t.since = <<profile.seed, Executed>>

OpenEnrolments ==
  {c \in DOMAIN challenges : challenges[c].purpose = "enroll"}

\* However starts and confirmations interleave there is one seed to confirm at
\* most, and it is younger than the one enrolled: no old QR code replaces a newer.
NewestEnrolment ==
  \A c \in OpenEnrolments : c > profile.seed /\ OpenEnrolments = {c}

\* Each code is accepted once, by one handler: the codes of a seed are accepted in
\* the order of their steps, whether a sign-in, a step-up or the confirmation of
\* the seed takes them.
CodesAreSpent ==
  \A i, j \in DOMAIN accepted : i < j => accepted[i] < accepted[j]
=============================================================================
