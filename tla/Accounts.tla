------------------------------ MODULE Accounts ------------------------------
(***************************************************************************)
(* Sign-up, the one-time codes that confirm an address or reset a          *)
(* password, sign-in through Google and Apple, and the erasure of an       *)
(* account.  The codes live in the memory of the process, one per address; *)
(* the profiles are rows with a unique name, address and provider id.      *)
(*                                                                         *)
(* Left out: the password itself (a row has one or not), tokens, names and *)
(* onboarding answers, and the format checks of address, name and code.    *)
(* An address is its lower-case form.                                      *)
(***************************************************************************)
EXTENDS Handlers, Integers, FiniteSets

CONSTANTS
  Emails,
  Names,        \* user names asked for at sign-up
  Subjects,     \* ids of the users of Google and of Apple
  Profiles,     \* ids of user_profiles
  MaxAttempts,  \* MAX_OTP_ATTEMPTS
  MaxCodes      \* bound: codes mailed in a run

VARIABLES
  profiles,       \* [Profiles -> None or [email, name, secret, subs, confirmed]]
  otpStore,       \* [Emails -> None or [code, type, attempts, age]]
  mailed,         \* number of codes mailed
  proven,         \* history: addresses a code came back from or a token carried
  claimed,        \* history: addresses a client named beside a token without one
  confirmations,  \* history: [codes -> how often a code was taken as right]
  acalls          \* [Calls -> None or the handler in progress]

accountVars == <<profiles, otpStore, mailed, proven, claimed, confirmations, acalls>>

Providers == {"google", "apple"}

(* The empty address of a sign-in that comes with none.                    *)
NoAddress == ""
Addresses == Emails \cup {NoAddress}

(* Ages of a code: just sent, past the thirty seconds of a resend, past    *)
(* the cooldown of five minutes, past its life of fifteen.                 *)
Ages  == {"new", "waited", "cooled", "expired"}
Codes == 1..MaxCodes
Otp   == [code : Codes, type : {"signup", "password_reset"}, attempts : Nat, age : Ages]

(* A generated name is unique: it is written as the id of its row.         *)
ProfileRow == [email : Addresses \cup {None}, name : Names \cup Profiles, secret : BOOLEAN,
               subs : [Providers -> Subjects \cup {None}], confirmed : BOOLEAN]

SignupCall   == [at : {"checkEmail", "hash", "create", "createAgain"}, email : Emails, name : Names]
CodeCall     == [at : {"findProfile", "resend", "resendRefused", "resendCode", "resetCode",
                       "resetProfile", "resetClear"}, email : Emails, attempts : Nat]
ConfirmCall  == [at : {"confirm"}, email : Addresses, row : Profiles]
ResetCall    == [at : {"resetWrite"}, email : Emails, row : Profiles]
EraseCall    == [at : {"erase"}, email : {None}, row : Profiles]
ProviderCall == [at : {"findLinked", "findByEmail", "createLinked"}, email : Addresses,
                 provider : Providers, subject : Subjects]
LinkCall     == [at : {"link"}, email : Addresses, provider : Providers, subject : Subjects,
                 row : Profiles]

AccountCall ==
  SignupCall \cup CodeCall \cup ConfirmCall \cup ResetCall \cup EraseCall \cup ProviderCall
    \cup LinkCall

ASSUME AccountsAssumption ==
  /\ MaxAttempts \in Nat \ {0}
  /\ MaxCodes \in Nat
  /\ NoAddress \notin Emails
  /\ None \notin Addresses \cup Subjects \cup ProfileRow \cup Otp \cup AccountCall

AccountsInit ==
  /\ profiles = [p \in Profiles |-> None]
  /\ otpStore = [e \in Emails |-> None]
  /\ mailed = 0
  /\ proven = {}
  /\ claimed = {}
  /\ confirmations = [k \in Codes |-> 0]
  /\ acalls = [c \in Calls |-> None]

Owner(e)     == {p \in RowIds(profiles) : profiles[p].email = e}
NameTaken(n) == \E p \in RowIds(profiles) : profiles[p].name = n

AStarts(c, call) == /\ acalls[c] = None
                    /\ acalls' = [acalls EXCEPT ![c] = call]
AGoes(c, at)     == acalls' = [acalls EXCEPT ![c].at = at]
AEnds(c)         == acalls' = [acalls EXCEPT ![c] = None]

(* storeOtp: a new code replaces the one the address had.                  *)
StoreOtp(e, type, attempts) ==
  /\ mailed < MaxCodes
  /\ mailed' = mailed + 1
  /\ otpStore' = [otpStore EXCEPT ![e] =
       [code |-> mailed + 1, type |-> type, attempts |-> attempts, age |-> "new"]]

Older(age) == IF age = "new" THEN "waited" ELSE IF age = "waited" THEN "cooled" ELSE "expired"

TimePasses(e) ==
  /\ otpStore[e] # None
  /\ otpStore[e].age # "expired"
  /\ otpStore' = [otpStore EXCEPT ![e].age = Older(@)]
  /\ UNCHANGED <<profiles, mailed, proven, claimed, confirmations, acalls>>

----------------------------------------------------------------------------
(* signup: the name, then the address, then the hash of the password; the  *)
(* code is stored before the row is written.  An error of a check is not a *)
(* reason to stop.                                                         *)

Signup(c, e, n) ==
  /\ \E readFails \in BOOLEAN : readFails \/ ~NameTaken(n)
  /\ AStarts(c, [at |-> "checkEmail", email |-> e, name |-> n])
  /\ UNCHANGED <<profiles, otpStore, mailed, proven, claimed, confirmations>>

CheckEmail(c) ==
  /\ Waits(acalls[c], "checkEmail")
  /\ IF Owner(acalls[c].email) # {} THEN AEnds(c) ELSE AGoes(c, "hash")
  /\ UNCHANGED <<profiles, otpStore, mailed, proven, claimed, confirmations>>

MailSignupCode(c) ==
  /\ Waits(acalls[c], "hash")
  /\ StoreOtp(acalls[c].email, "signup", 1)
  /\ AGoes(c, "create")
  /\ UNCHANGED <<profiles, proven, claimed, confirmations>>

NoSubs == [provider \in Providers |-> None]

NewRow(e, n, secret, subs) ==
  [email |-> e, name |-> n, secret |-> secret, subs |-> subs, confirmed |-> FALSE]

(* createProfile: a duplicate of any kind is taken for one of the name.    *)
CreateProfile(c) ==
  /\ Waits(acalls[c], "create")
  /\ LET k == acalls[c]
     IN IF NameTaken(k.name) \/ Owner(k.email) # {}
        THEN AGoes(c, "createAgain") /\ UNCHANGED profiles
        ELSE /\ \E p \in FreeIds(profiles) :
                  profiles' = [profiles EXCEPT ![p] = NewRow(k.email, k.name, TRUE, NoSubs)]
             /\ AEnds(c)
  /\ UNCHANGED <<otpStore, mailed, proven, claimed, confirmations>>

(* createProfileWithUniqueUsername is not given the hash of the password.  *)
CreateProfileAgain(c) ==
  /\ Waits(acalls[c], "createAgain")
  /\ IF Owner(acalls[c].email) # {}
     THEN UNCHANGED profiles
     ELSE \E p \in FreeIds(profiles) :
            profiles' = [profiles EXCEPT ![p] = NewRow(acalls[c].email, p, FALSE, NoSubs)]
  /\ AEnds(c)
  /\ UNCHANGED <<otpStore, mailed, proven, claimed, confirmations>>

----------------------------------------------------------------------------
(* The codes                                                               *)

(* A code is right at the address it was mailed to, while it lives.        *)
Right(e, k) == otpStore[e] # None /\ otpStore[e].age # "expired" /\ otpStore[e].code = k

MailedTo(k) == {f \in Emails : otpStore[f] # None /\ otpStore[f].code = k}

VerifyOtpKeepsCode(c, e, k) ==
  /\ Right(e, k)
  /\ proven' = proven \cup MailedTo(k)
  /\ confirmations' = [confirmations EXCEPT ![k] = @ + 1]
  /\ AStarts(c, [at |-> "findProfile", email |-> e, attempts |-> 0])
  /\ UNCHANGED <<profiles, otpStore, mailed, claimed>>

VerifyOtpByCode(c, e, k) ==
  /\ \E f \in Emails : Right(f, k) /\ otpStore' = [otpStore EXCEPT ![f] = None]
  /\ proven' = proven \cup MailedTo(k)
  /\ confirmations' = [confirmations EXCEPT ![k] = @ + 1]
  /\ AStarts(c, [at |-> "findProfile", email |-> e, attempts |-> 0])
  /\ UNCHANGED <<profiles, mailed, claimed>>

(* verifyOtp with verifyStoredOtp: looked up and deleted without a pause.  *)
(* A wrong code changes nothing.                                           *)
VerifyOtp(c, e, k) ==
  /\ Right(e, k)
  /\ otpStore' = [otpStore EXCEPT ![e] = None]
  /\ proven' = proven \cup MailedTo(k)
  /\ confirmations' = [confirmations EXCEPT ![k] = @ + 1]
  /\ AStarts(c, [at |-> "findProfile", email |-> e, attempts |-> 0])
  /\ UNCHANGED <<profiles, mailed, claimed>>

FindProfile(c) ==
  /\ Waits(acalls[c], "findProfile")
  /\ IF Owner(acalls[c].email) = {} THEN AEnds(c)
     ELSE \E p \in Owner(acalls[c].email) :
            acalls' = [acalls EXCEPT ![c] = [at |-> "confirm", email |-> @.email, row |-> p]]
  /\ UNCHANGED <<profiles, otpStore, mailed, proven, claimed, confirmations>>

ConfirmEmail(c) ==
  /\ Waits(acalls[c], "confirm")
  /\ profiles' = [profiles EXCEPT ![acalls[c].row].confirmed = TRUE]
  /\ AEnds(c)
  /\ UNCHANGED <<otpStore, mailed, proven, claimed, confirmations>>

SendOtp(e) ==
  /\ StoreOtp(e, "signup", 1)
  /\ UNCHANGED <<profiles, proven, claimed, confirmations, acalls>>

AtLimitOneMore(o) == o.attempts > MaxAttempts

AtLimit(o) == o.attempts >= MaxAttempts

(* resendOtp: at the maximum a cooldown of five minutes has to pass, and   *)
(* thirty seconds between any two.  The count then starts again, in the    *)
(* entry itself.                                                           *)
MayResend(o) == o # None => /\ o.age # "new"
                            /\ AtLimit(o) => o.age \in {"cooled", "expired"}

ResendOtp(c, e) ==
  /\ MayResend(otpStore[e])
  /\ LET o == otpStore[e]
         spent == IF o = None \/ AtLimit(o) THEN 0 ELSE o.attempts
     IN /\ otpStore' = IF o = None THEN otpStore
                       ELSE [otpStore EXCEPT ![e].attempts = spent]
        /\ AStarts(c, [at |-> "resend", email |-> e, attempts |-> spent])
  /\ UNCHANGED <<profiles, mailed, proven, claimed, confirmations>>

ReadConfirmed(c) ==
  /\ Waits(acalls[c], "resend")
  /\ LET confirmed == \E p \in Owner(acalls[c].email) : profiles[p].confirmed
     IN AGoes(c, IF confirmed THEN "resendRefused" ELSE "resendCode")
  /\ UNCHANGED <<profiles, otpStore, mailed, proven, claimed, confirmations>>

(* A confirmed address gets a new code only while it has one pending.      *)
MailAgain(c) ==
  /\ \/ Waits(acalls[c], "resendCode")
     \/ Waits(acalls[c], "resendRefused")
  /\ LET k == acalls[c]
     IN IF k.at = "resendRefused" /\ otpStore[k.email] = None
        THEN UNCHANGED <<otpStore, mailed>>
        ELSE StoreOtp(k.email, "signup", k.attempts + 1)
  /\ AEnds(c)
  /\ UNCHANGED <<profiles, proven, claimed, confirmations>>

ForgotPassword(c, e) ==
  /\ Owner(e) # {}
  /\ AStarts(c, [at |-> "resetCode", email |-> e, attempts |-> 0])
  /\ UNCHANGED <<profiles, otpStore, mailed, proven, claimed, confirmations>>

MailResetCode(c) ==
  /\ Waits(acalls[c], "resetCode")
  /\ StoreOtp(acalls[c].email, "password_reset", 1)
  /\ AEnds(c)
  /\ UNCHANGED <<profiles, proven, claimed, confirmations>>

(* resetPasswordWithOtp: the code is compared first and deleted last, and  *)
(* what is deleted is whatever code the address then has.                  *)
ResetPasswordWithOtp(c, e, k) ==
  /\ Right(e, k)
  /\ \E o \in {otpStore[e]} \ {None} : o.type = "password_reset"
  /\ AStarts(c, [at |-> "resetProfile", email |-> e, attempts |-> 0])
  /\ UNCHANGED <<profiles, otpStore, mailed, proven, claimed, confirmations>>

FindResetProfile(c) ==
  /\ Waits(acalls[c], "resetProfile")
  /\ IF Owner(acalls[c].email) = {} THEN AEnds(c)
     ELSE \E p \in Owner(acalls[c].email) :
            acalls' = [acalls EXCEPT ![c] = [at |-> "resetWrite", email |-> @.email, row |-> p]]
  /\ UNCHANGED <<profiles, otpStore, mailed, proven, claimed, confirmations>>

WritePassword(c) ==
  /\ Waits(acalls[c], "resetWrite")
  /\ profiles' = [profiles EXCEPT ![acalls[c].row].secret = TRUE]
  /\ acalls' = [acalls EXCEPT ![c] = [at |-> "resetClear", email |-> @.email, attempts |-> 0]]
  /\ UNCHANGED <<otpStore, mailed, proven, claimed, confirmations>>

ClearOtp(c) ==
  /\ Waits(acalls[c], "resetClear")
  /\ otpStore' = [otpStore EXCEPT ![acalls[c].email] = None]
  /\ AEnds(c)
  /\ UNCHANGED <<profiles, mailed, proven, claimed, confirmations>>

----------------------------------------------------------------------------
(* googleCallback and verifyAppleToken: by provider id, then by address,   *)
(* then a new row.  The result of every write is ignored.                  *)

StartsSignIn(c, provider, subject, address) ==
  AStarts(c, [at |-> "findLinked", email |-> address, provider |-> provider, subject |-> subject])

(* The token carries the address, which need not be one that its owner has *)
(* verified.                                                               *)
ProviderSignIn(c, provider, subject, e) ==
  /\ proven' = proven \cup {e}
  /\ StartsSignIn(c, provider, subject, e)
  /\ UNCHANGED <<profiles, otpStore, mailed, claimed, confirmations>>

(* Apple's token may carry none: then what the client names is taken.      *)
AppleSignIn(c, subject, address) ==
  /\ claimed' = claimed \cup ({address} \ {NoAddress})
  /\ StartsSignIn(c, "apple", subject, address)
  /\ UNCHANGED <<profiles, otpStore, mailed, proven, confirmations>>

Linked(provider, subject) == {p \in RowIds(profiles) : profiles[p].subs[provider] = subject}

(* A look that fails finds nothing; an empty address is not looked for.    *)
FindLinked(c) ==
  /\ Waits(acalls[c], "findLinked")
  /\ \/ Linked(acalls[c].provider, acalls[c].subject) # {} /\ AEnds(c)
     \/ AGoes(c, IF acalls[c].email = NoAddress THEN "createLinked" ELSE "findByEmail")
  /\ UNCHANGED <<profiles, otpStore, mailed, proven, claimed, confirmations>>

FindByEmail(c) ==
  /\ Waits(acalls[c], "findByEmail")
  /\ LET k == acalls[c]
     IN \/ AGoes(c, "createLinked")
        \/ \E p \in Owner(k.email) :
             acalls' = [acalls EXCEPT ![c] =
               [at |-> "link", email |-> k.email, provider |-> k.provider,
                subject |-> k.subject, row |-> p]]
  /\ UNCHANGED <<profiles, otpStore, mailed, proven, claimed, confirmations>>

(* The id replaces one the row had of the provider; that of another row is *)
(* refused by the unique index, with the whole update.                     *)
LinkProvider(c) ==
  /\ Waits(acalls[c], "link")
  /\ LET k == acalls[c]
     IN profiles' = IF Linked(k.provider, k.subject) \subseteq {k.row}
                    THEN [profiles EXCEPT ![k.row].subs[k.provider] = k.subject,
                                          ![k.row].confirmed = TRUE]
                    ELSE profiles
  /\ AEnds(c)
  /\ UNCHANGED <<otpStore, mailed, proven, claimed, confirmations>>

(* The row is inserted first and confirmed by a statement of its own; when *)
(* the insert is refused that update finds no row, and the user is given   *)
(* tokens of an account that does not exist.                               *)
CreateLinked(c) ==
  /\ Waits(acalls[c], "createLinked")
  /\ LET k == acalls[c]
     IN IF Owner(k.email) # {} \/ Linked(k.provider, k.subject) # {}
        THEN AEnds(c) /\ UNCHANGED profiles
        ELSE \E p \in FreeIds(profiles) :
               /\ profiles' = [profiles EXCEPT ![p] =
                    NewRow(k.email, p, FALSE, [NoSubs EXCEPT ![k.provider] = k.subject])]
               /\ acalls' = [acalls EXCEPT ![c] =
                    [at |-> "confirm", email |-> k.email, row |-> p]]
  /\ UNCHANGED <<otpStore, mailed, proven, claimed, confirmations>>

----------------------------------------------------------------------------
(* deleteAccount: the row stays, under an address and a name of nobody.    *)
DeleteAccount(c, p) ==
  /\ profiles[p] # None
  /\ AStarts(c, [at |-> "erase", email |-> None, row |-> p])
  /\ UNCHANGED <<profiles, otpStore, mailed, proven, claimed, confirmations>>

EraseProfile(c) ==
  /\ Waits(acalls[c], "erase")
  /\ profiles' = [profiles EXCEPT ![acalls[c].row].email = None,
                                  ![acalls[c].row].name = acalls[c].row]
  /\ AEnds(c)
  /\ UNCHANGED <<otpStore, mailed, proven, claimed, confirmations>>

(* A statement or a mail fails, or the client goes away.                   *)
AccountAbort(c) ==
  /\ acalls[c] # None
  /\ AEnds(c)
  /\ UNCHANGED <<profiles, otpStore, mailed, proven, claimed, confirmations>>

(* A new process knows none of the codes.                                  *)
Restart ==
  /\ otpStore' = [e \in Emails |-> None]
  /\ acalls' = [c \in Calls |-> None]
  /\ UNCHANGED <<profiles, mailed, proven, claimed, confirmations>>

AccountStarts(c) ==
  \/ \E e \in Emails :
       \/ \E n \in Names : Signup(c, e, n)
       \/ \E k \in Codes : VerifyOtp(c, e, k) \/ ResetPasswordWithOtp(c, e, k)
       \/ ResendOtp(c, e)
       \/ ForgotPassword(c, e)
       \/ \E provider \in Providers, subject \in Subjects :
            ProviderSignIn(c, provider, subject, e)
  \/ \E subject \in Subjects, address \in Addresses : AppleSignIn(c, subject, address)
  \/ \E p \in Profiles : DeleteAccount(c, p)

AccountStep(c) ==
  \/ CheckEmail(c)
  \/ MailSignupCode(c)
  \/ CreateProfile(c)
  \/ CreateProfileAgain(c)
  \/ FindProfile(c)
  \/ ConfirmEmail(c)
  \/ ReadConfirmed(c)
  \/ MailAgain(c)
  \/ MailResetCode(c)
  \/ FindResetProfile(c)
  \/ WritePassword(c)
  \/ ClearOtp(c)
  \/ FindLinked(c)
  \/ FindByEmail(c)
  \/ LinkProvider(c)
  \/ CreateLinked(c)
  \/ EraseProfile(c)

AccountsNext ==
  \/ \E c \in Calls : AccountStarts(c) \/ AccountStep(c) \/ AccountAbort(c)
  \/ \E e \in Emails : TimePasses(e) \/ SendOtp(e)
  \/ Restart

AccountsSpec == AccountsInit /\ [][AccountsNext]_accountVars

----------------------------------------------------------------------------
(* Properties                                                              *)

AccountsTypeOK ==
  /\ profiles \in [Profiles -> ProfileRow \cup {None}]
  /\ otpStore \in [Emails -> Otp \cup {None}]
  /\ mailed \in 0..MaxCodes
  /\ proven \subseteq Emails
  /\ claimed \subseteq Emails
  /\ confirmations \in [Codes -> Nat]
  /\ acalls \in [Calls -> AccountCall \cup {None}]

(* A code mailed once is right once: however two verifications of the same *)
(* code overlap, verifyStoredOtp lets one of them through.                 *)
CodeConfirmsOnce == \A k \in Codes : confirmations[k] <= 1

(* attemptsRemaining, MAX_OTP_ATTEMPTS less the count, is never negative,  *)
(* with two resends of one address between check and store.                *)
ResendBudget ==
  \A e \in Emails : otpStore[e] # None => otpStore[e].attempts <= MaxAttempts

AppleLinked(p) == profiles[p].subs["apple"] # None

(* An account is confirmed at an address only when a code mailed there has *)
(* come back or a provider's token has carried it, or, on the word of a    *)
(* client alone (auth.service.ts:516), when it is linked to an Apple id:   *)
(* the update by id never hits an account that is no longer, or not yet,   *)
(* the one the code or the sign-in was for.                                *)
ConfirmationHasGround ==
  \A p \in RowIds(profiles) :
    LET e == profiles[p].email
    IN profiles[p].confirmed /\ e \in Emails => e \in proven \/ (e \in claimed /\ AppleLinked(p))
=============================================================================
