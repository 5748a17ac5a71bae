----------------------------- MODULE Enrolment -----------------------------
(***************************************************************************)
(* What two-step registration promises, with no handlers, processes or     *)
(* files: an account comes only from an offer whose OTP somebody submitted *)
(* before it expired, it has the password given with that very offer, an   *)
(* address gets one account, and accounts stay.                            *)
(***************************************************************************)
EXTENDS Integers

CONSTANTS
    Member,     \* addresses that may enrol
    Password,
    OTP,
    Time        \* points in time, a subset of Nat

VARIABLES
    offers,     \* offers in force, at most one for an address
    reviews,    \* submitted OTPs being compared with an offer
    granted,    \* offers proved by their OTP, not yet turned into accounts
    accounts,   \* [email, password]
    clock

enrolmentVars == <<offers, reviews, granted, accounts, clock>>

Offer == [email : Member, password : Password, otp : OTP, expiresAt : Time]

EnrolmentInit ==
    /\ offers = {}
    /\ reviews = {}
    /\ granted = {}
    /\ accounts = {}
    /\ clock = 0

MakeOffer(o) ==
    /\ \A p \in offers : p.email # o.email
    /\ offers' = offers \cup {o}
    /\ UNCHANGED <<reviews, granted, accounts, clock>>

Review(o, otp) ==
    /\ o \in offers
    /\ reviews' = reviews \cup {[offer |-> o, otp |-> otp]}
    /\ UNCHANGED <<offers, granted, accounts, clock>>

\* The submitted OTP is the offer's, and in time.
Grant(v) ==
    /\ v \in reviews
    /\ v.otp = v.offer.otp
    /\ clock <= v.offer.expiresAt
    /\ granted' = granted \cup {v.offer}
    /\ reviews' \in {reviews, reviews \ {v}}
    /\ UNCHANGED <<offers, accounts, clock>>

Enrol(o) ==
    /\ o \in granted
    /\ \A u \in accounts : u.email # o.email
    /\ accounts' = accounts \cup {[email |-> o.email, password |-> o.password]}
    /\ granted' \in {granted, granted \ {o}}
    /\ UNCHANGED <<offers, reviews, clock>>

\* Offers are replaced, expire or have been used, submissions are refused,
\* and granted offers come to nothing.
Forget ==
    /\ offers' \in SUBSET offers
    /\ reviews' \in SUBSET reviews
    /\ granted' \in SUBSET granted
    /\ UNCHANGED <<accounts, clock>>

Advance ==
    /\ clock' \in {t \in Time : t > clock}
    /\ UNCHANGED <<offers, reviews, granted, accounts>>

EnrolmentNext ==
    \/ \E o \in Offer :
        \/ MakeOffer(o) \/ Enrol(o)
        \/ \E otp \in OTP : Review(o, otp) \/ Grant([offer |-> o, otp |-> otp])
    \/ Forget
    \/ Advance

EnrolmentSpec == EnrolmentInit /\ [][EnrolmentNext]_enrolmentVars

=============================================================================
