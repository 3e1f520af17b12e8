------------------------------ MODULE MnpRecord ------------------------------
(***************************************************************************)
(* The MNP entity of src/anti-call-masking/anti-call-masking-platform/     *)
(* internal/domain/mnp/entity/mnp.go: IsValidMSISDN (msisdnPattern),       *)
(* NormalizeMSISDN, NewMNPRecord (validate, then normalize) and            *)
(* UpdateNetwork.  An MSISDN is a sequence of one-character strings; the   *)
(* national number has NationalLen digits (10 in the code: the pattern's   *)
(* {10} and the length 11 of the 0-prefixed form).  Each behaviour takes   *)
(* one input string, builds a record from it and ports the number.         *)
(***************************************************************************)
EXTENDS Integers, SequencesExt

CONSTANTS
    Digits,         \* one-character strings standing for [0-9]
    Separators,     \* characters [\s-] matches
    NationalLen,    \* digits after the country code (10)
    Networks,       \* network operators
    Inputs,         \* MSISDN strings NewMNPRecord may be called with
    Panic,          \* model value: the call panics (index out of range)
    ErrInvalidMSISDN, \* model value: NewMNPRecord's validation error
    NoRecord        \* model value: NewMNPRecord not called yet

ASSUME {"0", "2", "3", "4"} \subseteq Digits
ASSUME NationalLen >= 2

CC == <<"2", "3", "4">>

AllDigits(s) == \A i \in DOMAIN s : s[i] \in Digits

(* msisdnPattern ^\+?234[0-9]{10}$.                                         *)
IsValidMSISDN(m) ==
    LET body == IF m # <<>> /\ m[1] = "+" THEN Tail(m) ELSE m
    IN  /\ Len(body) = 3 + NationalLen
        /\ IsPrefix(CC, body)
        /\ AllDigits(SubSeq(body, 4, Len(body)))

(* Fault model for NormalizeMSISDN: the 0 prefix is replaced by 234        *)
(* without the +.                                                          *)
NormalizeMSISDNNoPlus(m) ==
    IF m = <<>> THEN m
    ELSE LET c == SelectSeq(m, LAMBDA ch : ch \notin Separators) IN
         IF c = <<>> THEN Panic
         ELSE IF c[1] # "+" /\ Len(c) < 3 THEN Panic
         ELSE IF c[1] # "+" /\ SubSeq(c, 1, 3) = CC THEN <<"+">> \o c
         ELSE IF c[1] = "0" /\ Len(c) = NationalLen + 1 THEN CC \o Tail(c)
         ELSE c

(* Fault model for NormalizeMSISDN: the 0-prefixed form is recognised one  *)
(* digit short.                                                            *)
NormalizeMSISDNShort(m) ==
    IF m = <<>> THEN m
    ELSE LET c == SelectSeq(m, LAMBDA ch : ch \notin Separators) IN
         IF c = <<>> THEN Panic
         ELSE IF c[1] # "+" /\ Len(c) < 3 THEN Panic
         ELSE IF c[1] # "+" /\ SubSeq(c, 1, 3) = CC THEN <<"+">> \o c
         ELSE IF c[1] = "0" /\ Len(c) = NationalLen THEN <<"+">> \o CC \o Tail(c)
         ELSE c

(* NormalizeMSISDN: an empty string is returned as it is; spaces and dashes *)
(* are removed; a string starting 234 gets a +, and 0 followed by the      *)
(* national number becomes +234.  cleaned[0] of an empty cleaned string    *)
(* and cleaned[0:3] of a shorter one are out of range: the call panics.    *)
NormalizeMSISDN(m) ==
    IF m = <<>> THEN m
    ELSE LET c == SelectSeq(m, LAMBDA ch : ch \notin Separators) IN
         IF c = <<>> THEN Panic
         ELSE IF c[1] # "+" /\ Len(c) < 3 THEN Panic
         ELSE IF c[1] # "+" /\ SubSeq(c, 1, 3) = CC THEN <<"+">> \o c
         ELSE IF c[1] = "0" /\ Len(c) = NationalLen + 1 THEN <<"+">> \o CC \o Tail(c)
         ELSE c

VARIABLES
    msisdnIn,   \* the string NewMNPRecord is called with
    record      \* the MNPRecord it returned, its error, or NoRecord

mvars == <<msisdnIn, record>>

MTypeOK ==
    /\ msisdnIn \in Inputs
    /\ record \in {NoRecord, ErrInvalidMSISDN}
                  \cup [msisdn : Seq(STRING), originalNetwork : Networks,
                        currentNetwork : Networks, status : {"active"}]

MInit ==
    /\ msisdnIn \in Inputs
    /\ record = NoRecord

(* NewMNPRecord: IsValidMSISDN, then the normalized number, active.        *)
NewMNPRecord(orig, cur) ==
    /\ record = NoRecord
    /\ record' = IF IsValidMSISDN(msisdnIn)
                 THEN [msisdn |-> NormalizeMSISDN(msisdnIn), originalNetwork |-> orig,
                       currentNetwork |-> cur, status |-> "active"]
                 ELSE ErrInvalidMSISDN
    /\ UNCHANGED msisdnIn

(* UpdateNetwork: a porting event sets the current network, whatever it  *)
(* was.                                                                    *)
UpdateNetwork(n) ==
    /\ record \notin {NoRecord, ErrInvalidMSISDN}
    /\ record' = [record EXCEPT !.currentNetwork = n]
    /\ UNCHANGED msisdnIn

MNext ==
    \/ \E o, c \in Networks : NewMNPRecord(o, c)
    \/ \E n \in Networks : UpdateNetwork(n)

MSpec == MInit /\ [][MNext]_mvars
-----------------------------------------------------------------------------
(* The canonical form of spec 6: inputs are accepted as 0XXXXXXXXXX,       *)
(* 234XXXXXXXXXX or +234XXXXXXXXXX with whitespace and dashes anywhere,    *)
(* and all three mean +234XXXXXXXXXX.                                      *)
Stripped(m) == SelectSeq(m, LAMBDA ch : ch \notin Separators)

AcceptedPrefixes == {<<"0">>, CC, <<"+">> \o CC}

AcceptedForm(m) ==
    \E p \in AcceptedPrefixes :
        /\ Len(Stripped(m)) = Len(p) + NationalLen
        /\ IsPrefix(p, Stripped(m))
        /\ AllDigits(SubSeq(Stripped(m), Len(p) + 1, Len(Stripped(m))))

SpecNormalize(m) ==
    <<"+">> \o CC \o SubSeq(Stripped(m), Len(Stripped(m)) - NationalLen + 1, Len(Stripped(m)))

(* Spec 8: Normalize(Normalize(x)) = Normalize(x).  NormalizeMSISDN of a   *)
(* string it does not panic on is a fixed point of NormalizeMSISDN.        *)
NormalizeIdempotent ==
    NormalizeMSISDN(msisdnIn) # Panic
        => NormalizeMSISDN(NormalizeMSISDN(msisdnIn)) = NormalizeMSISDN(msisdnIn)

(* NormalizeMSISDN agrees with the spec's canonical form on every accepted *)
(* form of an MSISDN, separators included.                                 *)
NormalizeMatchesSpec ==
    AcceptedForm(msisdnIn) => NormalizeMSISDN(msisdnIn) = SpecNormalize(msisdnIn)

(* Spec 6 accepts the three forms at the API boundary: NewMNPRecord never  *)
(* rejects an MSISDN written in one of them.                               *)
AcceptedFormsRecorded ==
    record = ErrInvalidMSISDN => ~AcceptedForm(msisdnIn)
=============================================================================
