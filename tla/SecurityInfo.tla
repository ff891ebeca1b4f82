---------------------------- MODULE SecurityInfo ----------------------------
(***************************************************************************)
(* What a document announces in EF.CardAccess and DG14, and which PACE the *)
(* reader makes of it: src/protocol/emrtd_security_info.c over the reader  *)
(* of Tlv, with the table of curves of src/crypto/emrtd_ec.c.              *)
(*                                                                         *)
(* The names of identifiers, curves and ciphers are for the report and are *)
(* left out, and so is the version, which nothing reads.                   *)
(***************************************************************************)
EXTENDS Tlv

DG14 == <<110>>

BsiPrefix == <<4, 0, 127, 0, 7, 2, 2>>              \* emrtd_bsi_prefix
ActiveAuth == <<103, 129, 8, 1, 1, 5>>              \* emrtd_oid_active_auth

\* The component behind the prefix.
PK == 1
TA == 2
CA == 3
PACE == 4

PaceOidLen == 10                                    \* EMRTD_PACE_OID_LEN
NoParameter == 255

\* emrtd_curves by param_id, and those of them whose parameters it carries:
\* the firmware's mbed TLS has room for 256 bits.
Curves == 8 .. 18
CarriedCurves == 8 .. 13

\* The third component of a PACE identifier: the agreement and the mapping.
Agreement(m) == IF m \in {2, 4, 6} THEN "Ecdh" ELSE IF m \in {1, 3} THEN "Dh" ELSE "Unknown"
Mapping(m) ==
    CASE m \in {1, 2} -> "Generic"
      [] m \in {3, 4} -> "Integrated"
      [] m = 6 -> "ChipAuth"
      [] OTHER -> "Unknown"

\* The fourth: 1 is 3DES and 2 to 4 are AES with 128, 192 and 256 bits, which is
\* also the order of preference; 0 is EmrtdCipherCount, none of ours.
Cipher(c) == IF c \in 1 .. 4 THEN c ELSE 0

\* Why this build cannot run an entry, "None" if it can: the obstacle that is
\* hardest to remove is the one named.
Reason(agreement, mapping, cipher, parameter) ==
    CASE agreement = "Dh" -> "PaceUnsupportedDh"
      [] agreement = "Unknown" -> "Unsupported"
      [] agreement = "Ecdh" /\ mapping # "Generic" -> "PaceUnsupportedMapping"
      [] agreement = "Ecdh" /\ mapping = "Generic" /\ parameter \notin CarriedCurves ->
             "PaceUnsupportedCurve"
      [] agreement = "Ecdh" /\ mapping = "Generic" /\ parameter \in CarriedCurves ->
             IF cipher = 0 THEN "Unsupported" ELSE "None"

\* pace_info_build: an entry from its identifier and the second integer behind it,
\* which is the parameter if there is one and it is one byte.
PaceInfo(oid, second) ==
    LET parameter == IF second \in 0 .. 255 THEN second ELSE NoParameter
        agreement == Agreement(oid[9])
        mapping == Mapping(oid[9])
        cipher == Cipher(oid[10])
    IN [oid |-> oid, parameter |-> parameter, agreement |-> agreement,
        mapping |-> mapping, cipher |-> cipher,
        curve |-> agreement = "Ecdh" /\ parameter \in Curves,
        usable |-> Reason(agreement, mapping, cipher, parameter) = "None",
        reason |-> Reason(agreement, mapping, cipher, parameter)]

\* A bug for the check to find: the strongest cipher wins, usable or not.
PaceRankByCipher(info) == info.cipher

\* pace_rank: whether it can run at all dominates, then the stronger cipher wins.
PaceRank(info) == (IF info.usable THEN 16 ELSE 0) + info.cipher

\* EmrtdSecurityInfos before the first entry; <<>> is no PACE yet.
NoInfos == [pace |-> <<>>, chipAuth |-> FALSE, terminalAuth |-> FALSE,
            activeAuth |-> FALSE, entries |-> 0]

\* The second of the INTEGERs behind the identifier that can be read, -1 if there is none.
SecondInteger(nodes) ==
    LET readable == {i \in 2 .. Len(nodes) : /\ nodes[i].tag = INTEGER
                                            /\ ReadUint(nodes[i].value) >= 0}
        later == {i \in readable : \E j \in readable : j < i}
    IN IF later = {} THEN -1 ELSE ReadUint(nodes[Min(later)].value)

HasPrefix(oid) == Len(oid) > Len(BsiPrefix) /\ SubSeq(oid, 1, Len(BsiPrefix)) = BsiPrefix

\* security_info_handle: one SecurityInfo folded into the summary.
Handle(sequence, infos) ==
    LET nodes == Children(sequence)
        oid == nodes[1].value
        counted == [infos EXCEPT !.entries = Min({@ + 1, 255})]
        info == PaceInfo(oid, SecondInteger(nodes))
    IN IF nodes = <<>> THEN infos
       ELSE IF nodes[1].tag # OID THEN infos
       ELSE IF oid = ActiveAuth THEN [counted EXCEPT !.activeAuth = TRUE]
       ELSE IF ~HasPrefix(oid) THEN counted
       ELSE CASE oid[8] \in {PK, CA} -> [counted EXCEPT !.chipAuth = TRUE]
              [] oid[8] = TA -> [counted EXCEPT !.terminalAuth = TRUE]
              [] oid[8] = PACE ->
                     IF Len(oid) # PaceOidLen THEN counted
                     ELSE IF infos.pace = <<>> THEN [counted EXCEPT !.pace = <<info>>]
                     ELSE IF PaceRank(info) > PaceRank(infos.pace[1])
                     THEN [counted EXCEPT !.pace = <<info>>]
                     ELSE counted
              [] OTHER -> counted

\* The siblings emrtd_security_infos_parse goes through, or None: the content of
\* a SET, or of DG14's SET; of a SEQUENCE that does not open with an OID; or the
\* file itself, when that is a SecurityInfo.
Body(file) ==
    LET outer == First(file)
        inner == IF outer.tag = DG14 THEN outer.value ELSE file
        root == First(inner)
        first == First(root.value)
    IN IF outer = None THEN None
       ELSE IF root = None THEN None
       ELSE IF root.tag = SET THEN [total |-> 1, bytes |-> root.value]
       ELSE IF root.tag # SEQUENCE THEN None
       ELSE [total |-> 1,
             bytes |-> IF first # None /\ first.tag # OID
                       THEN root.value ELSE inner]

\* emrtd_security_infos_parse: what was announced, NoInfos standing for Parse.
\* The entries before the first node that cannot be read are kept.
SecurityInfos(file) ==
    LET nodes == Nodes(Body(file).bytes)
        upTo[i \in 0 .. Len(nodes)] ==
            IF i = 0 THEN NoInfos
            ELSE IF nodes[i].tag # SEQUENCE THEN upTo[i - 1]
            ELSE Handle(nodes[i], upTo[i - 1])
    IN IF Body(file) = None THEN NoInfos ELSE upTo[Len(nodes)]

\* emrtd_security_infos_best_pace: the entry to act on, <<>> if there is none.
BestPace(file) == SecurityInfos(file).pace
=============================================================================
