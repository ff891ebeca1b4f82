------------------------------ MODULE MCIsoDep ------------------------------
(***************************************************************************)
(* Three commands, one or two of them cut into two chunks; answers of one  *)
(* to four blocks, empty blocks among them, one longer than the buffer and *)
(* one longer than the chain the reader follows.  The caller carries on    *)
(* from a failure of the first command, as it does from EF.CardAccess.     *)
(***************************************************************************)
EXTENDS IsoDepInvariant

LongTwice == <<2, 2, 1>>
LongLast == <<1, 1, 2>>
SomeAnswers == {<<1>>, <<0>>, <<1, 1>>, <<1, 2>>, <<0, 0, 1>>,
                <<1, 1, 1>>, <<0, 0, 0, 1>>}
FirstTolerated == {1}
=============================================================================
