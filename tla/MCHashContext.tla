---------------------------- MODULE MCHashContext ----------------------------
(* The hash-function context over SHA-512 with 4-byte blocks, a 1-byte   *)
(* length field and 1-byte words: plain updates of ones, and numbers     *)
(* whose top word has its msb clear (1; 1, 200) or set (200).           *)
EXTENDS HashContext

MCBlockBytes == 4
MCLenBytes == 1
MCDataBytes == {0, 1, 200}
MCPlainInputs == {<<>>, <<1>>, <<1, 1>>}
MCMpInputs == {<<1>>, <<200>>, <<1, 200>>}
====
