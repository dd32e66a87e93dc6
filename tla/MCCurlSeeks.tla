----------------------------- MODULE MCCurlSeeks -----------------------------
(* The reader of an HTTP resource that may be asked to seek forward, and what  *)
(* it promises until it is.                                                    *)
EXTENDS CurlIOHandler

NoSeeks       == {}
ForwardSeeks  == {<<1, "CUR">>, <<3, "CUR">>}
BackwardSeeks == {<<0, "SET">>}
=============================================================================
