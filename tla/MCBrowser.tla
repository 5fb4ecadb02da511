----------------------------- MODULE MCBrowser ------------------------------
(* Browser with small bounds: see Browser.cfg.                              *)
EXTENDS Browser, TLC
=============================================================================
