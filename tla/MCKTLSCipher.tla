--------------------------- MODULE MCKTLSCipher ---------------------------
(* KTLSCipher with every suite of the three families, and room for the     *)
(* Finished record, one more software record and two kernel records.      *)
EXTENDS KTLSCipher

MCSuites == {"AES128", "AES256", "CHACHA"} \X {"TLS12", "TLS13"}

MCMaxRecords == 4
=============================================================================
