----------------------------- MODULE MCKTLSConn ------------------------------
(* Model-checking instance of KTLSConn: kernels on either side of every   *)
(* threshold the suites below depend on, one suite of each family and      *)
(* protocol version that exercises a distinct branch, and a suite the     *)
(* switch of enableKernelTLS does not know.                                *)
EXTENDS KTLSConn

MCKernelVersions == {<<4, 9>>, <<4, 14>>, <<5, 4>>, <<5, 15>>, <<5, 19>>,
                     <<6, 1>>}

MCNegotiatedSuites ==
    {"TLS_ECDHE_RSA_WITH_AES_128_GCM_SHA256",
     "TLS_ECDHE_ECDSA_WITH_AES_256_GCM_SHA384",
     "TLS_ECDHE_RSA_WITH_CHACHA20_POLY1305_SHA256",
     "TLS_AES_128_GCM_SHA256",
     "TLS_CHACHA20_POLY1305_SHA256",
     "TLS_ECDHE_RSA_WITH_AES_128_CBC_SHA"}
=============================================================================
