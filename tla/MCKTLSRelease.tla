---------------------------- MODULE MCKTLSRelease ----------------------------
(* Release strings of the shape of real uname output: majors 4 to 6, minors *)
(* of one and two digits over digits that do and do not occur in the major, *)
(* and the suffixes seen on distributions ("0-14-generic" has no further    *)
(* dot, "8-200.fc39" has one).                                              *)
EXTENDS KTLSRelease

MCMajors == {<<"4">>, <<"5">>, <<"6">>}
MCMinors == {<<"1">>, <<"6">>, <<"1", "5">>, <<"5", "1">>, <<"1", "9">>}
MCRests  == {<<"0">>, <<"1", "-", "g">>, <<"8", "-", "2", ".", "f">>}
=============================================================================
