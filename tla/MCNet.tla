------------------------------- MODULE MCNet --------------------------------
(* Values for Net's constants.                                                 *)
EXTENDS Net

Conf == << <<"#", None>>, <<"gw", Lan>>, <<"gw", Gw>> >>
=============================================================================
