---------------------------- MODULE MCTemplates ----------------------------
EXTENDS Templates

MCKeys == {<<"transaction", "en">>, <<"transaction", "hi">>, <<"otp", "en">>}
MCDefaults == <<<<"transaction", "en">>, <<"transaction", "hi">>, <<"otp", "en">>>>

=============================================================================
