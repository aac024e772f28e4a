------------------------- MODULE MCPhoneCloudData --------------------------
(* PhoneCloudData with two accounts and two chat requests, or one task.    *)
EXTENDS PhoneCloudData, TLC

CONSTANTS x, y, nil

TwoChats == <<"chatRequest", "chatRequest">>
OneTask == <<"taskComplete">>
=============================================================================
