------------------------------ MODULE MCArming ------------------------------
\* Small instances of Arming for TLC.
EXTENDS Arming

\* The commands of the router, and the digits of a phone call.
WebAll == {"m_g=1", "m_g=0", "l_g=1", "l_g=0", "reboot_all", "reboot_gsm"}
DtmfAll == {"dtmf1", "dtmf2", "dtmf6"}
\* For the roll-back of an SMS: no calls, and what switches the guard on.
WebModes == {"m_g=1", "m_g=0", "l_g=1"}
None == {}
\* Settings by SMS.
SmsAll == {"guard=0", "guard=1", "local_guard=0", "local_guard=1",
           "autoguard=0", "autoguard=1"}
SmsAuto == {"autoguard=0", "autoguard=1"}
=============================================================================
