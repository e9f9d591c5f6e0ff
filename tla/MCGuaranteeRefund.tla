-------------------------- MODULE MCGuaranteeRefund --------------------------
EXTENDS GuaranteeRefund
=============================================================================
